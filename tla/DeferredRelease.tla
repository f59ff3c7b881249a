-------------------------- MODULE DeferredRelease ---------------------------
(***************************************************************************)
(* What a stream registered with defer_release=true promises               *)
(* (include/jbpf_dispatcher.h, lines 28-35): it takes ownership of buffers *)
(* one after the other, shows each to its consumers at most once and in    *)
(* the order it took them, never after giving it back, and gives each back *)
(* exactly once, in the same order.  Buffers are numbered 1, 2, ... as     *)
(* they are taken; a place of the queue is reusable once its buffer has    *)
(* been given back.                                                        *)
(***************************************************************************)
EXTENDS Naturals

CONSTANT Capacity

VARIABLES
    taken,       \* buffers taken so far
    shown,       \* number of the last buffer shown to the consumers
    returned,    \* buffers given back so far
    retired      \* places made reusable so far

TypeOK == taken \in Nat /\ shown \in Nat /\ returned \in Nat /\ retired \in Nat

Init == taken = 0 /\ shown = 0 /\ returned = 0 /\ retired = 0

Take ==
    /\ taken - retired < Capacity
    /\ taken' = taken + 1
    /\ UNCHANGED <<shown, returned, retired>>

\* The next buffer to be given back is shown, once.
Show ==
    /\ returned < taken
    /\ shown <= returned
    /\ shown' = returned + 1
    /\ UNCHANGED <<taken, returned, retired>>

Return ==
    /\ returned < taken
    /\ returned' = returned + 1
    /\ UNCHANGED <<taken, shown, retired>>

Retire ==
    /\ retired < retired'
    /\ retired' <= returned
    /\ UNCHANGED <<taken, shown, returned>>

Next == Take \/ Show \/ Return \/ Retire

Spec == Init /\ [][Next]_<<taken, shown, returned, retired>>
=============================================================================
