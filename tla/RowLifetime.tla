---------------------------- MODULE RowLifetime ----------------------------
(***************************************************************************)
(* How long the row an indication names stays what it was.  In `gnb` mode  *)
(* the IQ of a slot and its descriptor part: the helper writes a row of    *)
(* /e3_ran_buffers, then the codelet asks for an output buffer, and the    *)
(* descriptor waits in the output map, in a batch and in the SPSC queue    *)
(* until the worker hands it to E3SMLayer1, which names the row to the     *)
(* dApps.  Nothing ties the two together: the helper goes on writing round *)
(* the ring whatever becomes of the descriptors, also when there is no     *)
(* buffer for one.                                                         *)
(* The codelet was loaded by hand here, so that the channel outlives the   *)
(* sessions and a descriptor can wait longest.  The steps of the pipeline  *)
(* are those of SlotIqPipeline, with the accesses that only concern its    *)
(* cursors taken together.                                                 *)
(***************************************************************************)
EXTENDS Integers, Sequences

CONSTANTS
    Rows,             \* rows of the ring, both buffers together
    Pool,             \* buffers of the output map (32)
    QUEUE_CAPACITY,   \* entries of the SPSC queue (32)
    MaxSlots          \* bound: slots captured in a behaviour

ASSUME RowAssumption ==
    /\ Rows \in Nat \ {0} /\ Pool \in Nat \ {0}
    /\ QUEUE_CAPACITY \in Nat \ {0} /\ MaxSlots \in Nat

VARIABLES
    slots,        \* slots captured so far
    written,      \* rows the helper has begun to write
    ring,         \* the row at each place; 0 while it is being written
    codelet_pc, fire,   \* the invocation in progress and its descriptor
    output_map,   \* descriptors submitted, not yet polled
    bufs,         \* the batch of the poll thread
    poll_pc,
    registered,   \* the dispatcher has a handler for slot_iq
    queue,        \* queued entries, the one the worker is at included
    worker_pc,
    running,      \* SlotIqPipeline::running_
    sm_running,   \* E3SMLayer1::running_
    ctl_pc,       \* where start() or stop() is
    skipped       \* history: descriptors that were not made or not queued

codeletVars == <<slots, written, ring, codelet_pc, fire>>
pollVars == <<bufs, poll_pc>>
ctlVars == <<registered, running, sm_running, ctl_pc>>
vars == <<codeletVars, output_map, pollVars, queue, worker_pc, ctlVars, skipped>>

\* A descriptor: its row, 0 when the helper refused the slot (TRUNCATED), and
\* how many had been skipped when the row was begun.
Descriptor == [row : Nat, skip : Nat]
NoDescriptor == [row |-> 0, skip |-> 0]

\* Mutant of Place: the cursor never moves to the second buffer.
PlaceOneBuffer(k) == (k - 1) % (Rows \div 2)

\* Where the helper's cursor puts the k-th row: through the rows of one buffer,
\* then of the other, then over again.
Place(k) == (k - 1) % Rows

\* Mutant of InUse: the worker gives the buffer back before it handles the slot.
InUseReleasedFirst ==
    Len(output_map) + Len(bufs) + Len(queue)
    - (IF worker_pc \in {"on_sample", "emit", "release", "advance"} THEN 1 ELSE 0)

\* A buffer is in use from the codelet's request to its release, which the
\* worker makes before it retires the entry.
InUse == Len(output_map) + Len(bufs) + Len(queue)
         - (IF worker_pc = "advance" THEN 1 ELSE 0)

-----------------------------------------------------------------------------
(* The codelet and its helper. *)

\* The helper accepts the slot and begins its row, over what was there.
BeginRow ==
    /\ codelet_pc = "idle" /\ slots < MaxSlots
    /\ slots' = slots + 1
    /\ written' = written + 1
    /\ ring' = [ring EXCEPT ![Place(written + 1)] = 0]
    /\ fire' = [row |-> written + 1, skip |-> skipped]
    /\ codelet_pc' = "write"
    /\ UNCHANGED <<output_map, pollVars, queue, worker_pc, ctlVars, skipped>>

EndRow ==
    /\ codelet_pc = "write"
    /\ ring' = [ring EXCEPT ![Place(fire.row)] = fire.row]
    /\ codelet_pc' = "output"
    /\ UNCHANGED <<slots, written, fire, output_map, pollVars, queue, worker_pc,
                   ctlVars, skipped>>

\* No rung for the grid, or the helper refuses: a descriptor without a row.
Refuse ==
    /\ codelet_pc = "idle" /\ slots < MaxSlots
    /\ slots' = slots + 1
    /\ fire' = NoDescriptor
    /\ codelet_pc' = "output"
    /\ UNCHANGED <<written, ring, output_map, pollVars, queue, worker_pc,
                   ctlVars, skipped>>

Output ==
    /\ codelet_pc = "output" /\ InUse < Pool
    /\ output_map' = Append(output_map, fire)
    /\ codelet_pc' = "idle"
    /\ UNCHANGED <<slots, written, ring, fire, pollVars, queue, worker_pc, ctlVars,
                   skipped>>

\* jbpf_get_output_buf has none left, or jbpf_send_output fails: the codelet
\* fails after the row was written.
NoOutput ==
    /\ codelet_pc = "output"
    /\ codelet_pc' = "idle"
    /\ skipped' = skipped + 1
    /\ UNCHANGED <<slots, written, ring, fire, output_map, pollVars, queue,
                   worker_pc, ctlVars>>

-----------------------------------------------------------------------------
(* The poll thread. *)

Poll ==
    /\ poll_pc = "idle"
    /\ \E n \in 1..Len(output_map) :
          /\ bufs' = SubSeq(output_map, 1, n)
          /\ output_map' = SubSeq(output_map, n + 1, Len(output_map))
    /\ poll_pc' = "lookup"
    /\ UNCHANGED <<codeletVars, queue, worker_pc, ctlVars, skipped>>

Lookup ==
    /\ poll_pc = "lookup"
    /\ poll_pc' = IF registered THEN "enqueue" ELSE "discard"
    /\ UNCHANGED <<codeletVars, output_map, bufs, queue, worker_pc,
                   ctlVars, skipped>>

NextBuf(pc) ==
    /\ bufs' = Tail(bufs)
    /\ poll_pc' = IF Len(bufs) = 1 THEN "idle" ELSE pc

\* No handler, or no room in the queue: the buffer goes back to the pool.
Discard ==
    /\ \/ poll_pc = "discard"
       \/ poll_pc = "enqueue" /\ Len(queue) >= QUEUE_CAPACITY
    /\ NextBuf(poll_pc)
    /\ skipped' = skipped + 1
    /\ UNCHANGED <<codeletVars, output_map, queue, worker_pc, ctlVars>>

Enqueue ==
    /\ poll_pc = "enqueue" /\ Len(queue) < QUEUE_CAPACITY
    /\ queue' = Append(queue, Head(bufs))
    /\ NextBuf("enqueue")
    /\ UNCHANGED <<codeletVars, output_map, worker_pc, ctlVars, skipped>>

-----------------------------------------------------------------------------
(* The worker, and on_sample() of the service model. *)

WorkerCheck ==
    /\ worker_pc = "check"
    /\ worker_pc' = IF running THEN "load" ELSE "none"
    /\ UNCHANGED <<codeletVars, output_map, pollVars, queue, ctlVars, skipped>>

WorkerLoad ==
    /\ worker_pc = "load"
    /\ worker_pc' = IF queue = <<>> THEN "check" ELSE "on_sample"
    /\ UNCHANGED <<codeletVars, output_map, pollVars, queue, ctlVars, skipped>>

\* on_sample() refuses the slot when the service model is not running or
\* nothing was written for it; other refusals are no different here.
OnSample ==
    /\ worker_pc = "on_sample"
    /\ worker_pc' \in IF sm_running /\ Head(queue).row # 0
                      THEN {"emit", "release"} ELSE {"release"}
    /\ UNCHANGED <<codeletVars, output_map, pollVars, queue, ctlVars, skipped>>

\* The indications, naming the row, are on their way to the dApps.
Emitted ==
    /\ worker_pc = "emit"
    /\ worker_pc' = "release"
    /\ UNCHANGED <<codeletVars, output_map, pollVars, queue, ctlVars, skipped>>

WorkerRelease ==
    /\ worker_pc = "release"
    /\ worker_pc' = "advance"
    /\ UNCHANGED <<codeletVars, output_map, pollVars, queue, ctlVars, skipped>>

WorkerAdvance ==
    /\ worker_pc = "advance"
    /\ queue' = Tail(queue)
    /\ worker_pc' = "check"
    /\ UNCHANGED <<codeletVars, output_map, pollVars, ctlVars, skipped>>

-----------------------------------------------------------------------------
(* Subscriptions: start() and stop(). *)

Start ==
    /\ ctl_pc = "idle" /\ ~sm_running
    /\ running' = TRUE /\ registered' = TRUE /\ worker_pc' = "check"
    /\ ctl_pc' = "sm_up"
    /\ UNCHANGED <<codeletVars, output_map, pollVars, queue, sm_running, skipped>>

SmUp ==
    /\ ctl_pc = "sm_up"
    /\ sm_running' = TRUE
    /\ ctl_pc' = "idle"
    /\ UNCHANGED <<codeletVars, output_map, pollVars, queue, worker_pc,
                   registered, running, skipped>>

Stop ==
    /\ ctl_pc = "idle" /\ sm_running
    /\ sm_running' = FALSE
    /\ ctl_pc' = "unregister"
    /\ UNCHANGED <<codeletVars, output_map, pollVars, queue, worker_pc,
                   registered, running, skipped>>

\* A batch whose handler was looked up before goes on all the same.
Unregister ==
    /\ ctl_pc = "unregister"
    /\ registered' = FALSE /\ running' = FALSE
    /\ ctl_pc' = "join"
    /\ UNCHANGED <<codeletVars, output_map, pollVars, queue, worker_pc,
                   sm_running, skipped>>

\* The worker has ended; what it did not reach is released unseen.
Drain ==
    /\ ctl_pc = "join" /\ worker_pc = "none"
    /\ queue' = <<>>
    /\ skipped' = skipped + Len(queue)
    /\ ctl_pc' = "idle"
    /\ UNCHANGED <<codeletVars, output_map, pollVars, worker_pc, registered,
                   running, sm_running>>

-----------------------------------------------------------------------------
Init ==
    /\ slots = 0 /\ written = 0
    /\ ring = [p \in 0..Rows-1 |-> 0]
    /\ codelet_pc = "idle" /\ fire = NoDescriptor
    /\ output_map = <<>> /\ bufs = <<>> /\ queue = <<>>
    /\ poll_pc = "idle" /\ worker_pc = "none" /\ ctl_pc = "idle"
    /\ registered = FALSE /\ running = FALSE /\ sm_running = FALSE
    /\ skipped = 0

Codelet == BeginRow \/ EndRow \/ Refuse \/ Output \/ NoOutput
PollThread == Poll \/ Lookup \/ Discard \/ Enqueue
Worker ==
    \/ WorkerCheck \/ WorkerLoad \/ OnSample \/ Emitted
    \/ WorkerRelease \/ WorkerAdvance
Control == Start \/ SmUp \/ Stop \/ Unregister \/ Drain

Next == Codelet \/ PollThread \/ Worker \/ Control

Spec == Init /\ [][Next]_vars

-----------------------------------------------------------------------------
(* Properties. *)

\* Every variable holds a value of its kind; a place holds a row written to it
\* or none.
TypeOK ==
    /\ slots \in Nat /\ written \in Nat /\ skipped \in Nat
    /\ ring \in [0..Rows-1 -> Nat]
    /\ codelet_pc \in {"idle", "write", "output"}
    /\ fire \in Descriptor
    /\ output_map \in Seq(Descriptor)
    /\ bufs \in Seq(Descriptor)
    /\ queue \in Seq(Descriptor)
    /\ poll_pc \in {"idle", "lookup", "discard", "enqueue"}
    /\ worker_pc \in {"none", "check", "load", "on_sample", "emit", "release",
                      "advance"}
    /\ ctl_pc \in {"idle", "sm_up", "unregister", "join"}
    /\ registered \in BOOLEAN /\ running \in BOOLEAN /\ sm_running \in BOOLEAN

\* Descriptors skipped since the row of d was begun.
SkippedSince(d) == skipped - d.skip

\* An indication is never further behind the helper than the output map has
\* buffers and descriptors were skipped meanwhile: back-pressure on the
\* descriptors bounds the lag, and only skipping loosens it.
LagBounded ==
    worker_pc = "emit" =>
        written - Head(queue).row <= Pool + SkippedSince(Head(queue))

\* on_sample() refuses what "would point the dApp at a row nobody wrote"; that
\* the row it does name still holds the slot it is about nobody checks.  It
\* does, complete, whenever the ring has more rows than the output map has
\* buffers and descriptors were skipped since the row was begun.
NamedRowIntact ==
    worker_pc = "emit" /\ Rows > Pool + SkippedSince(Head(queue)) =>
        ring[Place(Head(queue).row)] = Head(queue).row

=============================================================================
