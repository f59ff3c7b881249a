----------------------------- MODULE L1KpmTrace -----------------------------
(***************************************************************************)
(* Stage stamps of the L1-KPM slot path (src/e3sm/l1_kpm/l1_kpm_trace.h)   *)
(* as E3SMLayer1::on_sample issues them on the worker thread, with the     *)
(* records libe3 writes into the same thread's ring when a slot is emitted.*)
(* Time is CLOCK_MONOTONIC in nanoseconds: every step takes at least one,  *)
(* and a slot's own stamps, taken by the gNB, lie in the past.             *)
(***************************************************************************)
EXTENDS Integers, Sequences, FiniteSets

CONSTANTS
    MaxSlots,     \* bound: slots that reach the traced region
    MaxWorkers,   \* bound: worker threads, one per session
    MaxGap,       \* bound: nanoseconds one step may take
    MaxAge,       \* bound: how long ago a slot was recorded
    MaxSubs,      \* bound: indications per slot
    MaxTime       \* bound: when the last slot may begin

ASSUME BoundsAssumption ==
    /\ MaxSlots \in Nat /\ MaxWorkers \in Nat /\ MaxGap \in Nat \ {0}
    /\ MaxAge \in Nat /\ MaxSubs \in Nat /\ MaxTime \in Nat

VARIABLES
    now,             \* the clock
    tls_floor_ns,    \* of the current worker thread
    g_clamped,       \* process-wide
    ring,            \* the current thread's records
    ring_role,       \* the name it was opened under, "none" before
    ctx,             \* latrec_ctx_set's key
    slots,           \* history: the slots of the traced region, by publish_seq
    pc,              \* where on_sample is
    emits,           \* indications of this slot still to be emitted
    workers          \* worker threads so far

vars == <<now, tls_floor_ns, g_clamped, ring, ring_role, ctx, slots, pc,
          emits, workers>>

kRingRole == "e3controller.l1_kpm"

publish_seq == Len(slots)
Stages == {"RECORD_BEGIN", "PROCESS_BEGIN", "ENCODE_E3SM_BEGIN",
           "ENCODE_E3SM_DONE", "SKIPPED", "EMIT_ENTER", "WAIT_ENTER"}

-----------------------------------------------------------------------------
\* Every step takes time.
Tick == \E d \in 1..MaxGap : now' = now + d

Monotone(t) == IF t <= tls_floor_ns THEN tls_floor_ns + 1 ELSE t

\* Mutant of StampAt: only a clamp of more than one nanosecond is counted.
StampAtUncounted(stage, t) ==
    /\ ring' = Append(ring, [stage |-> stage, seq |-> publish_seq,
                             t |-> Monotone(t)])
    /\ tls_floor_ns' = Monotone(t)
    /\ g_clamped' = g_clamped + (IF Monotone(t) > t + 1 THEN 1 ELSE 0)

\* stamp_at(): the record carries the clamped time, which becomes the floor.
StampAt(stage, t) ==
    /\ ring' = Append(ring, [stage |-> stage, seq |-> publish_seq,
                             t |-> Monotone(t)])
    /\ tls_floor_ns' = Monotone(t)
    /\ g_clamped' = g_clamped + (IF Monotone(t) = t THEN 0 ELSE 1)

\* stamp_now(): latrec_tnow() read in this step.
StampNow(stage) == Tick /\ StampAt(stage, now')

-----------------------------------------------------------------------------
\* open_ring() at the top of worker_loop(): first open wins.
OpenRing ==
    /\ pc = "start"
    /\ ring_role' = IF ring_role = "none" THEN kRingRole ELSE ring_role
    /\ pc' = "idle"
    /\ Tick
    /\ UNCHANGED <<tls_floor_ns, g_clamped, ring, ctx, slots, emits, workers>>

\* A slot recorded at gnb_ts_ns, in place at codelet_ts_ns, passes the checks
\* of on_sample.  Sectors and stalls leave the two in no relation to the
\* times of other slots.
BeginSlot ==
    /\ pc = "idle" /\ Len(slots) < MaxSlots /\ now <= MaxTime
    /\ \E g, c \in (now - MaxAge)..now :
         /\ 0 < g /\ g < c
         /\ slots' = Append(slots, [gnb |-> g, codelet |-> c])
    /\ \E n \in 1..MaxSubs : emits' = n
    /\ pc' = "record"
    /\ UNCHANGED <<now, tls_floor_ns, g_clamped, ring, ring_role, ctx, workers>>

RecordBegin ==
    /\ pc = "record"
    /\ StampAt("RECORD_BEGIN", slots[publish_seq].gnb)
    /\ pc' = "process"
    /\ Tick
    /\ UNCHANGED <<ring_role, ctx, slots, emits, workers>>

\* Mutant of ProcessBegin: stamped with the time of the call.
ProcessBeginNow ==
    /\ pc = "process"
    /\ StampNow("PROCESS_BEGIN")
    /\ pc' = "encode"
    /\ UNCHANGED <<ring_role, ctx, slots, emits, workers>>

ProcessBegin ==
    /\ pc = "process"
    /\ StampAt("PROCESS_BEGIN", slots[publish_seq].codelet)
    /\ pc' = "encode"
    /\ Tick
    /\ UNCHANGED <<ring_role, ctx, slots, emits, workers>>

EncodeBegin ==
    /\ pc = "encode"
    /\ StampNow("ENCODE_E3SM_BEGIN")
    /\ pc' = "encoding"
    /\ UNCHANGED <<ring_role, ctx, slots, emits, workers>>

EncodeDone ==
    /\ pc = "encoding"
    /\ StampNow("ENCODE_E3SM_DONE")
    /\ pc' = "bind"
    /\ UNCHANGED <<ring_role, ctx, slots, emits, workers>>

EncodeFailed ==
    /\ pc = "encoding"
    /\ StampNow("SKIPPED")
    /\ pc' = "idle"
    /\ UNCHANGED <<ring_role, ctx, slots, emits, workers>>

\* Mutant of BindLibe3: the key is set only once per thread.
BindLibe3Once ==
    /\ pc = "bind"
    /\ ctx' = IF ctx = 0 THEN publish_seq ELSE ctx
    /\ pc' = "emit"
    /\ Tick
    /\ UNCHANGED <<tls_floor_ns, g_clamped, ring, ring_role, slots, emits, workers>>

BindLibe3 ==
    /\ pc = "bind"
    /\ ctx' = publish_seq
    /\ pc' = "emit"
    /\ Tick
    /\ UNCHANGED <<tls_floor_ns, g_clamped, ring, ring_role, slots, emits, workers>>

\* The fan-out enters queue_outbound() inside libe3: its record goes to the emitting thread's
\* ring, with the time as read, past the floor; the key it carries is ctx.
LibEmitEnter ==
    /\ pc = "emit" /\ emits > 0
    /\ Tick
    /\ ring' = Append(ring, [stage |-> "EMIT_ENTER", seq |-> ctx, t |-> now'])
    /\ ring_role' = IF ring_role = "none" THEN "libe3.outbound" ELSE ring_role
    /\ emits' = emits - 1
    /\ UNCHANGED <<tls_floor_ns, g_clamped, ctx, slots, pc, workers>>

\* Mutant of EmitTail: the emit tail is not stamped.
EmitTailSilent ==
    /\ pc = "emit" /\ emits = 0
    /\ pc' = "idle"
    /\ Tick
    /\ UNCHANGED <<tls_floor_ns, g_clamped, ring, ring_role, ctx, slots, emits, workers>>

EmitTail ==
    /\ pc = "emit" /\ emits = 0
    /\ StampNow("WAIT_ENTER")
    /\ pc' = "idle"
    /\ UNCHANGED <<ring_role, ctx, slots, emits, workers>>

\* The worker polls an empty queue.
Wait ==
    /\ pc = "idle" /\ now < MaxTime
    /\ now' = now + 1
    /\ UNCHANGED <<tls_floor_ns, g_clamped, ring, ring_role, ctx, slots, pc,
                   emits, workers>>

\* stop() and start(): the new worker has its own floor, ring and context;
\* the clamp counter and the publish sequence go on.
NewWorker ==
    /\ pc = "idle" /\ workers < MaxWorkers
    /\ workers' = workers + 1
    /\ tls_floor_ns' = 0
    /\ ring' = <<>>
    /\ ring_role' = "none"
    /\ ctx' = 0
    /\ pc' = "start"
    /\ Tick
    /\ UNCHANGED <<g_clamped, slots, emits>>

Init ==
    /\ now = MaxAge + 1
    /\ tls_floor_ns = 0
    /\ g_clamped = 0
    /\ ring = <<>>
    /\ ring_role = "none"
    /\ ctx = 0
    /\ slots = <<>>
    /\ pc = "start"
    /\ emits = 0
    /\ workers = 1

Next ==
    \/ OpenRing \/ BeginSlot \/ RecordBegin \/ ProcessBegin
    \/ EncodeBegin \/ EncodeDone \/ EncodeFailed
    \/ BindLibe3 \/ LibEmitEnter \/ EmitTail \/ Wait \/ NewWorker

Spec == Init /\ [][Next]_vars

-----------------------------------------------------------------------------
(* Properties. *)

\* Every variable holds a value of its kind.
TypeOK ==
    /\ now \in Nat
    /\ tls_floor_ns \in Nat
    /\ g_clamped \in Nat
    /\ ring \in Seq([stage : Stages, seq : Nat, t : Nat])
    /\ ring_role \in {"none", kRingRole, "libe3.outbound"}
    /\ ctx \in Nat
    /\ slots \in Seq([gnb : Nat, codelet : Nat])
    /\ pc \in {"start", "idle", "record", "process", "encode", "encoding",
               "bind", "emit"}
    /\ emits \in Nat
    /\ workers \in Nat

\* The ring's own invariant: its times strictly ascend, so libe3's reader
\* finds no descent to take for the wrap point.  It has to hold across the
\* back-dated stamps of interleaved sectors and across libe3's own records,
\* which do not go through the floor.
RingAscends ==
    \A i, j \in DOMAIN ring : i < j => ring[i].t < ring[j].t

\* Clamping only ever understates A1: a slot's RECORD_BEGIN and PROCESS_BEGIN
\* are neighbours, neither is recorded before it happened, and the recorded A1
\* is at most the true one.
NeverOverstated ==
    \A j \in DOMAIN ring : ring[j].stage = "PROCESS_BEGIN" =>
        /\ j > 1 /\ ring[j-1].stage = "RECORD_BEGIN"
        /\ ring[j-1].seq = ring[j].seq /\ ring[j].seq \in DOMAIN slots
        /\ LET s == slots[ring[j].seq]
           IN /\ ring[j-1].t >= s.gnb
              /\ ring[j].t >= s.codelet
              /\ ring[j].t - ring[j-1].t <= s.codelet - s.gnb

\* The slots of this ring whose recorded A1 is less than the true one.
Understated ==
    {ring[j].seq : j \in {i \in DOMAIN ring :
        /\ ring[i].stage = "PROCESS_BEGIN"
        /\ LET s == slots[ring[i].seq]
           IN ring[i].t - ring[i-1].t < s.codelet - s.gnb}}

\* No understated slot goes unreported: clamped() is at least their number.
UnderstatedIsCounted == Cardinality(Understated) <= g_clamped

\* Records belong to whom they claim: the ring is ours before anything is
\* written to it, and libe3's records carry the key of the slot whose
\* ENCODE_E3SM_DONE precedes them.
Attribution ==
    /\ ring # <<>> => ring_role = kRingRole
    /\ \A j \in DOMAIN ring : ring[j].stage = "EMIT_ENTER" =>
         /\ j > 1 /\ ring[j-1].stage \in {"ENCODE_E3SM_DONE", "EMIT_ENTER"}
         /\ ring[j-1].seq = ring[j].seq

-----------------------------------------------------------------------------
(* What a comment of the code says and the code does not guarantee. *)

\* "Non-zero means A1 is understated for that many slots"
\* (l1_kpm_trace.h:141-142), read between two slots of the first session.
ClampedCountsSlots ==
    pc = "idle" /\ workers = 1 => g_clamped = Cardinality(Understated)
=============================================================================
