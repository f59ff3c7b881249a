-------------------------- MODULE L1KpmTraceProofs --------------------------
(***************************************************************************)
(* The ring of the slot path ascends, A1 is never overstated and where it  *)
(* is understated the slot is counted, and libe3's records carry the key   *)
(* of the slot they follow, for any number of slots, sessions and          *)
(* subscribers and any timing; the clamp counter is zero only where A1 is  *)
(* exact, and bounded by the slots.                                        *)
(*                                                                         *)
(* Then the codelet in which the slots recorded here begin                 *)
(* (UplinkSlotCodelet): when shm_cfg_sent_ means that one is published, and *)
(* what its descriptors say of it.                                         *)
(***************************************************************************)
EXTENDS L1KpmTrace, UplinkSlotCodelet, FiniteSetTheorems, TLAPS

Rec == [stage : Stages, seq : Nat, t : Nat]
SlotTimes == [gnb : Nat, codelet : Nat]

\* The floor bounds the ring except while libe3 writes to it.
FloorInv ==
    /\ tls_floor_ns <= now
    /\ \A i \in DOMAIN ring : ring[i].t <= now
    /\ pc # "emit" => \A i \in DOMAIN ring : ring[i].t <= tls_floor_ns

\* A slot's own times, and the RECORD_BEGIN that PROCESS_BEGIN will follow.
SlotInv ==
    /\ \A s \in DOMAIN slots : slots[s].gnb < slots[s].codelet /\ slots[s].codelet <= now
    /\ pc \notin {"start", "idle"} => Len(slots) > 0
    /\ pc = "process" =>
         /\ Len(ring) > 0
         /\ ring[Len(ring)].stage = "RECORD_BEGIN"
         /\ ring[Len(ring)].seq = Len(slots)
         /\ ring[Len(ring)].t = tls_floor_ns
         /\ tls_floor_ns >= slots[Len(slots)].gnb

IInv == TypeOK /\ FloorInv /\ RingAscends /\ SlotInv /\ NeverOverstated

-----------------------------------------------------------------------------
\* A step takes time: the clock moves forward and stays a natural number.
LEMMA TickForward ==
    ASSUME now \in Nat, Tick
    PROVE  now' \in Nat /\ now' > now
  BY BoundsAssumption DEF Tick

\* Appending a record: the old ones stay where they were.
LEMMA AppendRec ==
    ASSUME ring \in Seq(Rec), NEW r \in Rec, ring' = Append(ring, r)
    PROVE  /\ ring' \in Seq(Rec)
           /\ Len(ring') = Len(ring) + 1
           /\ ring'[Len(ring) + 1] = r
           /\ \A i \in DOMAIN ring : i \in DOMAIN ring' /\ ring'[i] = ring[i]
           /\ \A i \in DOMAIN ring' : i \in DOMAIN ring \/ i = Len(ring) + 1
           /\ DOMAIN ring = 1..Len(ring)
           /\ DOMAIN ring' = 1..(Len(ring) + 1)
           /\ Len(ring) \in Nat
  OBVIOUS

\* A record later than all before it keeps the ring ascending.
LEMMA AscendsAppend ==
    ASSUME ring \in Seq(Rec), NEW r \in Rec, ring' = Append(ring, r),
           RingAscends, \A i \in DOMAIN ring : ring[i].t < r.t
    PROVE  RingAscends'
<1>1. SUFFICES ASSUME NEW i \in DOMAIN ring', NEW j \in DOMAIN ring', i < j
               PROVE  ring'[i].t < ring'[j].t
  BY Zenon DEF RingAscends
<1>2. i \in DOMAIN ring /\ ring'[i] = ring[i]
  BY <1>1, AppendRec
<1>3. CASE j \in DOMAIN ring
  BY <1>1, <1>2, <1>3, AppendRec, Zenon DEF RingAscends
<1>4. CASE j = Len(ring) + 1
  BY <1>2, <1>4, AppendRec, Zenon
<1> QED
  BY <1>1, <1>3, <1>4, AppendRec, Zenon

\* What holds of the parts a stamp of ours changes once it is written.
Stamped(stage, t) ==
    /\ tls_floor_ns' \in Nat /\ g_clamped' \in Nat /\ ring' \in Seq(Rec)
    /\ RingAscends'
    /\ tls_floor_ns' <= now'
    /\ \A i \in DOMAIN ring' : ring'[i].t <= tls_floor_ns'
    /\ tls_floor_ns' = Monotone(t)

\* One stamp of ours: it lies above every record and becomes the floor.
LEMMA StampStep ==
    ASSUME TypeOK, RingAscends, tls_floor_ns <= now,
           NEW stage \in Stages, NEW t \in Nat, StampAt(stage, t),
           \A i \in DOMAIN ring : ring[i].t <= tls_floor_ns \/ ring[i].t < t,
           now' \in Nat, now' > now, t <= now'
    PROVE  Stamped(stage, t)
<1> DEFINE r == [stage |-> stage, seq |-> publish_seq, t |-> Monotone(t)]
<1>1. /\ Monotone(t) \in Nat /\ Monotone(t) >= t
      /\ Monotone(t) > tls_floor_ns /\ Monotone(t) <= now'
  BY DEF TypeOK, Monotone
<1>2. r \in Rec
  <2>1. publish_seq \in Nat
    BY DEF TypeOK, publish_seq
  <2> QED
    BY <1>1, <2>1, Zenon DEF Rec
<1>3. ring \in Seq(Rec)
  BY Zenon DEF TypeOK, Rec
<1>4. ring' = Append(ring, r) /\ tls_floor_ns' = Monotone(t)
  BY Zenon DEF StampAt
<1>5. g_clamped' \in Nat
  BY DEF StampAt, TypeOK
<1>6. \A i \in DOMAIN ring : ring[i].t \in Nat /\ ring[i].t < Monotone(t)
  <2>1. SUFFICES ASSUME NEW i \in DOMAIN ring
                 PROVE  ring[i].t \in Nat /\ ring[i].t < Monotone(t)
    BY Zenon
  <2>2. ring[i] \in Rec
    BY <1>3
  <2>3. ring[i].t \in Nat
    BY <2>2, Zenon DEF Rec
  <2>4. tls_floor_ns \in Nat
    BY Zenon DEF TypeOK
  <2> QED
    BY <1>1, <2>3, <2>4
<1>8. RingAscends'
  BY <1>2, <1>3, <1>4, <1>6, AscendsAppend, Zenon
<1>9. \A i \in DOMAIN ring' : ring'[i].t <= tls_floor_ns'
  <2>1. SUFFICES ASSUME NEW i \in DOMAIN ring' PROVE ring'[i].t <= tls_floor_ns'
    BY Zenon
  <2>2. CASE i \in DOMAIN ring
    <3>1. ring'[i] = ring[i]
      BY <1>2, <1>3, <1>4, <2>2, AppendRec, Zenon
    <3> QED
      BY <1>1, <1>4, <1>6, <2>2, <3>1
  <2>3. CASE i = Len(ring) + 1
    <3>1. ring'[i] = r
      BY <1>2, <1>3, <1>4, <2>3, AppendRec, Zenon
    <3> QED
      BY <1>1, <1>4, <3>1
  <2> QED
    BY <1>2, <1>3, <1>4, <2>1, <2>2, <2>3, AppendRec, Zenon
<1>10. ring' \in Seq(Rec)
  BY <1>2, <1>3, <1>4, AppendRec, Zenon
<1> QED
  BY <1>1, <1>4, <1>5, <1>8, <1>9, <1>10, Zenon DEF Stamped

\* A record other than PROCESS_BEGIN leaves the recorded A1s alone.
LEMMA TruthAppend ==
    ASSUME ring \in Seq(Rec), NEW r \in Rec, ring' = Append(ring, r),
           r.stage # "PROCESS_BEGIN", slots' = slots, NeverOverstated
    PROVE  NeverOverstated'
<1>1. SUFFICES ASSUME NEW j \in DOMAIN ring', ring'[j].stage = "PROCESS_BEGIN"
               PROVE  /\ j > 1 /\ ring'[j-1].stage = "RECORD_BEGIN"
                      /\ ring'[j-1].seq = ring'[j].seq
                      /\ ring'[j].seq \in DOMAIN slots
                      /\ ring'[j-1].t >= slots[ring'[j].seq].gnb
                      /\ ring'[j].t >= slots[ring'[j].seq].codelet
                      /\ ring'[j].t - ring'[j-1].t <=
                           slots[ring'[j].seq].codelet - slots[ring'[j].seq].gnb
  BY Zenon DEF NeverOverstated
<1>2. j \in DOMAIN ring /\ ring'[j] = ring[j]
  BY <1>1, AppendRec, Zenon
<1>3. j > 1 /\ j - 1 \in DOMAIN ring
  BY <1>1, <1>2, AppendRec DEF NeverOverstated
<1>4. ring'[j-1] = ring[j-1]
  BY <1>3, AppendRec, Zenon
<1> QED
  BY <1>1, <1>2, <1>3, <1>4, Zenon DEF NeverOverstated

-----------------------------------------------------------------------------
\* The initial state.
LEMMA InitIInv == Init => IInv
  BY BoundsAssumption
  DEF Init, IInv, TypeOK, FloorInv, RingAscends, SlotInv, NeverOverstated,
      kRingRole, Stages

\* The times of the slot being handled lie in the past.
LEMMA CurrentSlot ==
    ASSUME IInv, pc \notin {"start", "idle"}
    PROVE  /\ publish_seq = Len(slots) /\ Len(slots) \in DOMAIN slots
           /\ slots[Len(slots)].gnb \in Nat
           /\ slots[Len(slots)].codelet \in Nat
           /\ slots[Len(slots)].gnb < slots[Len(slots)].codelet
           /\ slots[Len(slots)].codelet <= now
<1>1. slots \in Seq(SlotTimes) /\ Len(slots) > 0
  BY Zenon DEF IInv, TypeOK, SlotInv, SlotTimes
<1>2. Len(slots) \in DOMAIN slots
  BY <1>1
<1>3. slots[Len(slots)] \in SlotTimes
  BY <1>1, <1>2
<1>4. slots[Len(slots)].gnb \in Nat /\ slots[Len(slots)].codelet \in Nat
  BY <1>3, Zenon DEF SlotTimes
<1> QED
  BY <1>2, <1>4, Zenon DEF IInv, SlotInv, publish_seq

\* The stamps other than PROCESS_BEGIN.
LEMMA OtherStamp ==
    ASSUME IInv, NEW stage \in Stages, stage # "PROCESS_BEGIN",
           slots' = slots, NEW t \in Nat, StampAt(stage, t),
           pc # "emit" \/ t = now',
           now' \in Nat, now' > now, t <= now'
    PROVE  Stamped(stage, t) /\ NeverOverstated'
<1> DEFINE r == [stage |-> stage, seq |-> publish_seq, t |-> Monotone(t)]
<1>1. TypeOK /\ RingAscends /\ tls_floor_ns <= now /\ NeverOverstated
  BY Zenon DEF IInv, FloorInv
<1>2. ring \in Seq(Rec) /\ tls_floor_ns \in Nat /\ now \in Nat
  BY <1>1, Zenon DEF TypeOK, Rec
<1>3. \A i \in DOMAIN ring : ring[i].t <= tls_floor_ns \/ ring[i].t < t
  <2>1. CASE pc # "emit"
    BY <2>1, Zenon DEF IInv, FloorInv
  <2>2. CASE t = now'
    <3>1. SUFFICES ASSUME NEW i \in DOMAIN ring PROVE ring[i].t < t
      BY Zenon
    <3>2. ring[i] \in Rec
      BY <1>2
    <3>3. ring[i].t \in Nat
      BY <3>2, Zenon DEF Rec
    <3> QED
      BY <1>2, <2>2, <3>3 DEF IInv, FloorInv
  <2> QED
    BY <2>1, <2>2, Zenon
<1>4. Stamped(stage, t)
  BY <1>1, <1>3, StampStep, Zenon
<1>5. r \in Rec
  <2>1. Monotone(t) \in Nat
    BY <1>2 DEF Monotone
  <2>2. publish_seq \in Nat
    BY <1>1 DEF TypeOK, publish_seq
  <2> QED
    BY <2>1, <2>2, Zenon DEF Rec
<1>6. ring' = Append(ring, r) /\ r.stage # "PROCESS_BEGIN"
  BY Zenon DEF StampAt
<1>7. NeverOverstated'
  BY <1>1, <1>2, <1>5, <1>6, TruthAppend, Zenon
<1> QED
  BY <1>4, <1>7, Zenon

\* A stamped step re-establishes the floor.
LEMMA StampedFloor ==
    ASSUME NEW stage, NEW t, Stamped(stage, t), TypeOK, now' \in Nat
    PROVE  FloorInv'
<1>1. \A i \in DOMAIN ring' : ring'[i].t \in Nat
  <2>1. SUFFICES ASSUME NEW i \in DOMAIN ring' PROVE ring'[i].t \in Nat
    BY Zenon
  <2>2. ring'[i] \in Rec
    BY DEF Stamped
  <2> QED
    BY <2>2, Zenon DEF Rec
<1> QED
  BY <1>1 DEF FloorInv, Stamped

\* The slots' times stay in the past as time goes on.
LEMMA SlotsPast ==
    ASSUME TypeOK, SlotInv, slots' = slots, now' \in Nat, now' >= now
    PROVE  \A s \in DOMAIN slots' :
               slots'[s].gnb < slots'[s].codelet /\ slots'[s].codelet <= now'
<1>1. SUFFICES ASSUME NEW s \in DOMAIN slots
               PROVE  slots[s].gnb < slots[s].codelet /\ slots[s].codelet <= now'
  BY Zenon
<1>0. slots \in Seq(SlotTimes)
  BY Zenon DEF TypeOK, SlotTimes
<1>2. slots[s] \in SlotTimes
  BY <1>0, <1>1
<1>3. slots[s].codelet \in Nat /\ now \in Nat
  BY <1>2, Zenon DEF TypeOK, SlotTimes
<1> QED
  BY <1>3 DEF SlotInv

\* EncodeBegin.
LEMMA EncodeBeginStep == ASSUME IInv, EncodeBegin PROVE IInv'
<1>1. now' \in Nat /\ now' > now /\ now \in Nat
  BY TickForward, Zenon DEF IInv, TypeOK, EncodeBegin, StampNow
<1>2. StampAt("ENCODE_E3SM_BEGIN", now') /\ slots' = slots
  BY Zenon DEF EncodeBegin, StampNow
<1>3. now' \in Nat /\ now' <= now'
  BY <1>1 DEF EncodeBegin
<1>4. "ENCODE_E3SM_BEGIN" \in Stages
  BY Zenon DEF Stages
<1>5. Stamped("ENCODE_E3SM_BEGIN", now') /\ NeverOverstated'
  BY <1>1, <1>2, <1>3, <1>4, OtherStamp, Zenon DEF EncodeBegin
<1>6. TypeOK /\ SlotInv
  BY Zenon DEF IInv
<1>7. TypeOK'
  BY <1>1, <1>5, <1>6, Zenon DEF TypeOK, Stamped, Rec, EncodeBegin
<1>8. FloorInv'
  BY <1>1, <1>5, <1>6, StampedFloor, Zenon
<1>9. SlotInv'
  BY <1>1, <1>2, <1>6, SlotsPast DEF SlotInv, EncodeBegin
<1> QED
  BY <1>5, <1>7, <1>8, <1>9, Zenon DEF IInv, Stamped

\* EncodeDone.
LEMMA EncodeDoneStep == ASSUME IInv, EncodeDone PROVE IInv'
<1>1. now' \in Nat /\ now' > now /\ now \in Nat
  BY TickForward, Zenon DEF IInv, TypeOK, EncodeDone, StampNow
<1>2. StampAt("ENCODE_E3SM_DONE", now') /\ slots' = slots
  BY Zenon DEF EncodeDone, StampNow
<1>3. now' \in Nat /\ now' <= now'
  BY <1>1 DEF EncodeDone
<1>4. "ENCODE_E3SM_DONE" \in Stages
  BY Zenon DEF Stages
<1>5. Stamped("ENCODE_E3SM_DONE", now') /\ NeverOverstated'
  BY <1>1, <1>2, <1>3, <1>4, OtherStamp, Zenon DEF EncodeDone
<1>6. TypeOK /\ SlotInv
  BY Zenon DEF IInv
<1>7. TypeOK'
  BY <1>1, <1>5, <1>6, Zenon DEF TypeOK, Stamped, Rec, EncodeDone
<1>8. FloorInv'
  BY <1>1, <1>5, <1>6, StampedFloor, Zenon
<1>9. SlotInv'
  BY <1>1, <1>2, <1>6, SlotsPast DEF SlotInv, EncodeDone
<1> QED
  BY <1>5, <1>7, <1>8, <1>9, Zenon DEF IInv, Stamped

\* EncodeFailed.
LEMMA EncodeFailedStep == ASSUME IInv, EncodeFailed PROVE IInv'
<1>1. now' \in Nat /\ now' > now /\ now \in Nat
  BY TickForward, Zenon DEF IInv, TypeOK, EncodeFailed, StampNow
<1>2. StampAt("SKIPPED", now') /\ slots' = slots
  BY Zenon DEF EncodeFailed, StampNow
<1>3. now' \in Nat /\ now' <= now'
  BY <1>1 DEF EncodeFailed
<1>4. "SKIPPED" \in Stages
  BY Zenon DEF Stages
<1>5. Stamped("SKIPPED", now') /\ NeverOverstated'
  BY <1>1, <1>2, <1>3, <1>4, OtherStamp, Zenon DEF EncodeFailed
<1>6. TypeOK /\ SlotInv
  BY Zenon DEF IInv
<1>7. TypeOK'
  BY <1>1, <1>5, <1>6, Zenon DEF TypeOK, Stamped, Rec, EncodeFailed
<1>8. FloorInv'
  BY <1>1, <1>5, <1>6, StampedFloor, Zenon
<1>9. SlotInv'
  BY <1>1, <1>2, <1>6, SlotsPast DEF SlotInv, EncodeFailed
<1> QED
  BY <1>5, <1>7, <1>8, <1>9, Zenon DEF IInv, Stamped

\* EmitTail.
LEMMA EmitTailStep == ASSUME IInv, EmitTail PROVE IInv'
<1>1. now' \in Nat /\ now' > now /\ now \in Nat
  BY TickForward, Zenon DEF IInv, TypeOK, EmitTail, StampNow
<1>2. StampAt("WAIT_ENTER", now') /\ slots' = slots
  BY Zenon DEF EmitTail, StampNow
<1>3. now' \in Nat /\ now' <= now'
  BY <1>1 DEF EmitTail
<1>4. "WAIT_ENTER" \in Stages
  BY Zenon DEF Stages
<1>5. Stamped("WAIT_ENTER", now') /\ NeverOverstated'
  BY <1>1, <1>2, <1>3, <1>4, OtherStamp, Zenon DEF EmitTail
<1>6. TypeOK /\ SlotInv
  BY Zenon DEF IInv
<1>7. TypeOK'
  BY <1>1, <1>5, <1>6, Zenon DEF TypeOK, Stamped, Rec, EmitTail
<1>8. FloorInv'
  BY <1>1, <1>5, <1>6, StampedFloor, Zenon
<1>9. SlotInv'
  BY <1>1, <1>2, <1>6, SlotsPast DEF SlotInv, EmitTail
<1> QED
  BY <1>5, <1>7, <1>8, <1>9, Zenon DEF IInv, Stamped

\* RecordBegin.
LEMMA RecordBeginStep == ASSUME IInv, RecordBegin PROVE IInv'
<1>1. now' \in Nat /\ now' > now /\ now \in Nat
  BY TickForward, Zenon DEF IInv, TypeOK, RecordBegin, StampNow
<1>2. StampAt("RECORD_BEGIN", slots[Len(slots)].gnb) /\ slots' = slots
  BY CurrentSlot, Zenon DEF RecordBegin, StampNow, publish_seq
<1>3. slots[Len(slots)].gnb \in Nat /\ slots[Len(slots)].gnb <= now'
  BY <1>1, CurrentSlot DEF RecordBegin
<1>4. "RECORD_BEGIN" \in Stages
  BY Zenon DEF Stages
<1>5. Stamped("RECORD_BEGIN", slots[Len(slots)].gnb) /\ NeverOverstated'
  BY <1>1, <1>2, <1>3, <1>4, OtherStamp, Zenon DEF RecordBegin
<1>6. TypeOK /\ SlotInv
  BY Zenon DEF IInv
<1>7. TypeOK'
  BY <1>1, <1>5, <1>6, Zenon DEF TypeOK, Stamped, Rec, RecordBegin
<1>8. FloorInv'
  BY <1>1, <1>5, <1>6, StampedFloor, Zenon
<1>9. SlotInv'
  <2> DEFINE r == [stage |-> "RECORD_BEGIN", seq |-> publish_seq,
                   t |-> Monotone(slots[Len(slots)].gnb)]
  <2>1. ring' = Append(ring, r) /\ tls_floor_ns' = r.t
    BY <1>2, Zenon DEF StampAt
  <2>2. r.t \in Nat /\ r.t >= slots[Len(slots)].gnb
    BY <1>3, <1>6 DEF Monotone, TypeOK
  <2>3. publish_seq = Len(slots) /\ Len(slots) \in Nat /\ Len(slots) > 0
    BY <1>6, CurrentSlot DEF RecordBegin, TypeOK, SlotInv
  <2>4. r \in Rec
    BY <2>2, <2>3, <1>4, Zenon DEF Rec
  <2>5. Len(ring') = Len(ring) + 1 /\ ring'[Len(ring) + 1] = r /\ Len(ring) \in Nat
    BY <1>6, <2>1, <2>4, AppendRec, Zenon DEF TypeOK, Rec
  <2>6. /\ Len(ring') > 0
        /\ ring'[Len(ring')].stage = "RECORD_BEGIN"
        /\ ring'[Len(ring')].seq = Len(slots')
        /\ ring'[Len(ring')].t = tls_floor_ns'
        /\ tls_floor_ns' >= slots'[Len(slots')].gnb
    BY <1>2, <2>1, <2>2, <2>3, <2>5
  <2>7. \A s \in DOMAIN slots' :
            slots'[s].gnb < slots'[s].codelet /\ slots'[s].codelet <= now'
    BY <1>1, <1>2, <1>6, SlotsPast
  <2> QED
    BY <1>2, <2>3, <2>6, <2>7, Zenon DEF SlotInv
<1> QED
  BY <1>5, <1>7, <1>8, <1>9, Zenon DEF IInv, Stamped

\* PROCESS_BEGIN follows the RECORD_BEGIN of its slot: whatever the floor did
\* to the two, their distance is at most the true one.
LEMMA ProcessBeginStep == ASSUME IInv, ProcessBegin PROVE IInv'
<1> DEFINE n == Len(slots)
           c == slots[n].codelet
           r == [stage |-> "PROCESS_BEGIN", seq |-> publish_seq,
                 t |-> Monotone(c)]
<1>1. now' \in Nat /\ now' > now /\ now \in Nat
  BY TickForward, Zenon DEF IInv, TypeOK, ProcessBegin
<1>2. StampAt("PROCESS_BEGIN", c) /\ slots' = slots
  BY CurrentSlot, Zenon DEF ProcessBegin, publish_seq
<1>3. /\ c \in Nat /\ c <= now' /\ slots[n].gnb \in Nat /\ slots[n].gnb < c
      /\ publish_seq = n /\ n \in DOMAIN slots
  BY <1>1, CurrentSlot DEF ProcessBegin
<1>4. "PROCESS_BEGIN" \in Stages
  BY Zenon DEF Stages
<1>5. /\ TypeOK /\ RingAscends /\ tls_floor_ns <= now /\ SlotInv /\ NeverOverstated
      /\ \A i \in DOMAIN ring : ring[i].t <= tls_floor_ns \/ ring[i].t < c
  BY Zenon DEF IInv, FloorInv, ProcessBegin
<1>6. Stamped("PROCESS_BEGIN", c)
  BY <1>1, <1>2, <1>3, <1>4, <1>5, StampStep, Zenon
<1>7. TypeOK'
  BY <1>1, <1>5, <1>6, Zenon DEF TypeOK, Stamped, Rec, ProcessBegin
<1>8. FloorInv'
  BY <1>1, <1>5, <1>6, StampedFloor, Zenon
<1>9. SlotInv'
  BY <1>1, <1>2, <1>5, SlotsPast DEF SlotInv, ProcessBegin
<1>10. NeverOverstated'
  <2>1. ring \in Seq(Rec) /\ tls_floor_ns \in Nat /\ n \in Nat
    BY <1>5 DEF TypeOK, Rec
  <2>2. Monotone(c) \in Nat
    BY <1>3, <2>1 DEF Monotone
  <2>3. r \in Rec
    BY <1>3, <1>4, <2>1, <2>2, Zenon DEF Rec
  <2>4. ring' = Append(ring, r)
    BY <1>2, Zenon DEF StampAt
  <2>5. SUFFICES ASSUME NEW j \in DOMAIN ring', ring'[j].stage = "PROCESS_BEGIN"
                 PROVE  /\ j > 1 /\ ring'[j-1].stage = "RECORD_BEGIN"
                        /\ ring'[j-1].seq = ring'[j].seq
                        /\ ring'[j].seq \in DOMAIN slots
                        /\ ring'[j-1].t >= slots[ring'[j].seq].gnb
                        /\ ring'[j].t >= slots[ring'[j].seq].codelet
                        /\ ring'[j].t - ring'[j-1].t <=
                             slots[ring'[j].seq].codelet - slots[ring'[j].seq].gnb
    BY <1>2, Zenon DEF NeverOverstated
  <2>6. CASE j \in DOMAIN ring
    <3>1. ring'[j] = ring[j]
      BY <2>1, <2>3, <2>4, <2>6, AppendRec, Zenon
    <3>2. j > 1 /\ j - 1 \in DOMAIN ring
      BY <1>5, <2>1, <2>3, <2>4, <2>5, <2>6, <3>1, AppendRec DEF NeverOverstated
    <3>3. ring'[j-1] = ring[j-1]
      BY <2>1, <2>3, <2>4, <3>2, AppendRec, Zenon
    <3> QED
      BY <1>5, <2>5, <2>6, <3>1, <3>2, <3>3, Zenon DEF NeverOverstated
  <2>7. CASE j = Len(ring) + 1
    <3>1. /\ Len(ring) > 0 /\ ring[Len(ring)].stage = "RECORD_BEGIN"
          /\ ring[Len(ring)].seq = n /\ ring[Len(ring)].t = tls_floor_ns
          /\ tls_floor_ns >= slots[n].gnb
      BY <1>5, Zenon DEF SlotInv, ProcessBegin
    <3>2. ring'[j] = r /\ j - 1 = Len(ring) /\ Len(ring) \in DOMAIN ring
      BY <2>1, <2>3, <2>4, <2>7, <3>1, AppendRec
    <3>3. ring'[j-1] = ring[Len(ring)]
      BY <2>1, <2>3, <2>4, <3>2, AppendRec, Zenon
    <3>4. Monotone(c) >= c /\ Monotone(c) - tls_floor_ns <= c - slots[n].gnb
      BY <1>3, <2>1, <3>1 DEF Monotone
    <3>5. r.seq = n /\ r.t = Monotone(c)
      BY <1>3, Zenon
    <3>6. j > 1
      BY <2>1, <2>7, <3>1
    <3> QED
      BY <1>3, <3>1, <3>2, <3>3, <3>4, <3>5, <3>6, Zenon
  <2> QED
    BY <2>1, <2>3, <2>4, <2>5, <2>6, <2>7, AppendRec, Zenon
<1> QED
  BY <1>6, <1>7, <1>8, <1>9, <1>10, Zenon DEF IInv, Stamped

\* libe3's record is not clamped, but the clock has moved past every record.
LEMMA LibEmitEnterStep == ASSUME IInv, LibEmitEnter PROVE IInv'
<1> DEFINE r == [stage |-> "EMIT_ENTER", seq |-> ctx, t |-> now']
<1>1. now' \in Nat /\ now' > now /\ now \in Nat
  BY TickForward, Zenon DEF IInv, TypeOK, LibEmitEnter
<1>2. TypeOK /\ FloorInv /\ RingAscends /\ SlotInv /\ NeverOverstated
  BY Zenon DEF IInv
<1>3. ring \in Seq(Rec) /\ ring' = Append(ring, r) /\ slots' = slots
  BY <1>2, Zenon DEF TypeOK, Rec, LibEmitEnter
<1>4. r \in Rec /\ r.stage # "PROCESS_BEGIN"
  BY <1>1, <1>2, Zenon DEF Rec, Stages, TypeOK
<1>5. \A i \in DOMAIN ring : ring[i].t < r.t
  <2>1. SUFFICES ASSUME NEW i \in DOMAIN ring PROVE ring[i].t < now'
    BY Zenon
  <2>2. ring[i] \in Rec
    BY <1>3, <2>1
  <2>3. ring[i].t \in Nat
    BY <2>2, Zenon DEF Rec
  <2> QED
    BY <1>1, <1>2, <2>1, <2>3 DEF FloorInv
<1>6. RingAscends'
  BY <1>2, <1>3, <1>4, <1>5, AscendsAppend, Zenon
<1>7. NeverOverstated'
  BY <1>2, <1>3, <1>4, TruthAppend, Zenon
<1>8. TypeOK'
  <2>1. ring' \in Seq(Rec)
    BY <1>3, <1>4, AppendRec, Zenon
  <2>2. emits' \in Nat
    BY <1>2 DEF TypeOK, LibEmitEnter
  <2>3. ring_role' \in {"none", kRingRole, "libe3.outbound"}
    BY <1>2, Zenon DEF TypeOK, LibEmitEnter
  <2> QED
    BY <1>1, <1>2, <2>1, <2>2, <2>3, Zenon DEF TypeOK, LibEmitEnter, Rec
<1>9. FloorInv'
  <2>1. tls_floor_ns' <= now' /\ pc' = "emit"
    BY <1>1, <1>2 DEF FloorInv, LibEmitEnter, TypeOK
  <2>2. SUFFICES ASSUME NEW i \in DOMAIN ring' PROVE ring'[i].t <= now'
    BY <2>1, Zenon DEF FloorInv
  <2>3. CASE i \in DOMAIN ring
    <3>1. ring'[i] = ring[i] /\ ring[i] \in Rec
      BY <1>3, <1>4, <2>3, AppendRec
    <3>2. ring[i].t \in Nat
      BY <3>1, Zenon DEF Rec
    <3> QED
      BY <1>1, <1>5, <2>3, <3>1, <3>2
  <2>4. CASE i = Len(ring) + 1
    <3>1. ring'[i] = r
      BY <1>3, <1>4, <2>4, AppendRec, Zenon
    <3> QED
      BY <1>1, <3>1
  <2> QED
    BY <1>3, <1>4, <2>2, <2>3, <2>4, AppendRec, Zenon
<1>10. SlotInv'
  BY <1>1, <1>2, <1>3, SlotsPast DEF SlotInv, LibEmitEnter
<1> QED
  BY <1>6, <1>7, <1>8, <1>9, <1>10, Zenon DEF IInv

\* Steps that write no record and begin no slot.
LEMMA QuietStep ==
    ASSUME IInv, OpenRing \/ BindLibe3 \/ Wait
    PROVE  IInv'
<1>1. now' \in Nat /\ now' > now /\ now \in Nat
  BY TickForward DEF IInv, TypeOK, OpenRing, BindLibe3, Wait
<1>2. /\ ring' = ring /\ slots' = slots /\ tls_floor_ns' = tls_floor_ns
      /\ g_clamped' = g_clamped /\ emits' = emits /\ workers' = workers
  BY Zenon DEF OpenRing, BindLibe3, Wait
<1>3. TypeOK /\ FloorInv /\ RingAscends /\ SlotInv /\ NeverOverstated
  BY Zenon DEF IInv
<1>4. RingAscends' /\ NeverOverstated'
  BY <1>2, <1>3, Zenon DEF RingAscends, NeverOverstated
<1>5. TypeOK'
  <2>1. ctx' \in Nat
    BY <1>3 DEF TypeOK, OpenRing, BindLibe3, Wait, publish_seq
  <2>2. ring_role' \in {"none", kRingRole, "libe3.outbound"}
    BY <1>3, Zenon DEF TypeOK, OpenRing, BindLibe3, Wait
  <2>3. pc' \in {"start", "idle", "record", "process", "encode", "encoding",
                 "bind", "emit"}
    BY <1>3, Zenon DEF TypeOK, OpenRing, BindLibe3, Wait
  <2> QED
    BY <1>1, <1>2, <1>3, <2>1, <2>2, <2>3, Zenon DEF TypeOK
<1>6. FloorInv'
  <2>1. \A i \in DOMAIN ring : ring[i].t \in Nat /\ ring[i].t <= now
    <3>1. SUFFICES ASSUME NEW i \in DOMAIN ring
                   PROVE  ring[i].t \in Nat /\ ring[i].t <= now
      BY Zenon
    <3>2. ring \in Seq(Rec)
      BY <1>3, Zenon DEF TypeOK, Rec
    <3>3. ring[i] \in Rec
      BY <3>1, <3>2
    <3> QED
      BY <1>3, <3>1, <3>3, Zenon DEF FloorInv, Rec
  <2>2. pc # "emit"  \/ pc' = pc
    BY Zenon DEF OpenRing, BindLibe3, Wait
  <2>3. tls_floor_ns \in Nat
    BY <1>3, Zenon DEF TypeOK
  <2> QED
    BY <1>1, <1>2, <1>3, <2>1, <2>2, <2>3 DEF FloorInv
<1>7. SlotInv'
  <2>1. pc' # "process" /\ (pc' \notin {"start", "idle"} => pc \notin {"start", "idle"})
    BY Zenon DEF OpenRing, BindLibe3, Wait
  <2>2. \A s \in DOMAIN slots' :
            slots'[s].gnb < slots'[s].codelet /\ slots'[s].codelet <= now'
    BY <1>1, <1>2, <1>3, SlotsPast
  <2> QED
    BY <1>2, <1>3, <2>1, <2>2, Zenon DEF SlotInv
<1> QED
  BY <1>4, <1>5, <1>6, <1>7, Zenon DEF IInv

\* A new slot carries times of the past.
LEMMA BeginSlotStep == ASSUME IInv, BeginSlot PROVE IInv'
<1>1. TypeOK /\ FloorInv /\ RingAscends /\ SlotInv /\ NeverOverstated
  BY Zenon DEF IInv
<1>2. PICK g \in (now - MaxAge)..now, c \in (now - MaxAge)..now :
          0 < g /\ g < c /\ slots' = Append(slots, [gnb |-> g, codelet |-> c])
  BY Zenon DEF BeginSlot
<1>3. g \in Nat /\ c \in Nat /\ g < c /\ c <= now /\ now \in Nat
  BY <1>1, <1>2, BoundsAssumption DEF TypeOK
<1> DEFINE x == [gnb |-> g, codelet |-> c]
<1>4. slots \in Seq(SlotTimes) /\ x \in SlotTimes
  BY <1>1, <1>3, Zenon DEF TypeOK, SlotTimes
<1>5. /\ slots' \in Seq(SlotTimes) /\ Len(slots') = Len(slots) + 1 /\ Len(slots) \in Nat
      /\ \A s \in DOMAIN slots : s \in DOMAIN slots' /\ slots'[s] = slots[s]
      /\ \A s \in DOMAIN slots' : s \in DOMAIN slots \/ s = Len(slots) + 1
      /\ slots'[Len(slots) + 1] = x
  BY <1>2, <1>4
<1>6. TypeOK'
  <2>1. emits' \in Nat
    BY BoundsAssumption DEF BeginSlot
  <2> QED
    BY <1>1, <1>5, <2>1, Zenon DEF TypeOK, BeginSlot, SlotTimes
<1>7. FloorInv' /\ RingAscends'
  BY <1>1, Zenon DEF FloorInv, RingAscends, BeginSlot
<1>8. SlotInv'
  <2>1. \A s \in DOMAIN slots' :
            slots'[s].gnb < slots'[s].codelet /\ slots'[s].codelet <= now
    BY <1>1, <1>3, <1>5 DEF SlotInv
  <2> QED
    BY <1>5, <2>1 DEF SlotInv, BeginSlot
<1>9. NeverOverstated'
  <2>1. ring' = ring
    BY Zenon DEF BeginSlot
  <2> QED
    BY <1>1, <1>5, <2>1, Zenon DEF NeverOverstated
<1> QED
  BY <1>6, <1>7, <1>8, <1>9, Zenon DEF IInv

\* A new worker starts with an empty ring.
LEMMA NewWorkerStep == ASSUME IInv, NewWorker PROVE IInv'
<1>1. now' \in Nat /\ now' > now /\ now \in Nat
  BY TickForward, Zenon DEF IInv, TypeOK, NewWorker
<1>2. TypeOK /\ SlotInv
  BY Zenon DEF IInv
<1>3. ring' = <<>> /\ DOMAIN ring' = {} /\ tls_floor_ns' = 0 /\ slots' = slots
  BY DEF NewWorker
<1>4. RingAscends' /\ NeverOverstated' /\ FloorInv'
  BY <1>1, <1>3 DEF RingAscends, NeverOverstated, FloorInv
<1>5. TypeOK'
  <2>1. ring' \in Seq([stage : Stages, seq : Nat, t : Nat])
    BY <1>3
  <2> QED
    BY <1>1, <1>2, <1>3, <2>1 DEF TypeOK, NewWorker
<1>6. SlotInv'
  BY <1>1, <1>2, <1>3, SlotsPast DEF SlotInv, NewWorker
<1> QED
  BY <1>4, <1>5, <1>6, Zenon DEF IInv

\* The invariant holds in every reachable state.
THEOREM Inductive == Spec => []IInv
<1>1. IInv /\ [Next]_vars => IInv'
  <2> SUFFICES ASSUME IInv, [Next]_vars PROVE IInv'
    BY Zenon
  <2>1. CASE UNCHANGED vars
    BY <2>1, Zenon
       DEF IInv, TypeOK, FloorInv, RingAscends, SlotInv, NeverOverstated, vars
  <2>2. CASE Next
    BY <2>2, QuietStep, BeginSlotStep, NewWorkerStep, RecordBeginStep,
       ProcessBeginStep, EncodeBeginStep, EncodeDoneStep, EncodeFailedStep,
       LibEmitEnterStep, EmitTailStep, Zenon
       DEF Next
  <2> QED
    BY <2>1, <2>2, Zenon
<1> QED
  BY InitIInv, <1>1, PTL DEF Spec

\* Every variable keeps its type.
THEOREM TraceTypeCorrect == Spec => []TypeOK
  BY Inductive, PTL DEF IInv

\* The times in a worker's ring strictly ascend, libe3's own records
\* included, for any number of slots, subscribers and sessions.
THEOREM RingAlwaysAscends == Spec => []RingAscends
  BY Inductive, PTL DEF IInv

\* Clamping never makes A1 longer than it was and never moves a stamp back.
THEOREM A1NeverOverstated == Spec => []NeverOverstated
  BY Inductive, PTL DEF IInv

-----------------------------------------------------------------------------
(* Whose records they are. *)

\* The ring is ours from open_ring() on and empty before; from the end of the
\* encoding until the emit tail its last record carries the key that libe3
\* will use.
AttributionInv ==
    /\ pc = "start" => ring = <<>> /\ ring_role = "none"
    /\ pc # "start" => ring_role = kRingRole
    /\ pc \in {"bind", "emit"} =>
         /\ Len(ring) > 0
         /\ ring[Len(ring)].stage \in {"ENCODE_E3SM_DONE", "EMIT_ENTER"}
         /\ ring[Len(ring)].seq = IF pc = "bind" THEN Len(slots) ELSE ctx
    /\ Attribution

\* No more slots are understated than stamps were clamped; between the two
\* stamps of a slot a clamped RECORD_BEGIN is one clamp ahead.
CountInv ==
    Cardinality(Understated)
        + (IF pc = "process" /\ tls_floor_ns > slots[Len(slots)].gnb THEN 1 ELSE 0)
    <= g_clamped

\* A record keeps the others where they belong; one of libe3's must carry the
\* key of the record before it.
LEMMA AttributionAppend ==
    ASSUME ring \in Seq(Rec), NEW r \in Rec, ring' = Append(ring, r),
           Attribution, ring_role' = kRingRole,
           r.stage = "EMIT_ENTER" =>
               /\ Len(ring) > 0
               /\ ring[Len(ring)].stage \in {"ENCODE_E3SM_DONE", "EMIT_ENTER"}
               /\ ring[Len(ring)].seq = r.seq
    PROVE  Attribution'
<1>1. SUFFICES ASSUME NEW j \in DOMAIN ring', ring'[j].stage = "EMIT_ENTER"
               PROVE  /\ j > 1
                      /\ ring'[j-1].stage \in {"ENCODE_E3SM_DONE", "EMIT_ENTER"}
                      /\ ring'[j-1].seq = ring'[j].seq
  BY Zenon DEF Attribution
<1>2. CASE j \in DOMAIN ring
  <2>1. ring'[j] = ring[j]
    BY <1>2, AppendRec, Zenon
  <2>2. /\ j > 1 /\ ring[j-1].stage \in {"ENCODE_E3SM_DONE", "EMIT_ENTER"}
        /\ ring[j-1].seq = ring[j].seq
    BY <1>1, <1>2, <2>1, Zenon DEF Attribution
  <2>3. ring'[j-1] = ring[j-1]
    <3>1. j - 1 \in DOMAIN ring
      BY <1>2, <2>2, AppendRec
    <3> QED
      BY <3>1, AppendRec, Zenon
  <2> QED
    BY <2>1, <2>2, <2>3, Zenon
<1>3. CASE j = Len(ring) + 1
  <2>1. ring'[j] = r
    BY <1>3, AppendRec, Zenon
  <2>2. j - 1 = Len(ring) /\ Len(ring) \in DOMAIN ring /\ j > 1
    BY <1>1, <1>3, <2>1, AppendRec
  <2>3. ring'[j-1] = ring[Len(ring)]
    BY <2>2, AppendRec, Zenon
  <2> QED
    BY <1>1, <2>1, <2>2, <2>3, Zenon
<1> QED
  BY <1>1, <1>2, <1>3, AppendRec, Zenon

\* A stamp of ours, at whatever time, is the last record and carries the
\* slot's own key.
LEMMA AttributionStamp ==
    ASSUME TypeOK, AttributionInv, NEW stage \in Stages, stage # "EMIT_ENTER",
           NEW t \in Nat, StampAt(stage, t), ring_role' = ring_role, pc # "start"
    PROVE  /\ Attribution' /\ ring_role' = kRingRole
           /\ Len(ring') > 0
           /\ ring'[Len(ring')].stage = stage
           /\ ring'[Len(ring')].seq = Len(slots)
<1> DEFINE r == [stage |-> stage, seq |-> publish_seq, t |-> Monotone(t)]
<1>1. r \in Rec
  <2>1. Monotone(t) \in Nat
    BY DEF TypeOK, Monotone
  <2>2. publish_seq \in Nat
    BY DEF TypeOK, publish_seq
  <2> QED
    BY <2>1, <2>2, Zenon DEF Rec
<1>2. ring \in Seq(Rec) /\ ring' = Append(ring, r)
  BY Zenon DEF TypeOK, Rec, StampAt
<1>3. Attribution /\ ring_role' = kRingRole
  BY Zenon DEF AttributionInv
<1>4. Attribution'
  BY <1>1, <1>2, <1>3, AttributionAppend, Zenon
<1>5. Len(ring') = Len(ring) + 1 /\ ring'[Len(ring) + 1] = r /\ Len(ring) \in Nat
  BY <1>1, <1>2, AppendRec, Zenon
<1> QED
  BY <1>3, <1>4, <1>5 DEF publish_seq

\* The time a stamp of ours is given is a time.
LEMMA StampTime ==
    ASSUME IInv
    PROVE  /\ RecordBegin => slots[publish_seq].gnb \in Nat
           /\ ProcessBegin => slots[publish_seq].codelet \in Nat
           /\ EncodeBegin \/ EncodeDone \/ EncodeFailed \/ EmitTail => now' \in Nat
<1>1. now \in Nat
  BY Zenon DEF IInv, TypeOK
<1>2. EncodeBegin \/ EncodeDone \/ EncodeFailed \/ EmitTail => Tick
  BY Zenon DEF EncodeBegin, EncodeDone, EncodeFailed, EmitTail, StampNow
<1> QED
  BY <1>1, <1>2, CurrentSlot, TickForward, Zenon DEF RecordBegin, ProcessBegin

\* The stamps of a slot.
LEMMA AttributionStamps ==
    ASSUME IInv, AttributionInv,
           \/ RecordBegin \/ ProcessBegin \/ EncodeBegin
           \/ EncodeDone \/ EncodeFailed \/ EmitTail
    PROVE  AttributionInv'
<1>1. TypeOK
  BY Zenon DEF IInv
<1>2. CASE RecordBegin
  BY <1>1, <1>2, StampTime, AttributionStamp, Zenon
     DEF RecordBegin, Stages, AttributionInv
<1>3. CASE ProcessBegin
  BY <1>1, <1>3, StampTime, AttributionStamp, Zenon
     DEF ProcessBegin, Stages, AttributionInv
<1>4. CASE EncodeBegin
  BY <1>1, <1>4, StampTime, AttributionStamp, Zenon
     DEF EncodeBegin, StampNow, Stages, AttributionInv
<1>5. CASE EncodeDone
  BY <1>1, <1>5, StampTime, AttributionStamp, Zenon
     DEF EncodeDone, StampNow, Stages, AttributionInv
<1>6. CASE EncodeFailed
  BY <1>1, <1>6, StampTime, AttributionStamp, Zenon
     DEF EncodeFailed, StampNow, Stages, AttributionInv
<1>7. CASE EmitTail
  BY <1>1, <1>7, StampTime, AttributionStamp, Zenon
     DEF EmitTail, StampNow, Stages, AttributionInv
<1> QED
  BY <1>2, <1>3, <1>4, <1>5, <1>6, <1>7, Zenon

\* libe3's record follows one with the same key.
LEMMA AttributionEmit == ASSUME IInv, AttributionInv, LibEmitEnter PROVE AttributionInv'
<1> DEFINE r == [stage |-> "EMIT_ENTER", seq |-> ctx, t |-> now']
<1>1. now' \in Nat /\ TypeOK
  BY TickForward, Zenon DEF IInv, TypeOK, LibEmitEnter
<1>2. r \in Rec /\ ring \in Seq(Rec) /\ ring' = Append(ring, r)
  BY <1>1, Zenon DEF Rec, Stages, TypeOK, LibEmitEnter
<1>3. /\ pc' = "emit" /\ ctx' = ctx /\ ring_role' = kRingRole
      /\ Len(ring) > 0
      /\ ring[Len(ring)].stage \in {"ENCODE_E3SM_DONE", "EMIT_ENTER"}
      /\ ring[Len(ring)].seq = ctx
  BY Zenon DEF AttributionInv, LibEmitEnter, kRingRole
<1>4. Attribution'
  <2>1. Attribution
    BY Zenon DEF AttributionInv
  <2> QED
    BY <1>2, <1>3, <2>1, AttributionAppend, Zenon
<1>5. Len(ring') = Len(ring) + 1 /\ ring'[Len(ring) + 1] = r /\ Len(ring) \in Nat
  BY <1>2, AppendRec, Zenon
<1> QED
  BY <1>3, <1>4, <1>5 DEF AttributionInv

\* Records belong to whom they claim.
THEOREM RecordsAreAttributed == Spec => []Attribution
<1>1. Init => AttributionInv
  BY DEF Init, AttributionInv, Attribution
<1>2. IInv /\ AttributionInv /\ [Next]_vars => AttributionInv'
  <2> SUFFICES ASSUME IInv, AttributionInv, [Next]_vars PROVE AttributionInv'
    BY Zenon
  <2>1. CASE OpenRing \/ BeginSlot \/ BindLibe3 \/ Wait
    BY <2>1, Zenon
       DEF AttributionInv, Attribution, OpenRing, BeginSlot, BindLibe3, Wait,
           kRingRole, publish_seq
  <2>2. CASE NewWorker
    BY <2>2 DEF AttributionInv, Attribution, NewWorker
  <2>3. CASE UNCHANGED vars
    BY <2>3, Zenon DEF AttributionInv, Attribution, vars
  <2> QED
    BY <2>1, <2>2, <2>3, AttributionStamps, AttributionEmit, Zenon DEF Next
<1> QED
  BY <1>1, <1>2, Inductive, PTL DEF Spec, AttributionInv

-----------------------------------------------------------------------------
(* Understated slots are counted. *)

\* Record j is a PROCESS_BEGIN too close to the record before it.
Short(j) ==
    /\ ring[j].stage = "PROCESS_BEGIN"
    /\ ring[j].t - ring[j-1].t < slots[ring[j].seq].codelet - slots[ring[j].seq].gnb

\* A slot is understated when one of its records is short.
LEMMA UnderstatedMember ==
    \A x : x \in Understated <=> \E j \in DOMAIN ring : Short(j) /\ x = ring[j].seq
  BY Zenon DEF Understated, Short

\* Understated slots are slots, so there are finitely many.
LEMMA UnderstatedFinite ==
    ASSUME IInv
    PROVE  IsFiniteSet(Understated) /\ Cardinality(Understated) \in Nat
<1>1. Len(slots) \in Nat /\ DOMAIN slots = 1..Len(slots)
  BY DEF IInv, TypeOK
<1>2. Understated \subseteq DOMAIN slots
  BY UnderstatedMember DEF IInv, NeverOverstated, Short
<1>3. IsFiniteSet(DOMAIN slots)
  BY <1>1, FS_Interval
<1>4. IsFiniteSet(Understated)
  BY <1>2, <1>3, FS_Subset, Zenon
<1> QED
  BY <1>4, FS_CardinalityType, Zenon

\* A record makes at most its own slot understated, and only if it is short.
LEMMA UnderstatedAppend ==
    ASSUME ring \in Seq(Rec), NEW r \in Rec, ring' = Append(ring, r),
           slots' = slots, NeverOverstated,
           r.stage = "PROCESS_BEGIN" => Len(ring) > 0
    PROVE  \A x \in Understated' :
              \/ x \in Understated
              \/ /\ x = r.seq /\ r.stage = "PROCESS_BEGIN"
                 /\ r.t - ring[Len(ring)].t < slots[r.seq].codelet - slots[r.seq].gnb
<1> SUFFICES ASSUME NEW x \in Understated', x \notin Understated
             PROVE  /\ x = r.seq /\ r.stage = "PROCESS_BEGIN"
                    /\ r.t - ring[Len(ring)].t
                         < slots[r.seq].codelet - slots[r.seq].gnb
  BY Zenon
<1>1. PICK j \in DOMAIN ring' : Short(j)' /\ x = ring'[j].seq
  <2>1. x \in Understated' <=> \E j \in DOMAIN ring' : Short(j)' /\ x = ring'[j].seq
    BY Zenon DEF Understated, Short
  <2> QED
    BY <2>1, Zenon
<1>2. /\ ring'[j].stage = "PROCESS_BEGIN"
      /\ ring'[j].t - ring'[j-1].t
           < slots[ring'[j].seq].codelet - slots[ring'[j].seq].gnb
  BY <1>1, Zenon DEF Short
<1>3. j \notin DOMAIN ring
  <2> SUFFICES ASSUME j \in DOMAIN ring PROVE FALSE
    BY Zenon
  <2>1. ring'[j] = ring[j]
    BY AppendRec, Zenon
  <2>2. j > 1
    BY <1>2, <2>1, Zenon DEF NeverOverstated
  <2>3. j - 1 \in DOMAIN ring
    BY <2>2, AppendRec
  <2>4. ring'[j-1] = ring[j-1]
    BY <2>3, AppendRec, Zenon
  <2>5. Short(j)
    BY <1>2, <2>1, <2>4, Zenon DEF Short
  <2> QED
    BY <1>1, <2>1, <2>5, UnderstatedMember, Zenon
<1>4. j = Len(ring) + 1 /\ ring'[j] = r
  BY <1>3, AppendRec, Zenon
<1>5. Len(ring) > 0 /\ Len(ring) \in DOMAIN ring /\ j - 1 = Len(ring)
  BY <1>2, <1>4, AppendRec
<1>6. ring'[j-1] = ring[Len(ring)]
  BY <1>5, AppendRec, Zenon
<1> QED
  BY <1>1, <1>2, <1>4, <1>6, Zenon

\* A step that makes no slot understated and does not lead to PROCESS_BEGIN.
LEMMA CountKept ==
    ASSUME IInv, IInv', CountInv, Understated' \subseteq Understated,
           g_clamped' >= g_clamped, pc' # "process"
    PROVE  CountInv'
<1>1. Cardinality(Understated') <= Cardinality(Understated)
  BY UnderstatedFinite, FS_Subset, Zenon
<1>2. Cardinality(Understated') \in Nat
  <2>1. IsFiniteSet(Understated')
    BY UnderstatedFinite, FS_Subset, Zenon
  <2> QED
    BY <2>1, FS_CardinalityType, Zenon
<1>3. Cardinality(Understated) \in Nat /\ g_clamped \in Nat /\ g_clamped' \in Nat
  BY UnderstatedFinite, Zenon DEF IInv, TypeOK
<1>4. Cardinality(Understated) <= g_clamped
  BY <1>3 DEF CountInv
<1> QED
  BY <1>1, <1>2, <1>3, <1>4 DEF CountInv

\* The record a stamp of ours appends.
LEMMA StampRecord ==
    ASSUME IInv, NEW stage \in Stages, NEW t \in Nat, StampAt(stage, t)
    PROVE  LET r == [stage |-> stage, seq |-> publish_seq, t |-> Monotone(t)]
           IN  /\ r \in Rec /\ ring \in Seq(Rec) /\ ring' = Append(ring, r)
               /\ g_clamped' \in Nat /\ g_clamped' >= g_clamped
<1>1. TypeOK
  BY Zenon DEF IInv
<1>2. Monotone(t) \in Nat
  BY <1>1 DEF TypeOK, Monotone
<1>3. publish_seq \in Nat
  BY <1>1 DEF TypeOK, publish_seq
<1> QED
  BY <1>1, <1>2, <1>3 DEF Rec, TypeOK, StampAt

\* The stamps after PROCESS_BEGIN.
LEMMA CountOtherStamps ==
    ASSUME IInv, IInv', CountInv,
           EncodeBegin \/ EncodeDone \/ EncodeFailed \/ EmitTail
    PROVE  CountInv'
<1>1. PICK stage \in Stages \ {"PROCESS_BEGIN"} : StampAt(stage, now')
  BY Zenon
     DEF EncodeBegin, EncodeDone, EncodeFailed, EmitTail, StampNow, Stages
<1>2. slots' = slots /\ pc' # "process"
  BY Zenon DEF EncodeBegin, EncodeDone, EncodeFailed, EmitTail
<1>3. NeverOverstated
  BY Zenon DEF IInv
<1>4. now' \in Nat
  BY StampTime, Zenon
<1>5. Understated' \subseteq Understated
  BY <1>1, <1>2, <1>3, <1>4, StampRecord, UnderstatedAppend, Zenon
<1>6. g_clamped' >= g_clamped
  BY <1>1, <1>4, StampRecord, Zenon
<1> QED
  BY <1>2, <1>5, <1>6, CountKept, Zenon

\* RECORD_BEGIN: what it is clamped by is counted before PROCESS_BEGIN comes.
LEMMA CountRecordBegin ==
    ASSUME IInv, IInv', CountInv, RecordBegin PROVE CountInv'
<1> DEFINE t == slots[publish_seq].gnb
           r == [stage |-> "RECORD_BEGIN", seq |-> publish_seq, t |-> Monotone(t)]
<1>1. t \in Nat /\ StampAt("RECORD_BEGIN", t) /\ slots' = slots
  BY StampTime, Zenon DEF RecordBegin
<1>2. r \in Rec /\ ring \in Seq(Rec) /\ ring' = Append(ring, r)
  BY <1>1, StampRecord, Zenon DEF Stages
<1>3. NeverOverstated /\ r.stage # "PROCESS_BEGIN"
  BY Zenon DEF IInv
<1>4. Understated' \subseteq Understated
  BY <1>1, <1>2, <1>3, UnderstatedAppend, Zenon
<1>5. /\ Cardinality(Understated') <= Cardinality(Understated)
      /\ Cardinality(Understated) \in Nat
      /\ IsFiniteSet(Understated')
  BY <1>4, UnderstatedFinite, FS_Subset, Zenon
<1>6. Cardinality(Understated') \in Nat
  BY <1>5, FS_CardinalityType, Zenon
<1>7. Cardinality(Understated) <= g_clamped /\ g_clamped \in Nat
  BY <1>5 DEF CountInv, RecordBegin, IInv, TypeOK
<1>8. /\ tls_floor_ns' = Monotone(t)
      /\ g_clamped' = g_clamped + (IF Monotone(t) = t THEN 0 ELSE 1)
      /\ slots'[Len(slots')].gnb = t
  BY <1>1, Zenon DEF StampAt, publish_seq
<1> QED
  BY <1>1, <1>5, <1>6, <1>7, <1>8 DEF CountInv

\* PROCESS_BEGIN: it is clamped only if RECORD_BEGIN was, so a slot becomes
\* understated only with a clamp of its own in hand.
LEMMA CountProcessBegin ==
    ASSUME IInv, IInv', CountInv, ProcessBegin PROVE CountInv'
<1> DEFINE n == Len(slots)
           c == slots[n].codelet
           g == slots[n].gnb
           r == [stage |-> "PROCESS_BEGIN", seq |-> publish_seq, t |-> Monotone(c)]
<1>1. /\ c \in Nat /\ g \in Nat /\ g < c /\ publish_seq = n
      /\ StampAt("PROCESS_BEGIN", c) /\ slots' = slots /\ pc = "process"
      /\ pc' # "process"
  BY CurrentSlot, Zenon DEF ProcessBegin
<1>2. /\ r \in Rec /\ ring \in Seq(Rec) /\ ring' = Append(ring, r)
      /\ g_clamped' \in Nat /\ g_clamped' >= g_clamped
  BY <1>1, StampRecord, Zenon DEF Stages
<1>3. /\ NeverOverstated /\ Len(ring) > 0 /\ tls_floor_ns \in Nat
      /\ ring[Len(ring)].t = tls_floor_ns /\ tls_floor_ns >= g
      /\ g_clamped \in Nat
  BY <1>1, Zenon DEF IInv, SlotInv, TypeOK
<1>4. \A x \in Understated' :
          x \in Understated \/ (x = n /\ Monotone(c) - tls_floor_ns < c - g)
  BY <1>1, <1>2, <1>3, UnderstatedAppend, Zenon
<1>5. CASE tls_floor_ns = g
  <2>1. Monotone(c) = c
    BY <1>1, <1>5 DEF Monotone
  <2>2. ~(Monotone(c) - tls_floor_ns < c - g)
    <3>1. ~(c - g < c - g)
      BY <1>1
    <3> QED
      BY <1>5, <2>1, <3>1, Zenon
  <2>3. Understated' \subseteq Understated
    BY <1>4, <2>2, Zenon
  <2> QED
    BY <1>1, <1>2, <2>3, CountKept, Zenon
<1>6. CASE tls_floor_ns > g
  <2>1. IsFiniteSet(Understated) /\ Cardinality(Understated) \in Nat
    BY UnderstatedFinite, Zenon
  <2>2. /\ IsFiniteSet(Understated \cup {n})
        /\ Cardinality(Understated \cup {n}) <= Cardinality(Understated) + 1
        /\ Cardinality(Understated \cup {n}) \in Nat
    <3>1. /\ IsFiniteSet(Understated \cup {n})
          /\ Cardinality(Understated \cup {n}) =
               IF n \in Understated THEN Cardinality(Understated)
               ELSE Cardinality(Understated) + 1
      BY <2>1, FS_AddElement, Zenon
    <3> QED
      BY <2>1, <3>1
  <2>3. Understated' \in SUBSET (Understated \cup {n})
    BY <1>4, Zenon
  <2>4. Cardinality(Understated') <= Cardinality(Understated \cup {n})
    BY <2>2, <2>3, FS_Subset, Zenon
  <2>5. Cardinality(Understated') \in Nat
    BY <2>2, <2>3, FS_Subset, FS_CardinalityType, Zenon
  <2>6. Cardinality(Understated) + 1 <= g_clamped
    BY <1>1, <1>6, <2>1, Zenon DEF CountInv
  <2> QED
    BY <1>1, <1>2, <1>3, <2>1, <2>2, <2>4, <2>5, <2>6 DEF CountInv
<1> QED
  BY <1>1, <1>3, <1>5, <1>6

\* No understated slot goes unreported.
THEOREM UnderstatedSlotsAreCounted == Spec => []UnderstatedIsCounted
<1>1. Init => CountInv
  <2> SUFFICES ASSUME Init PROVE CountInv
    BY Zenon
  <2>1. Understated = {}
    BY UnderstatedMember DEF Init
  <2> QED
    BY <2>1, FS_EmptySet DEF Init, CountInv
<1>2. IInv /\ IInv' /\ CountInv /\ [Next]_vars => CountInv'
  <2> SUFFICES ASSUME IInv, IInv', CountInv, [Next]_vars PROVE CountInv'
    BY Zenon
  <2>1. CASE OpenRing \/ BindLibe3 \/ Wait \/ LibEmitEnter
    <3>1. /\ slots' = slots /\ g_clamped' = g_clamped /\ pc' # "process"
          /\ g_clamped \in Nat
      BY <2>1, Zenon DEF OpenRing, BindLibe3, Wait, LibEmitEnter, IInv, TypeOK
    <3>2. Understated' \subseteq Understated
      <4>1. CASE LibEmitEnter
        <5> DEFINE r == [stage |-> "EMIT_ENTER", seq |-> ctx, t |-> now']
        <5>1. now' \in Nat /\ ctx \in Nat
          BY Zenon DEF IInv, TypeOK
        <5>2. r \in Rec /\ ring \in Seq(Rec) /\ ring' = Append(ring, r)
          BY <4>1, <5>1, Zenon DEF Rec, Stages, IInv, TypeOK, LibEmitEnter
        <5> QED
          BY <3>1, <5>2, UnderstatedAppend, Zenon DEF IInv
      <4>2. CASE ring' = ring
        BY <3>1, <4>2, Zenon DEF Understated
      <4> QED
        BY <2>1, <4>1, <4>2, Zenon DEF OpenRing, BindLibe3, Wait
    <3> QED
      BY <3>1, <3>2, CountKept
  <2>2. CASE BeginSlot
    <3>1. PICK s : slots' = Append(slots, s)
      BY <2>2, Zenon DEF BeginSlot
    <3>2. /\ ring' = ring /\ g_clamped' = g_clamped /\ pc' # "process"
          /\ g_clamped \in Nat /\ slots \in Seq(SlotTimes)
      BY <2>2, Zenon DEF BeginSlot, IInv, TypeOK, SlotTimes
    <3>3. \A i \in DOMAIN slots : slots'[i] = slots[i]
      BY <3>1, <3>2
    <3>4. \A j \in DOMAIN ring : ring[j].stage = "PROCESS_BEGIN" =>
              ring[j].seq \in DOMAIN slots
      BY Zenon DEF IInv, NeverOverstated
    <3>5. Understated' \subseteq Understated
      BY <3>2, <3>3, <3>4, Zenon DEF Understated
    <3> QED
      BY <3>2, <3>5, CountKept
  <2>3. CASE NewWorker
    <3>1. ring' = <<>> /\ g_clamped' = g_clamped /\ pc' # "process"
      BY <2>3, Zenon DEF NewWorker
    <3>2. Understated' \subseteq Understated
      BY <3>1 DEF Understated
    <3> QED
      BY <3>1, <3>2, CountKept DEF IInv, TypeOK
  <2>4. CASE UNCHANGED vars
    BY <2>4, Zenon DEF CountInv, Understated, vars
  <2> QED
    BY <2>1, <2>2, <2>3, <2>4, CountOtherStamps, CountRecordBegin,
       CountProcessBegin, Zenon
       DEF Next
<1>3. IInv /\ CountInv => UnderstatedIsCounted
  BY UnderstatedFinite DEF CountInv, UnderstatedIsCounted, IInv, TypeOK
<1> QED
  BY <1>1, <1>2, <1>3, Inductive, PTL DEF Spec

\* Every A1 of the ring is the true one.
A1Exact ==
    \A j \in DOMAIN ring : ring[j].stage = "PROCESS_BEGIN" =>
        ring[j].t - ring[j-1].t
            = slots[ring[j].seq].codelet - slots[ring[j].seq].gnb

\* The reading of clamped() that does hold: while it is zero, no A1 of the ring
\* is off by anything.
THEOREM UnclampedIsExact == Spec => [](g_clamped = 0 => A1Exact)
<1>1. ASSUME IInv, UnderstatedIsCounted, g_clamped = 0 PROVE A1Exact
  <2>1. Understated = {}
    <3>1. IsFiniteSet(Understated) /\ Cardinality(Understated) \in Nat
      BY <1>1, UnderstatedFinite, Zenon
    <3>2. Cardinality(Understated) = 0
      BY <1>1, <3>1 DEF UnderstatedIsCounted
    <3> QED
      BY <3>1, <3>2, FS_EmptySet, Zenon
  <2> SUFFICES ASSUME NEW j \in DOMAIN ring, ring[j].stage = "PROCESS_BEGIN"
               PROVE  ring[j].t - ring[j-1].t
                         = slots[ring[j].seq].codelet - slots[ring[j].seq].gnb
    BY Zenon DEF A1Exact
  <2>2. ~(ring[j].t - ring[j-1].t
             < slots[ring[j].seq].codelet - slots[ring[j].seq].gnb)
    BY <2>1, UnderstatedMember, Zenon DEF Short
  <2>3. /\ j > 1 /\ ring[j].seq \in DOMAIN slots
        /\ ring[j].t - ring[j-1].t
              <= slots[ring[j].seq].codelet - slots[ring[j].seq].gnb
    BY <1>1, Zenon DEF IInv, NeverOverstated
  <2>4. ring \in Seq(Rec) /\ slots \in Seq(SlotTimes)
    BY <1>1, Zenon DEF IInv, TypeOK, Rec, SlotTimes
  <2>5. j - 1 \in DOMAIN ring
    BY <2>3, <2>4
  <2>6. ring[j] \in Rec /\ ring[j-1] \in Rec /\ slots[ring[j].seq] \in SlotTimes
    BY <2>3, <2>4, <2>5
  <2> DEFINE a == ring[j].t
             b == ring[j-1].t
             c == slots[ring[j].seq].codelet
             g == slots[ring[j].seq].gnb
  <2>7. a \in Nat /\ b \in Nat /\ c \in Nat /\ g \in Nat
    BY <2>6, Zenon DEF Rec, SlotTimes
  <2>8. ~(a - b < c - g) /\ a - b <= c - g
    BY <2>2, <2>3, Zenon
  <2> HIDE DEF a, b, c, g
  <2>9. a - b = c - g
    BY <2>7, <2>8
  <2> QED
    BY <2>9, Zenon DEF a, b, c, g
<1> QED
  BY <1>1, Inductive, UnderstatedSlotsAreCounted, PTL

\* The clamps a slot may still cost.
Owed == IF pc = "record" THEN 2 ELSE IF pc = "process" THEN 1 ELSE 0

\* A slot is clamped at most twice, once in each of its back-dated stamps.
ClampsInv == g_clamped + Owed <= 2 * Len(slots)

\* A stamp that takes the time of the call is not clamped: the floor lies in the
\* past.
LEMMA NowIsNotClamped ==
    ASSUME IInv, EncodeBegin \/ EncodeDone \/ EncodeFailed \/ EmitTail
    PROVE  g_clamped' = g_clamped
<1>1. PICK stage \in Stages : StampAt(stage, now')
  BY Zenon
     DEF EncodeBegin, EncodeDone, EncodeFailed, EmitTail, StampNow, Stages
<1>2. Tick
  BY Zenon DEF EncodeBegin, EncodeDone, EncodeFailed, EmitTail, StampNow
<1>3. /\ now \in Nat /\ tls_floor_ns \in Nat /\ tls_floor_ns <= now
      /\ g_clamped \in Nat
  BY Zenon DEF IInv, TypeOK, FloorInv
<1>4. now' \in Nat /\ now' > now
  BY <1>2, <1>3, TickForward, Zenon
<1>5. Monotone(now') = now'
  BY <1>3, <1>4 DEF Monotone
<1>6. g_clamped' = g_clamped + 0
  BY <1>1, <1>5, Zenon DEF StampAt
<1> QED
  BY <1>3, <1>6

\* clamped() is at most twice the number of slots, over all sessions: with the
\* bound from below, it says how many slots may be understated, not how many are.
THEOREM ClampsAreBounded == Spec => []ClampsInv
<1>1. Init => ClampsInv
  BY DEF Init, ClampsInv, Owed
<1>2. ASSUME IInv, ClampsInv, [Next]_vars PROVE ClampsInv'
  <2> DEFINE n == Len(slots)
  <2>1. n \in Nat /\ g_clamped \in Nat /\ slots \in Seq(SlotTimes)
    <3>1. slots \in Seq(SlotTimes)
      BY <1>2, Zenon DEF IInv, TypeOK, SlotTimes
    <3> QED
      BY <1>2, <3>1 DEF IInv, TypeOK
  <2>2. g_clamped + Owed <= 2 * n
    BY <1>2, Zenon DEF ClampsInv
  <2>3. CASE BeginSlot
    <3>1. PICK s \in SlotTimes : slots' = Append(slots, s)
      <4>1. PICK g, c \in (now - MaxAge)..now :
              0 < g /\ g < c /\ slots' = Append(slots, [gnb |-> g, codelet |-> c])
        BY <2>3, Zenon DEF BeginSlot
      <4>2. now \in Nat /\ MaxAge \in Nat
        BY <1>2, BoundsAssumption, Zenon DEF IInv, TypeOK
      <4>3. g \in Nat /\ c \in Nat
        BY <4>1, <4>2
      <4> QED
        BY <4>1, <4>3, Zenon DEF SlotTimes
    <3>2. Len(slots') = n + 1
      BY <2>1, <3>1
    <3>3. Owed = 0 /\ Owed' = 2 /\ g_clamped' = g_clamped
      BY <2>3, Zenon DEF BeginSlot, Owed
    <3> HIDE DEF n
    <3>4. g_clamped' + Owed' <= 2 * (n + 1)
      BY <2>1, <2>2, <3>3
    <3> QED
      BY <3>2, <3>4, Zenon DEF ClampsInv
  <2>4. CASE RecordBegin \/ ProcessBegin
    <3>1. PICK t, stage : StampAt(stage, t)
      BY <2>4, Zenon DEF RecordBegin, ProcessBegin
    <3>2. g_clamped' \in {g_clamped + 0, g_clamped + 1} /\ slots' = slots
      BY <2>4, <3>1, Zenon DEF StampAt, RecordBegin, ProcessBegin
    <3>3. (Owed = 2 /\ Owed' = 1) \/ (Owed = 1 /\ Owed' = 0)
      BY <2>4, Zenon DEF RecordBegin, ProcessBegin, Owed
    <3> HIDE DEF n
    <3>4. g_clamped' + Owed' <= 2 * n
      BY <2>1, <2>2, <3>2, <3>3
    <3> QED
      BY <3>2, <3>4, Zenon DEF ClampsInv, n
  <2>5. CASE EncodeBegin \/ EncodeDone \/ EncodeFailed \/ EmitTail
    <3>1. g_clamped' = g_clamped /\ slots' = slots
      BY <1>2, <2>5, NowIsNotClamped, Zenon
         DEF EncodeBegin, EncodeDone, EncodeFailed, EmitTail
    <3>2. Owed' = 0 /\ Owed = 0
      BY <2>5, Zenon DEF EncodeBegin, EncodeDone, EncodeFailed, EmitTail, Owed
    <3> QED
      BY <2>2, <3>1, <3>2, Zenon DEF ClampsInv
  <2>6. CASE OpenRing \/ BindLibe3 \/ LibEmitEnter \/ Wait \/ NewWorker
    <3>1. g_clamped' = g_clamped /\ slots' = slots
      BY <2>6, Zenon DEF OpenRing, BindLibe3, LibEmitEnter, Wait, NewWorker
    <3>2. Owed' = 0 /\ Owed = 0
      BY <2>6, Zenon
         DEF OpenRing, BindLibe3, LibEmitEnter, Wait, NewWorker, Owed
    <3> QED
      BY <2>2, <3>1, <3>2, Zenon DEF ClampsInv
  <2>7. CASE UNCHANGED vars
    BY <1>2, <2>7, Zenon DEF vars, ClampsInv, Owed
  <2> QED
    BY <1>2, <2>3, <2>4, <2>5, <2>6, <2>7, Zenon DEF Next
<1> QED
  BY <1>1, <1>2, Inductive, PTL DEF Spec

-----------------------------------------------------------------------------
(* UplinkSlotCodelet: shm_cfg_sent_ can be relied on.  For every size of row,  *)
(* every grid, every ring and any number of regions, a slot that begins after  *)
(* the flag was set is published if it fits, in every session but those that   *)
(* began with a batch of an earlier one between its sends and the flag.        *)

-----------------------------------------------------------------------------
(* Its inductive invariant. *)

\* The steps of an invocation and of process_buffers().
CodeletSteps == {"idle", "select", "publish", "output"}
PollSteps == {"idle", "handler", "send_shm", "send_sel", "mark_sent"}

\* What a control input holds, what an invocation remembers, and what the
\* helper has mapped.
ShmInputs == {<<>>, <<[epoch |-> shm_epoch]>>}
SelInputs == {<<>>, <<E3_SLOT_SEL_VERSION>>}
Fires == [ready : BOOLEAN, published : Nat, region : Nat]
Mappings == {NotAttached} \cup [region : Nat \ {0}, epoch : {shm_epoch}]

\* Every variable holds what the code puts there.
UTypes ==
    /\ loaded \in BOOLEAN /\ running \in BOOLEAN /\ shm_cfg_sent \in BOOLEAN
    /\ shm_in \in ShmInputs /\ sel_in \in SelInputs
    /\ sel_state \in {0, E3_SLOT_SEL_VERSION}
    /\ codelet_pc \in CodeletSteps /\ fire \in Fires
    /\ poll_pc \in PollSteps /\ straddled \in BOOLEAN
    /\ region \in Nat \ {0} /\ attached \in Mappings
    /\ grid \in Nat /\ RowBytes \in Nat

\* Slots fire in a loaded codelet, and a pipeline that runs or is about to run
\* has loaded one.
USession ==
    /\ running \/ ctl_pc = "boot" => loaded
    /\ ctl_pc = "unload" => ~running
    /\ codelet_pc # "idle" => loaded

\* The helper has the region mapped, or finds its configuration on the next
\* slot; the same of the selector.
Mapped == attached # NotAttached \/ shm_in # <<>>
Selected == sel_state = E3_SLOT_SEL_VERSION \/ sel_in # <<>>

\* How far maybe_send_shm_cfg() has come, in a session that did not begin with
\* a batch of an earlier one half way through it.
USent ==
    running /\ ~straddled =>
        /\ shm_cfg_sent => Mapped /\ Selected
        /\ poll_pc = "send_sel" => Mapped
        /\ poll_pc = "mark_sent" => Mapped /\ Selected

\* How far the codelet has come with a slot that found the flag set: each input
\* is read before what it says is needed.
UReady ==
    fire.ready =>
        /\ codelet_pc = "select" => attached # NotAttached /\ Selected
        /\ codelet_pc = "publish" =>
              attached # NotAttached /\ sel_state = E3_SLOT_SEL_VERSION

\* What is published lies within the grid it is read from and within the row it
\* is written to.
PublishedFits == fire.published <= grid /\ fire.published <= RowBytes

UInv == UTypes /\ USession /\ USent /\ UReady /\ ReadyMeansPublished
                /\ PublishedFits

-----------------------------------------------------------------------------
(* The ladder. *)

\* A grid too small for every rung takes none; any other takes a rung that it
\* covers, and no larger one is covered.
LEMMA RungFits ==
    ASSUME NEW n \in Nat
    PROVE  /\ Rung(n) \in {0} \cup Ladder /\ Rung(n) <= n
           /\ \A b \in Ladder : b <= n => b <= Rung(n)
<1> DEFINE S == {0} \cup {b \in Ladder : b <= n}
<1>1. S \subseteq Nat
  BY DEF Ladder
<1>2. \E x \in S : \A y \in S : x >= y
  <2>1. CASE n < 366912
    BY <2>1 DEF Ladder
  <2>2. CASE 366912 <= n /\ n < 733824
    BY <2>2 DEF Ladder
  <2>3. CASE 733824 <= n /\ n < 1467648
    BY <2>3 DEF Ladder
  <2>4. CASE 1467648 <= n
    BY <2>4 DEF Ladder
  <2> QED
    BY <2>1, <2>2, <2>3, <2>4
<1>3. /\ Rung(n) \in S
      /\ \A y \in S : Rung(n) >= y
  BY <1>2, Zenon DEF Rung, Max
<1>4. \A b \in Ladder : b \in Nat
  BY DEF Ladder
<1> QED
  BY <1>1, <1>3, <1>4

-----------------------------------------------------------------------------
(* The steps. *)

\* The steps and the messages the actions name are steps and messages.
LEMMA Steps ==
    /\ {"idle", "select", "publish", "output"} \subseteq CodeletSteps
    /\ {"idle", "handler", "send_shm", "send_sel", "mark_sent"} \subseteq PollSteps
    /\ <<>> \in ShmInputs /\ <<[epoch |-> shm_epoch]>> \in ShmInputs
    /\ <<>> \in SelInputs /\ <<E3_SLOT_SEL_VERSION>> \in SelInputs
    /\ <<[epoch |-> shm_epoch]>> # <<>> /\ <<E3_SLOT_SEL_VERSION>> # <<>>
    /\ NoFire \in Fires /\ NoFire.published = 0 /\ ~NoFire.ready
  BY DEF CodeletSteps, PollSteps, ShmInputs, SelInputs, Fires, NoFire

\* Before the first load nothing is mapped, sent or running.
LEMMA UInitInv == CodeletInit => UInv
<1> SUFFICES ASSUME CodeletInit PROVE UInv
  OBVIOUS
<1>1. grid \in Nat /\ RowBytes \in Nat
  BY CodeletAssumption DEF CodeletInit
<1>2. UTypes
  <2>1. 1 \in Nat \ {0} /\ NotAttached \in Mappings
    BY DEF Mappings
  <2> QED
    BY <1>1, <2>1, Steps, Zenon DEF CodeletInit, UTypes
<1>3. USession /\ USent
  BY DEF CodeletInit, USession, USent
<1>4. UReady /\ ReadyMeansPublished /\ PublishedFits
  BY <1>1 DEF CodeletInit, NoFire, UReady, ReadyMeansPublished, PublishedFits
<1> QED
  BY <1>2, <1>3, <1>4, Zenon DEF UInv

\* What the codelet finds in a control input, and what the helper's mapping
\* says of itself.
LEMMA Messages ==
    ASSUME UTypes
    PROVE  /\ shm_in # <<>> => Head(shm_in) = [epoch |-> 1]
           /\ sel_in # <<>> => Head(sel_in) = 1
           /\ attached # NotAttached => attached.epoch = 1
           /\ NotAttached.epoch = 0
           /\ attached.region \in Nat
<1>1. shm_in \in {<<>>, <<[epoch |-> 1]>>} /\ sel_in \in {<<>>, <<1>>}
  BY Zenon DEF UTypes, ShmInputs, SelInputs, shm_epoch, E3_SLOT_SEL_VERSION
<1>2. attached \in {NotAttached} \cup [region : Nat \ {0}, epoch : {1}]
  BY Zenon DEF UTypes, Mappings, shm_epoch
<1>3. NotAttached.epoch = 0 /\ NotAttached.region = 0
  BY DEF NotAttached
<1> QED
  BY <1>1, <1>2, <1>3

\* A slot that finds the flag set is attached once its entry has read the
\* configuration.
LEMMA EnterInv == UInv /\ Enter => UInv'
<1> SUFFICES ASSUME UInv, Enter PROVE UInv'
  OBVIOUS
<1>1. UTypes
  BY Zenon DEF UInv
<1>2. /\ fire' = [ready |-> running /\ shm_cfg_sent /\ ~straddled,
                   published |-> 0, region |-> 0]
      /\ UNCHANGED <<loaded, running, ctl_pc, shm_cfg_sent, poll_pc, straddled,
                     sel_in, sel_state, region, grid>>
      /\ codelet_pc' = "select" /\ shm_in' = <<>> /\ loaded
  BY DEF Enter, NoFire, controllerVars
<1>3. /\ attached' \in Mappings
      /\ attached # NotAttached => attached' = attached
      /\ shm_in # <<>> => attached' # NotAttached
  <2>1. CASE shm_in = <<>>
    BY <1>1, <2>1, Zenon DEF Enter, UTypes
  <2>2. CASE shm_in # <<>> /\ attached # NotAttached
    <3>1. attached' = attached
      BY <1>1, <2>2, Messages DEF Enter, Attach
    <3> QED
      BY <1>1, <2>2, <3>1, Zenon DEF UTypes
  <2>3. CASE shm_in # <<>> /\ attached = NotAttached
    <3>1. attached' = [region |-> region, epoch |-> 1]
      BY <1>1, <2>3, Messages DEF Enter, Attach
    <3>2. region \in Nat \ {0} /\ shm_epoch = 1
      BY <1>1, Zenon DEF UTypes, shm_epoch
    <3> QED
      BY <2>3, <3>1, <3>2 DEF NotAttached, Mappings
  <2> QED
    BY <2>1, <2>2, <2>3, Zenon
<1>4. UTypes'
  <2>1. fire' \in Fires
    BY <1>1, <1>2 DEF UTypes, Fires
  <2> QED
    BY <1>1, <1>2, <1>3, <2>1, Steps, Zenon DEF UTypes
<1>5. USession'
  BY <1>2, Zenon DEF UInv, USession
<1>6. USent'
  BY <1>2, <1>3, Zenon DEF UInv, USent, Mapped, Selected
<1>7. UReady'
  <2>1. fire.ready' = (running /\ shm_cfg_sent /\ ~straddled)
    BY <1>2
  <2> QED
    BY <1>2, <1>3, <2>1, Zenon DEF UInv, USent, UReady, Mapped, Selected
<1>8. ReadyMeansPublished' /\ PublishedFits'
  BY <1>1, <1>2 DEF ReadyMeansPublished, PublishedFits, UTypes
<1> QED
  BY <1>4, <1>5, <1>6, <1>7, <1>8, Zenon DEF UInv

\* The selector is cached before the helper compares its version.
LEMMA SelectInv == UInv /\ Select => UInv'
<1> SUFFICES ASSUME UInv, Select PROVE UInv'
  OBVIOUS
<1>1. UTypes
  BY Zenon DEF UInv
<1>2. /\ UNCHANGED <<loaded, running, ctl_pc, shm_cfg_sent, poll_pc, straddled,
                     shm_in, attached, region, grid, fire>>
      /\ codelet_pc = "select" /\ codelet_pc' = "publish" /\ sel_in' = <<>>
  BY Zenon DEF Select, controllerVars
<1>3. /\ sel_state' \in {0, E3_SLOT_SEL_VERSION}
      /\ Selected => sel_state' = E3_SLOT_SEL_VERSION
  BY <1>1, Messages DEF Select, Selected, UTypes, E3_SLOT_SEL_VERSION
<1>4. UTypes'
  BY <1>1, <1>2, <1>3, Steps, Zenon DEF UTypes
<1>5. USession'
  BY <1>2, Zenon DEF UInv, USession
<1>6. USent' /\ UReady'
  BY <1>2, <1>3, Zenon DEF UInv, USent, UReady, Mapped, Selected
<1>7. ReadyMeansPublished' /\ PublishedFits'
  BY <1>2, Zenon DEF UInv, ReadyMeansPublished, PublishedFits
<1> QED
  BY <1>4, <1>5, <1>6, <1>7, Zenon DEF UInv

\* A slot that fits is refused only for want of a mapping or of a selector.
LEMMA PublishInv == UInv /\ Publish => UInv'
<1> DEFINE len == Rung(grid)
           ok == len # 0 /\ HelperAccepts(len)
<1> SUFFICES ASSUME UInv, Publish PROVE UInv'
  OBVIOUS
<1>1. UTypes
  BY Zenon DEF UInv
<1>2. /\ UNCHANGED <<loaded, running, ctl_pc, shm_cfg_sent, poll_pc, straddled,
                     shm_in, sel_in, sel_state, attached, region, grid>>
      /\ codelet_pc = "publish" /\ codelet_pc' = "output"
      /\ fire' = [fire EXCEPT !.published = IF ok THEN len ELSE 0,
                              !.region = IF ok THEN attached.region ELSE 0]
  BY Zenon DEF Publish, controllerVars, channelVars
<1>3. len \in Nat /\ len <= grid /\ grid \in Nat /\ RowBytes \in Nat
  BY <1>1, RungFits DEF UTypes, Ladder
<1>4. /\ fire' \in Fires
      /\ fire.ready' = fire.ready
      /\ fire.published' = IF ok THEN len ELSE 0
  <2>1. fire \in Fires
    BY <1>1, Zenon DEF UTypes
  <2>2. attached.region \in Nat
    BY <1>1, Messages, Zenon
  <2> HIDE DEF len, ok
  <2> QED
    BY <1>2, <1>3, <2>1, <2>2, Zenon DEF Fires
<1>5. UTypes'
  BY <1>1, <1>2, <1>4, Steps, Zenon DEF UTypes
<1>6. USession' /\ USent' /\ UReady'
  BY <1>2, Zenon DEF UInv, USession, USent, UReady, Mapped, Selected
<1>7. ReadyMeansPublished'
  <2> SUFFICES ASSUME fire.ready', Fits' PROVE fire.published' # 0
    BY Zenon DEF ReadyMeansPublished
  <2>1. len # 0 /\ len <= RowBytes
    BY <1>2, <1>3 DEF Fits
  <2>2. attached # NotAttached /\ sel_state = E3_SLOT_SEL_VERSION
    BY <1>2, <1>4, Zenon DEF UInv, UReady
  <2> QED
    BY <1>4, <2>1, <2>2, Zenon DEF HelperAccepts
<1>8. PublishedFits'
  BY <1>2, <1>3, <1>4 DEF PublishedFits, HelperAccepts
<1> QED
  BY <1>5, <1>6, <1>7, <1>8, Zenon DEF UInv

\* The descriptor ends the slot, sent or not.
LEMMA OutputInv == UInv /\ (Output \/ OutputFails) => UInv'
<1> SUFFICES ASSUME UInv, Output \/ OutputFails PROVE UInv'
  OBVIOUS
<1>1. UTypes
  BY Zenon DEF UInv
<1>2. /\ UNCHANGED <<loaded, running, ctl_pc, shm_cfg_sent, poll_pc, straddled,
                     shm_in, sel_in, sel_state, attached, region, grid>>
      /\ codelet_pc' = "idle" /\ fire' = NoFire
  BY Zenon DEF Output, OutputFails, controllerVars, channelVars
<1>3. NoFire.published = 0 /\ ~NoFire.ready
  BY Steps, Zenon
<1>4. UTypes'
  BY <1>1, <1>2, <1>3, Steps, Zenon DEF UTypes
<1>5. USession' /\ USent' /\ UReady' /\ ReadyMeansPublished'
  BY <1>2, <1>3, Zenon DEF UInv, USession, USent, UReady, Mapped, Selected,
                           ReadyMeansPublished
<1>6. PublishedFits'
  BY <1>1, <1>2, <1>3 DEF PublishedFits, UTypes
<1> QED
  BY <1>4, <1>5, <1>6, Zenon DEF UInv

\* The poll thread sets the flag only after both messages are in the control
\* inputs, where a slot in progress finds them or leaves them for the next.
LEMMA ControllerInv == UInv /\ Controller => UInv'
<1> SUFFICES ASSUME UInv, Controller PROVE UInv'
  OBVIOUS
<1>1. UTypes
  BY Zenon DEF UInv
<1>2. UNCHANGED <<loaded, running, ctl_pc, straddled, sel_state, codelet_pc, fire,
                  attached, region, grid>>
  BY Zenon DEF Controller, Poll, CfgCheck, SendShmCfg, SendSlotSel,
               SendFails, MarkSent, gnbVars
<1>3. PublishedFits' /\ ReadyMeansPublished'
  BY <1>2, Zenon DEF UInv, PublishedFits, ReadyMeansPublished, Fits
<1>4. <<[epoch |-> shm_epoch]>> # <<>> /\ <<E3_SLOT_SEL_VERSION>> # <<>>
  OBVIOUS
<1>5. UTypes' /\ USession' /\ USent'
  <2>1. CASE Poll \/ CfgCheck
    <3>1. UNCHANGED <<shm_cfg_sent, shm_in, sel_in>>
      BY <2>1, Zenon DEF Poll, CfgCheck, channelVars
    <3>2. poll_pc' \in {"idle", "handler", "send_shm"}
      BY <2>1 DEF Poll, CfgCheck
    <3>3. poll_pc' \in PollSteps /\ poll_pc' # "send_sel" /\ poll_pc' # "mark_sent"
      BY <3>2, Steps
    <3>4. UTypes'
      BY <1>1, <1>2, <3>1, <3>3, Zenon DEF UTypes
    <3>5. USession'
      BY <1>2, Zenon DEF UInv, USession
    <3> QED
      BY <1>2, <3>1, <3>3, <3>4, <3>5, Zenon DEF UInv, USent, Mapped, Selected
  <2>2. CASE SendShmCfg
    <3>1. UNCHANGED <<shm_cfg_sent, sel_in>>
      BY <2>2, Zenon DEF SendShmCfg
    <3>2. UTypes'
      BY <1>1, <1>2, <2>2, <3>1, Steps, Zenon DEF UTypes, SendShmCfg
    <3>3. USession'
      BY <1>2, <2>2, <3>1 DEF UInv, USession, SendShmCfg
    <3> QED
      BY <1>2, <1>4, <2>2, <3>1, <3>2, <3>3
         DEF UInv, USent, Mapped, Selected, SendShmCfg
  <2>3. CASE SendSlotSel
    <3>1. UNCHANGED <<shm_cfg_sent, shm_in>>
      BY <2>3, Zenon DEF SendSlotSel
    <3>2. UTypes'
      BY <1>1, <1>2, <2>3, <3>1, Steps, Zenon DEF UTypes, SendSlotSel
    <3>3. USession'
      BY <1>2, <2>3, <3>1 DEF UInv, USession, SendSlotSel
    <3> QED
      BY <1>2, <1>4, <2>3, <3>1, <3>2, <3>3
         DEF UInv, USent, Mapped, Selected, SendSlotSel
  <2>4. CASE SendFails \/ MarkSent
    <3>1. UNCHANGED <<shm_in, sel_in>>
      BY <2>4, Zenon DEF SendFails, MarkSent, channelVars
    <3>2. UTypes'
      BY <1>1, <1>2, <2>4, <3>1, Steps, Zenon DEF UTypes, SendFails, MarkSent
    <3>3. USession'
      BY <1>2, <2>4, <3>1 DEF UInv, USession, SendFails, MarkSent
    <3> QED
      BY <1>2, <2>4, <3>1, <3>2, <3>3
         DEF UInv, USent, Mapped, Selected, SendFails, MarkSent
  <2> QED
    BY <2>1, <2>2, <2>3, <2>4, Zenon DEF Controller
<1>6. UReady'
  BY <1>2, <1>4, Zenon
     DEF UInv, UReady, Selected, Controller, Poll, CfgCheck, SendShmCfg,
         SendSlotSel, SendFails, MarkSent, channelVars
<1> QED
  BY <1>3, <1>5, <1>6, Zenon DEF UInv

\* A load empties the inputs and the cached selector while the pipeline does not
\* run, start() clears the flag before the load can be relied on, and a batch
\* that would set it for the sends of an earlier session is noticed there.
LEMMA LifecycleInv == UInv /\ Lifecycle => UInv'
<1> SUFFICES ASSUME UInv, Lifecycle PROVE UInv'
  OBVIOUS
<1>1. UTypes
  BY Zenon DEF UInv
<1>2. UNCHANGED <<codelet_pc, fire, attached, poll_pc, grid>>
  BY Zenon DEF Lifecycle, Load, Start, Unregister, Unload, UnloadFails, Restart,
               gnbVars
<1>3. PublishedFits' /\ ReadyMeansPublished'
  BY <1>2, Zenon DEF UInv, PublishedFits, ReadyMeansPublished, Fits
<1>4. region' \in Nat \ {0}
  BY <1>1 DEF UTypes, Lifecycle, Load, Start, Unregister, Unload, UnloadFails,
              Restart
<1>5. UTypes' /\ USession' /\ USent'
  <2>1. CASE Load
    <3>1. UNCHANGED <<running, shm_cfg_sent, straddled>> /\ ~running'
      BY <2>1, Zenon DEF Load
    <3>2. UTypes'
      BY <1>1, <1>2, <1>4, <2>1, <3>1, Steps, Zenon DEF UTypes, Load
    <3> QED
      BY <2>1, <3>1, <3>2, Zenon DEF USession, USent, Load
  <2>2. CASE Start
    <3>1. UNCHANGED <<loaded, shm_in, sel_in, sel_state>>
      BY <2>2, Zenon DEF Start, channelVars, gnbVars
    <3>2. straddled' \in BOOLEAN /\ shm_cfg_sent' = FALSE /\ running' = TRUE
      BY <2>2 DEF Start
    <3>3. UTypes'
      BY <1>1, <1>2, <1>4, <3>1, <3>2, Zenon DEF UTypes
    <3>4. USession'
      BY <1>2, <2>2, <3>1 DEF UInv, USession, Start
    <3>5. straddled' \/ (poll_pc' # "send_sel" /\ poll_pc' # "mark_sent")
      BY <1>2, <2>2, Zenon DEF Start
    <3> QED
      BY <3>2, <3>3, <3>4, <3>5, Zenon DEF USent
  <2>3. CASE Unregister \/ Unload \/ UnloadFails
    <3>1. UNCHANGED <<shm_cfg_sent, sel_state, straddled>>
      BY <2>3, Zenon DEF Unregister, Unload, UnloadFails, gnbVars
    <3>2. loaded' \in BOOLEAN /\ shm_in' \in ShmInputs /\ sel_in' \in SelInputs
      BY <1>1, <2>3, Steps, Zenon
         DEF UTypes, Unregister, Unload, UnloadFails, channelVars
    <3>3. ~running'
      BY <2>3 DEF UInv, USession, Unregister, Unload, UnloadFails
    <3>4. UTypes'
      <4>1. running' \in BOOLEAN
        BY <1>1, <2>3, Zenon DEF UTypes, Unregister, Unload, UnloadFails
      <4> QED
        BY <1>1, <1>2, <1>4, <3>1, <3>2, <4>1, Zenon DEF UTypes
    <3>5. ctl_pc' # "boot"
      BY <2>3 DEF Unregister, Unload, UnloadFails
    <3>6. codelet_pc' # "idle" => loaded'
      BY <1>2, <2>3, Zenon DEF UInv, USession, Unregister, Unload, UnloadFails
    <3> QED
      BY <3>3, <3>4, <3>5, <3>6, Zenon DEF USession, USent
  <2>4. CASE Restart
    <3>1. UNCHANGED <<loaded, running, ctl_pc, straddled, shm_in, sel_in,
                      sel_state>>
      BY <2>4, Zenon DEF Restart, channelVars, gnbVars
    <3>2. UTypes'
      BY <1>1, <1>2, <1>4, <2>4, <3>1, Zenon DEF UTypes, Restart
    <3>3. ~running' /\ ctl_pc' # "boot" /\ ctl_pc' # "unload"
      BY <2>4, <3>1 DEF Restart
    <3> QED
      BY <1>2, <3>1, <3>2, <3>3, Zenon DEF UInv, USession, USent
  <2> QED
    BY <2>1, <2>2, <2>3, <2>4, Zenon DEF Lifecycle
<1>6. UReady'
  BY <1>2, Zenon DEF UInv, UReady, Selected, Lifecycle, Load, Start, Unregister,
                     Unload, UnloadFails, Restart, gnbVars, channelVars
<1> QED
  BY <1>3, <1>5, <1>6, Zenon DEF UInv

-----------------------------------------------------------------------------
(* Results. *)

\* The invariant holds of every state: it is inductive.
THEOREM CodeletInductive == CodeletSpec => []UInv
<1>1. ASSUME UInv, [CodeletNext]_codeletVars PROVE UInv'
  <2>1. CASE CodeletNext
    BY <1>1, <2>1, EnterInv, SelectInv, PublishInv, OutputInv, ControllerInv,
       LifecycleInv, Zenon DEF CodeletNext, Codelet
  <2>2. CASE UNCHANGED codeletVars
    <3>1. UNCHANGED <<loaded, running, ctl_pc, shm_cfg_sent, shm_in, sel_in,
                      sel_state, codelet_pc, fire, poll_pc, straddled, region,
                      attached, grid>>
      BY <2>2, Zenon DEF codeletVars, gnbVars, controllerVars, channelVars
    <3>2. UTypes'
      BY <1>1, <3>1, Zenon DEF UInv, UTypes
    <3>3. USession' /\ USent' /\ UReady'
      BY <1>1, <3>1, Zenon DEF UInv, USession, USent, UReady, Mapped, Selected
    <3>4. ReadyMeansPublished' /\ PublishedFits'
      BY <1>1, <3>1, Zenon DEF UInv, ReadyMeansPublished, Fits, PublishedFits
    <3> QED
      BY <3>2, <3>3, <3>4, Zenon DEF UInv
  <2> QED
    BY <1>1, <2>1, <2>2, Zenon
<1> QED
  BY <1>1, UInitInv, PTL DEF CodeletSpec

\* The inputs, the maps and the mapping hold what the code puts there.
THEOREM CodeletTypes == CodeletSpec => []UTypes
<1>1. UInv => UTypes
  BY Zenon DEF UInv
<1> QED
  BY <1>1, CodeletInductive, PTL

\* A slot whose codelet run begins after shm_cfg_sent_ was set in a running
\* session is published if it fits, for every row, grid and ring, however often
\* codelet and controller are restarted, whichever unloads fail and wherever
\* stop() finds a batch; excepted is a session whose start() met a batch between
\* its sends and the flag.
THEOREM TheFlagCanBeReliedOn == CodeletSpec => []ReadyMeansPublished
<1>1. UInv => ReadyMeansPublished
  BY Zenon DEF UInv
<1> QED
  BY <1>1, CodeletInductive, PTL

\* The rung published is never larger than the grid it is copied from nor than
\* the row it is copied to.
THEOREM TheRungFits == CodeletSpec => []PublishedFits
<1>1. UInv => PublishedFits
  BY Zenon DEF UInv
<1> QED
  BY <1>1, CodeletInductive, PTL

\* What the codelet says of a slot, in its invocation and in the descriptors
\* that wait to be polled: nothing was published, or the rung of the gNB's grid
\* was.  The output map holds no more descriptors than it has room for.
RungOrNothing == {0, Rung(grid)}
RungInv ==
    /\ fire.published \in RungOrNothing
    /\ output_map \in Seq(RungOrNothing)
    /\ Len(output_map) <= RingSize

\* The grid, and with it the rung, is the gNB's for good.
LEMMA GridStays ==
    ASSUME [CodeletNext]_codeletVars
    PROVE  grid' = grid /\ RungOrNothing' = RungOrNothing
<1>1. grid' = grid
  BY Zenon DEF CodeletNext, Codelet, Enter, Select, Publish, Output, OutputFails,
        Controller, Poll, CfgCheck, SendShmCfg, SendSlotSel, SendFails, MarkSent,
        Lifecycle, Load, Start, Unregister, Unload, UnloadFails, Restart,
        codeletVars
<1> QED
  BY <1>1, Zenon DEF RungOrNothing

\* Whatever the order of slots, batches, reloads and restarts, a descriptor that
\* reaches the controller stands for one whole rung or for nothing.
THEOREM DescriptorsAreRungs == CodeletSpec => []RungInv
<1>1. CodeletInit => RungInv
  BY CodeletAssumption DEF CodeletInit, NoFire, RungInv, RungOrNothing
<1>2. ASSUME UInv, RungInv, [CodeletNext]_codeletVars PROVE RungInv'
  <2> DEFINE S == RungOrNothing
  <2>1. S' = S /\ RungInv /\ RingSize \in Nat \ {0}
    BY <1>2, GridStays, CodeletAssumption, Zenon
  <2>2. /\ 0 \in S /\ Rung(grid) \in S /\ fire.published \in S
        /\ output_map \in Seq(S) /\ Len(output_map) <= RingSize
    BY <2>1, Zenon DEF RungInv, RungOrNothing
  <2>3. fire \in Fires /\ NoFire.published = 0
    BY <1>2, Steps, Zenon DEF UInv, UTypes
  <2> HIDE DEF S
  <2>4. /\ <<>> \in Seq(S) /\ Len(<<>>) <= RingSize
    BY <2>1
  <2>5. fire.published' \in S
    <3>1. CASE Enter
      <4>1. fire'.published = 0
        BY <3>1 DEF Enter, NoFire
      <4> QED
        BY <2>2, <4>1, Zenon
    <3>2. CASE Publish
      <4> DEFINE w == IF Rung(grid) # 0 /\ HelperAccepts(Rung(grid))
                      THEN Rung(grid) ELSE 0
                 r == IF Rung(grid) # 0 /\ HelperAccepts(Rung(grid))
                      THEN attached.region ELSE 0
      <4>1. fire' = [fire EXCEPT !.published = w, !.region = r] /\ w \in S
        BY <2>2, <3>2, Zenon DEF Publish
      <4> HIDE DEF w, r
      <4>2. fire.published' = w
        BY <2>3, <4>1, Zenon DEF Fires
      <4> QED
        BY <4>1, <4>2, Zenon
    <3>3. CASE Output \/ OutputFails
      BY <2>2, <2>3, <3>3, Zenon DEF Output, OutputFails
    <3>4. CASE fire' = fire
      BY <2>2, <3>4, Zenon
    <3> QED
      BY <1>2, <3>1, <3>2, <3>3, <3>4, Zenon
         DEF CodeletNext, Codelet, Select, Controller, Poll, CfgCheck, SendShmCfg,
             SendSlotSel, SendFails, MarkSent, Lifecycle, Load, Start, Unregister,
             Unload, UnloadFails, Restart, codeletVars, gnbVars
  <2>6. output_map' \in Seq(S) /\ Len(output_map') <= RingSize
    <3>1. CASE output_map' = output_map
      BY <2>2, <3>1, Zenon
    <3>2. CASE output_map' = <<>>
      BY <2>4, <3>2, Zenon
    <3>3. CASE Output
      <4>1. /\ Len(output_map) < RingSize
            /\ output_map' = Append(output_map, fire.published)
        BY <3>3, Zenon DEF Output
      <4> DEFINE p == fire.published
      <4>2. p \in S
        BY <2>2, Zenon
      <4> HIDE DEF p
      <4>3. /\ Append(output_map, p) \in Seq(S)
            /\ Len(Append(output_map, p)) <= RingSize
        BY <2>1, <2>2, <4>1, <4>2
      <4> QED
        BY <4>1, <4>3, Zenon DEF p
    <3> QED
      BY <1>2, <3>1, <3>2, <3>3, Zenon
         DEF CodeletNext, Codelet, Enter, Select, Publish, OutputFails, Controller,
             Poll, CfgCheck, SendShmCfg, SendSlotSel, SendFails, MarkSent,
             Lifecycle, Load, Start, Unregister, Unload, UnloadFails, Restart,
             codeletVars, channelVars
  <2> QED
    BY <2>1, <2>5, <2>6, Zenon DEF RungInv, S
<1> QED
  BY <1>1, <1>2, CodeletInductive, PTL DEF CodeletSpec

\* When "never publish a prefix" (uplink_slot_collect.c:190) is true: of a gNB
\* whose grid is one of the three sizes of the ladder, what is published is the
\* whole grid or nothing.
THEOREM ARungIsNoPrefix == CodeletSpec => [](grid \in Ladder => NeverAPrefix)
<1>1. ASSUME UInv, RungInv, grid \in Ladder PROVE NeverAPrefix
  <2>1. grid \in Nat
    BY <1>1, Zenon DEF UInv, UTypes
  <2>2. Rung(grid) \in Nat /\ Rung(grid) <= grid /\ grid <= Rung(grid)
    BY <1>1, <2>1, RungFits DEF Ladder
  <2>3. Rung(grid) = grid
    BY <2>1, <2>2
  <2> QED
    BY <1>1, <2>3, Zenon DEF RungInv, RungOrNothing, NeverAPrefix
<1> QED
  BY <1>1, CodeletInductive, DescriptorsAreRungs, PTL
=============================================================================
