------------------------ MODULE SlotIqPipelineProofs -------------------------
(***************************************************************************)
(* Proofs about SlotIqPipeline, in four parts:                             *)
(*   - the ring's indices, the inductive invariant, that every step keeps  *)
(*     it, and the refinement of the ownership contract;                   *)
(*   - what stop() leaves behind and which codelet the configuration       *)
(*     reached, when no batch in flight outlived its stream;               *)
(*   - that start() and stop() implement the session contract;             *)
(*   - that every step of a stop() brings its return nearer.               *)
(***************************************************************************)
EXTENDS SlotIqPipeline, TLAPS

-----------------------------------------------------------------------------
(* The ring's indices: head & (QUEUE_CAPACITY - 1). *)

\* A positive multiple of the capacity is at least the capacity.
LEMMA MulAtLeast ==
    ASSUME NEW C \in Nat \ {0}, NEW k \in Int, k >= 1
    PROVE  C * k >= C
  OBVIOUS

\* Two cursors less than a capacity apart name different places of the ring.
LEMMA IdxDistinct ==
    ASSUME NEW i \in Nat, NEW j \in Nat, i < j, j < i + QUEUE_CAPACITY
    PROVE  Idx(i) # Idx(j)
<1> DEFINE C == QUEUE_CAPACITY
           a == i \div C
           b == j \div C
<1>0. C \in Nat \ {0}
  BY CapacityAssumption, Zenon
<1> HIDE DEF C
<1>1. /\ a \in Nat /\ b \in Nat
      /\ i % C \in Int /\ j % C \in Int
      /\ i = C * a + (i % C)
      /\ j = C * b + (j % C)
  BY <1>0
<1> HIDE DEF a, b
<1>2. SUFFICES ASSUME i % C = j % C PROVE FALSE
  BY Zenon DEF Idx, C
<1>3. j - i = C * (b - a)
  BY <1>0, <1>1, <1>2
<1>4. CASE b - a >= 1
  BY <1>0, <1>1, <1>3, <1>4, MulAtLeast DEF C
<1>5. CASE b - a <= 0
  <2>1. C * (b - a) <= 0
    BY <1>0, <1>1, <1>5
  <2> QED
    BY <1>3, <2>1
<1> QED
  BY <1>1, <1>4, <1>5

\* An index is one of the ring's.
LEMMA IdxRange ==
    ASSUME NEW i \in Nat
    PROVE  Idx(i) \in 0..QUEUE_CAPACITY-1
  BY CapacityAssumption DEF Idx

-----------------------------------------------------------------------------
(* The inductive invariant. *)

\* The cursors: the queue never holds more than its capacity, the worker is
\* past its emptiness check only with an entry to read, the poll thread
\* publishes only into a free place, and stop()'s drain stays between tail
\* and head.
CursorInv ==
    /\ queue_tail <= queue_head
    /\ queue_head - queue_tail <= QUEUE_CAPACITY
    /\ poll_pc \in {"write", "publish"} =>
          queue_head - queue_tail < QUEUE_CAPACITY
    /\ worker_pc \in {"dispatch", "release", "advance"} =>
          queue_tail < queue_head
    /\ total_samples_received =
          IF poll_pc = "publish" THEN queue_head + 1 ELSE queue_head
    /\ ctl_pc = "drain" =>
          /\ queue_tail <= drain_tail
          /\ drain_tail <= drain_head
          /\ drain_head <= queue_head

\* The threads: only one of worker and drain is at the queue.
ThreadInv ==
    /\ ctl_pc \in {"load", "boot", "drain", "unload"} =>
          worker_pc = "none" /\ ~running
    /\ ctl_pc = "idle" /\ ~running => worker_pc = "none"
    /\ ctl_pc \in {"register", "sm_up", "unregister", "signal"} => running
    /\ ctl_pc = "join" => ~running
    /\ poll_pc \in {"lookup", "discard"} \/ InHandler => bufs # <<>>

\* The entries written and not yet retired.
Written == queue_tail..(IF poll_pc = "publish" THEN queue_head
                                               ELSE queue_head - 1)

\* Entry i carries the i+1-st buffer taken.
EntryInv ==
    \A i \in Written : Entry(i) \in QueueEntry /\ Entry(i).sample_id = i + 1

\* The last buffer shown is not ahead of the one being released.
ShownInv ==
    /\ worker_pc \in {"release", "advance"} => last_sample = queue_tail + 1
    /\ worker_pc \notin {"release", "advance"} => last_sample <= queue_tail

IInv == TypeOK /\ CursorInv /\ ThreadInv /\ EntryInv /\ ShownInv

-----------------------------------------------------------------------------
(* Type correctness of each step. *)

\* The constructor leaves a state that satisfies the invariant.
LEMMA InitIInv == Init => IInv
<1> SUFFICES ASSUME Init PROVE IInv
  BY Zenon
<1>1. DispatcherTypeOK
  <2>1. free_bufs \subseteq Buffers
    BY Zenon DEF Init, DispatcherInit
  <2>2. channel_up \in BOOLEAN /\ registered \in BOOLEAN
    BY ConfigAssumption, Zenon DEF Init, DispatcherInit
  <2> QED
    BY <2>1, <2>2, BoundsAssumption DEF Init, DispatcherInit, DispatcherTypeOK
<1>2. TypeOK
  <2>1. /\ running \in BOOLEAN /\ codelets_loaded \in BOOLEAN
        /\ shm_cfg_sent \in BOOLEAN /\ sm_running \in BOOLEAN
        /\ straddled \in BOOLEAN
    BY Zenon DEF Init
  <2> QED
    BY <1>1, <2>1, Zenon DEF Init, TypeOK
<1>3. CursorInv /\ ThreadInv /\ EntryInv /\ ShownInv
  BY CapacityAssumption
  DEF Init, DispatcherInit, CursorInv, ThreadInv, EntryInv, ShownInv,
      Written, InHandler
<1> QED
  BY <1>2, <1>3, Zenon DEF IInv

\* The entry the worker or the drain is at holds a pointer.
LEMMA EntryPointer ==
    ASSUME IInv, NEW i \in Nat, queue_tail <= i, i < queue_head
    PROVE  Entry(i) \in QueueEntry /\ Entry(i).sample_id = i + 1
           /\ Entry(i).buf \in Pointer
<1>1. i \in Written
  BY DEF Written, IInv, TypeOK
<1> QED
  BY <1>1, Zenon DEF IInv, EntryInv, QueueEntry

\* A release keeps the pool a set of buffers.
LEMMA ReleaseType ==
    ASSUME TypeOK, NEW p \in Pointer, Release(p)
    PROVE  free_bufs' \subseteq Buffers
  BY Zenon DEF Release, TypeOK, DispatcherTypeOK, Pointer

\* The codelet.
LEMMA CodeletType == IInv /\ Codelet => TypeOK'
  BY BoundsAssumption DEF IInv, TypeOK, DispatcherTypeOK, Codelet, CodeletOutput, dispatchVars,
      pipelineVars, queueVars, lifeVars, smVars

\* The poll thread in dispatch().
LEMMA DispatchType == IInv /\ Dispatch => TypeOK'
<1> SUFFICES ASSUME IInv, Dispatch PROVE TypeOK'
  BY Zenon
<1> USE DEF pipelineVars, queueVars, lifeVars, smVars
<1>1. CASE Poll
  <2>1. PICK n \in 1..Len(out_ring) :
          /\ bufs' = [i \in 1..n |-> [load |-> load_id, buf |-> out_ring[i]]]
          /\ out_ring' = SubSeq(out_ring, n + 1, Len(out_ring))
    BY <1>1, Zenon DEF Poll
  <2>2. out_ring \in Seq(Buffers) /\ load_id \in 0..MaxLoads
    BY Zenon DEF IInv, TypeOK, DispatcherTypeOK
  <2>3. out_ring' \in Seq(Buffers)
    BY <2>1, <2>2
  <2>4. bufs' \in Seq(Pointer)
    BY <2>1, <2>2 DEF Pointer
  <2>5. UNCHANGED pipelineVars
    BY <1>1, Zenon DEF Dispatch, Poll, Lookup, Discard
  <2>6. DispatcherTypeOK'
    BY <1>1, <2>3, <2>4, Zenon DEF Poll, IInv, TypeOK, DispatcherTypeOK
  <2>7. TypeOK
    BY Zenon DEF IInv
  <2> QED
    BY <2>5, <2>6, <2>7, SMT DEF TypeOK
<1>2. CASE Lookup
  BY <1>2 DEF Dispatch, Lookup, IInv, TypeOK, DispatcherTypeOK, channelVars
<1>3. CASE Discard
  <2>1. bufs \in Seq(Pointer) /\ bufs # <<>>
    BY <1>3, Zenon DEF IInv, TypeOK, DispatcherTypeOK, ThreadInv, Discard
  <2>2. Head(bufs) \in Pointer /\ Tail(bufs) \in Seq(Pointer)
    BY <2>1
  <2>3. free_bufs' \subseteq Buffers
    BY <1>3, <2>2, ReleaseType, Zenon DEF IInv, Discard
  <2> QED
    BY <1>3, <2>2, <2>3
    DEF Dispatch, Discard, Release, NextBuf, IInv, TypeOK, DispatcherTypeOK
<1> QED
  BY <1>1, <1>2, <1>3, Zenon DEF Dispatch

\* A control message.
LEMMA SendMsgType ==
    ASSUME TypeOK, NEW msg \in {"e3_shm_cfg", "e3_slot_sel"},
           NEW pc \in {"send_sel", "mark_sent"}, SendMsg(msg, pc)
    PROVE  TypeOK'
<1>1. ctl_msgs' \subseteq {"e3_shm_cfg", "e3_slot_sel"}
  BY Zenon DEF SendMsg, TypeOK
<1>2. poll_pc' \in {"send_sel", "mark_sent", "enqueue"}
  BY Zenon DEF SendMsg
<1> QED
  BY <1>1, <1>2 DEF SendMsg, TypeOK, DispatcherTypeOK, channelVars,
                    queueVars, lifeVars, smVars

\* The poll thread in process_buffers().
LEMMA ProcessType == IInv /\ ProcessBuffers => TypeOK'
<1> SUFFICES ASSUME IInv, ProcessBuffers PROVE TypeOK'
  BY Zenon
<1> USE DEF channelVars, pipelineVars, queueVars, lifeVars, smVars
<1>0. InHandler => Head(bufs) \in Pointer /\ Tail(bufs) \in Seq(Pointer)
  BY DEF IInv, TypeOK, DispatcherTypeOK, ThreadInv
<1>1. CASE CfgCheck
  BY <1>1 DEF CfgCheck, IInv, TypeOK, DispatcherTypeOK
<1>2. CASE SendShmCfg
  BY <1>2, SendMsgType, Zenon DEF SendShmCfg, IInv
<1>3. CASE SendSlotSel
  BY <1>3, SendMsgType, Zenon DEF SendSlotSel, IInv
<1>4. CASE MarkSent
  BY <1>4 DEF MarkSent, IInv, TypeOK, DispatcherTypeOK
<1>5. CASE DropBuf
  <2>1. free_bufs' \subseteq Buffers
    BY <1>0, <1>5, ReleaseType, Zenon DEF DropBuf, InHandler, IInv
  <2> QED
    BY <1>0, <1>5, <2>1
    DEF DropBuf, InHandler, Release, NextBuf, IInv, TypeOK, DispatcherTypeOK
<1>6. CASE WriteEntry
  <2>1. Idx(queue_head) \in 0..QUEUE_CAPACITY-1
    BY IdxRange, Zenon DEF IInv, TypeOK
  <2>2. [buf |-> Head(bufs), recv |-> slot_in[Head(bufs).buf],
         sample_id |-> total_samples_received + 1] \in QueueEntry
    <3>1. Head(bufs) \in Pointer
      BY <1>0, <1>6, Zenon DEF WriteEntry, InHandler
    <3>2. slot_in[Head(bufs).buf] \in 0..MaxSlots
      BY <3>1, Zenon DEF IInv, TypeOK, DispatcherTypeOK, Pointer
    <3>3. total_samples_received + 1 \in Nat
      BY DEF IInv, TypeOK
    <3> QED
      BY <3>1, <3>2, <3>3, Zenon DEF QueueEntry
  <2>3. queue' \in [0..QUEUE_CAPACITY-1 -> QueueEntry \cup {EmptyEntry}]
    BY <1>6, <2>1, <2>2, Zenon DEF WriteEntry, IInv, TypeOK
  <2> QED
    BY <1>6, <2>3 DEF WriteEntry, IInv, TypeOK, DispatcherTypeOK
<1>7. CASE PublishEntry
  BY <1>0, <1>7
  DEF PublishEntry, InHandler, NextBuf, IInv, TypeOK, DispatcherTypeOK
<1>8. CASE QueueCheck
  BY <1>8 DEF QueueCheck, IInv, TypeOK, DispatcherTypeOK
<1> QED
  BY <1>1, <1>2, <1>3, <1>4, <1>5, <1>6, <1>7, <1>8, Zenon DEF ProcessBuffers

\* The worker thread.
LEMMA WorkerType == IInv /\ Worker => TypeOK'
<1> SUFFICES ASSUME IInv, Worker PROVE TypeOK'
  BY Zenon
<1> USE DEF channelVars, dispatchVars, queueVars, lifeVars, smVars
<1>1. CASE WorkerCheck \/ WorkerLoad \/ WorkerAdvance
  <2>1. CASE WorkerCheck
    BY <2>1 DEF WorkerCheck, IInv, TypeOK, DispatcherTypeOK
  <2>2. CASE WorkerLoad
    BY <2>2 DEF WorkerLoad, IInv, TypeOK, DispatcherTypeOK
  <2>3. CASE WorkerAdvance
    BY <2>3 DEF WorkerAdvance, IInv, TypeOK, DispatcherTypeOK
  <2> QED
    BY <1>1, <2>1, <2>2, <2>3, Zenon
<1>2. worker_pc \in {"dispatch", "release"} =>
         Entry(queue_tail).sample_id \in Nat /\ Entry(queue_tail).buf \in Pointer
  BY EntryPointer DEF IInv, CursorInv, TypeOK, QueueEntry
<1>3. CASE WorkerDispatch
  BY <1>2, <1>3 DEF WorkerDispatch, IInv, TypeOK, DispatcherTypeOK
<1>4. CASE WorkerRelease
  <2>1. free_bufs' \subseteq Buffers
    BY <1>2, <1>4, ReleaseType, Zenon DEF WorkerRelease, IInv
  <2> QED
    BY <1>4, <2>1 DEF WorkerRelease, Release, IInv, TypeOK, DispatcherTypeOK
<1> QED
  BY <1>1, <1>3, <1>4, Zenon DEF Worker

\* start().
LEMMA StartType == IInv /\ (SmStart \/ Start) => TypeOK'
<1> SUFFICES ASSUME IInv, SmStart \/ Start PROVE TypeOK'
  BY Zenon
<1> USE DEF channelVars, dispatchVars, CtlFrame
<1>1. CASE SmStart \/ LoadFails \/ Boot \/ SmUp
  <2>1. CASE SmStart
    BY <2>1 DEF SmStart, IInv, TypeOK, DispatcherTypeOK
  <2>2. CASE LoadFails
    BY <2>2 DEF LoadFails, IInv, TypeOK, DispatcherTypeOK
  <2>3. CASE Boot
    BY <2>3, ZenonT(60) DEF Boot, IInv, TypeOK, DispatcherTypeOK
  <2>4. CASE SmUp
    BY <2>4 DEF SmUp, IInv, TypeOK, DispatcherTypeOK
  <2> QED
    BY <1>1, <2>1, <2>2, <2>3, <2>4, Zenon
<1>2. CASE Register
  BY <1>2 DEF Register, RegisterStream, IInv, TypeOK, DispatcherTypeOK
<1>3. CASE LoadCodelets
  <2>1. load_id' \in 0..MaxLoads /\ free_bufs' \subseteq Buffers
        /\ out_ring' \in Seq(Buffers)
    BY <1>3, BoundsAssumption
    DEF LoadCodelets, CreateChannel, IInv, TypeOK, DispatcherTypeOK
  <2>2. straddled' \in BOOLEAN
    BY <1>3, Zenon DEF LoadCodelets
  <2> QED
    BY <1>3, <2>1, <2>2
    DEF LoadCodelets, CreateChannel, IInv, TypeOK, DispatcherTypeOK
<1> QED
  BY <1>1, <1>2, <1>3, Zenon DEF Start

\* stop().
LEMMA StopType == IInv /\ (SmStop \/ Stop) => TypeOK'
<1> SUFFICES ASSUME IInv, SmStop \/ Stop PROVE TypeOK'
  BY Zenon
<1> USE DEF channelVars, dispatchVars, CtlFrame
<1>1. CASE SmStop \/ SignalWorker \/ JoinWorker \/ DrainDone
  <2>1. CASE SmStop
    <3>1. sm_running' \in BOOLEAN
      BY <2>1, Zenon DEF SmStop
    <3> QED
      BY <2>1, <3>1 DEF SmStop, IInv, TypeOK, DispatcherTypeOK
  <2>2. CASE SignalWorker
    <3>1. running' \in BOOLEAN
      BY <2>2, Zenon DEF SignalWorker
    <3> QED
      BY <2>2, <3>1 DEF SignalWorker, IInv, TypeOK, DispatcherTypeOK
  <2>3. CASE JoinWorker
    BY <2>3 DEF JoinWorker, IInv, TypeOK, DispatcherTypeOK
  <2>4. CASE DrainDone
    BY <2>4 DEF DrainDone, IInv, TypeOK, DispatcherTypeOK
  <2> QED
    BY <1>1, <2>1, <2>2, <2>3, <2>4, Zenon
<1>2. CASE Unregister
  <2>1. straddled' \in BOOLEAN /\ registered' \in BOOLEAN
    BY <1>2, Zenon DEF Unregister, UnregisterStream
  <2> QED
    BY <1>2, <2>1
    DEF Unregister, UnregisterStream, IInv, TypeOK, DispatcherTypeOK
<1>3. CASE DrainEntry
  <2>1. Entry(drain_tail).buf \in Pointer
    BY <1>3, EntryPointer DEF DrainEntry, IInv, CursorInv, TypeOK
  <2>2. free_bufs' \subseteq Buffers
    BY <1>3, <2>1, ReleaseType, Zenon DEF DrainEntry, IInv
  <2> QED
    BY <1>3, <2>2 DEF DrainEntry, Release, IInv, TypeOK, DispatcherTypeOK
<1>4. CASE UnloadCodelets
  <2>1. straddled' \in BOOLEAN /\ codelets_loaded' \in BOOLEAN
    BY <1>4, Zenon DEF UnloadCodelets, IInv, TypeOK
  <2>2. channel_up' \in BOOLEAN
    BY <1>4, Zenon
       DEF UnloadCodelets, DestroyChannel, IInv, TypeOK, DispatcherTypeOK
  <2>3. CASE DestroyChannel
    BY <1>4, <2>1, <2>2, <2>3
    DEF UnloadCodelets, DestroyChannel, IInv, TypeOK, DispatcherTypeOK
  <2>4. CASE UNCHANGED <<channelVars, straddled>>
    BY <1>4, <2>1, <2>2, <2>4
    DEF UnloadCodelets, IInv, TypeOK, DispatcherTypeOK
  <2> QED
    BY <1>4, <2>3, <2>4, Zenon DEF UnloadCodelets
<1> QED
  BY <1>1, <1>2, <1>3, <1>4, Zenon DEF Stop

\* The end of main.
LEMMA ShutdownType == IInv /\ Shutdown => TypeOK'
<1> SUFFICES ASSUME IInv, Shutdown PROVE TypeOK'
  BY Zenon
<1> USE DEF channelVars, dispatchVars, CtlFrame, pipelineVars, queueVars,
            lifeVars, smVars
<1>1. CASE LeavePollLoop \/ MainStop \/ Exited
  <2>1. CASE LeavePollLoop
    BY <2>1 DEF LeavePollLoop, IInv, TypeOK, DispatcherTypeOK
  <2>2. CASE MainStop
    BY <2>2 DEF MainStop, IInv, TypeOK, DispatcherTypeOK
  <2>3. CASE Exited
    BY <2>3 DEF Exited, vars, IInv, TypeOK, DispatcherTypeOK
  <2> QED
    BY <1>1, <2>1, <2>2, <2>3, Zenon
<1>2. CASE JbpfIoStop
  <2>1. free_bufs' \subseteq Buffers /\ out_ring' \in Seq(Buffers)
    BY <1>2 DEF JbpfIoStop, DestroyChannel
  <2> QED
    BY <1>2, <2>1, ZenonT(60)
       DEF JbpfIoStop, DestroyChannel, IInv, TypeOK, DispatcherTypeOK
<1> QED
  BY <1>1, <1>2, Zenon DEF Shutdown


-----------------------------------------------------------------------------
(* Each conjunct of the invariant is preserved by every step. *)

\* The cursors.
LEMMA CursorStep == IInv /\ [Next]_vars => CursorInv'
<1> SUFFICES ASSUME IInv, [Next]_vars PROVE CursorInv'
  BY Zenon
<1> USE CapacityAssumption DEF IInv, TypeOK, DispatcherTypeOK, CursorInv,
           ThreadInv, InHandler, channelVars, dispatchVars, queueVars,
           lifeVars, smVars, pipelineVars, CtlFrame
<1>1. CASE Codelet
  BY <1>1, Zenon DEF Codelet, CodeletOutput
<1>2. CASE Dispatch
  BY <1>2, Zenon DEF Dispatch, Poll, Lookup, Discard, Release, NextBuf
<1>3. CASE CfgCheck
  BY <1>3, Zenon DEF CfgCheck
<1>4. CASE SendShmCfg
  BY <1>4, Zenon DEF SendShmCfg, SendMsg
<1>5. CASE SendSlotSel
  BY <1>5, Zenon DEF SendSlotSel, SendMsg
<1>6. CASE MarkSent
  BY <1>6, Zenon DEF MarkSent
<1>7. CASE QueueCheck
  BY <1>7 DEF QueueCheck, QueueFull
<1>8. CASE DropBuf
  BY <1>8, Zenon DEF DropBuf, Release, NextBuf
<1>9. CASE WriteEntry
  BY <1>9, Zenon DEF WriteEntry
<1>10. CASE PublishEntry
  BY <1>10 DEF PublishEntry, NextBuf
<1>11. CASE WorkerCheck
  BY <1>11, Zenon DEF WorkerCheck
<1>12. CASE WorkerLoad
  BY <1>12 DEF WorkerLoad
<1>13. CASE WorkerDispatch
  BY <1>13, Zenon DEF WorkerDispatch
<1>14. CASE WorkerRelease
  BY <1>14, Zenon DEF WorkerRelease, Release
<1>15. CASE WorkerAdvance
  BY <1>15 DEF WorkerAdvance
<1>16. CASE SmStart
  BY <1>16, Zenon DEF SmStart, AgentUp
<1>17. CASE LoadCodelets
  BY <1>17, Zenon DEF LoadCodelets, CreateChannel
<1>18. CASE LoadFails
  BY <1>18, Zenon DEF LoadFails
<1>19. CASE Boot
  BY <1>19, Zenon DEF Boot
<1>20. CASE Register
  BY <1>20, Zenon DEF Register, RegisterStream
<1>21. CASE SmUp
  BY <1>21, Zenon DEF SmUp
<1>22. CASE SmStop
  BY <1>22, Zenon DEF SmStop, AgentUp
<1>23. CASE Unregister
  BY <1>23, Zenon DEF Unregister, UnregisterStream
<1>24. CASE SignalWorker
  BY <1>24, Zenon DEF SignalWorker
<1>25. CASE JoinWorker
  BY <1>25 DEF JoinWorker
<1>26. CASE DrainEntry
  BY <1>26 DEF DrainEntry, Release
<1>27. CASE DrainDone
  BY <1>27 DEF DrainDone
<1>28. CASE UnloadCodelets
  BY <1>28, Zenon DEF UnloadCodelets, DestroyChannel
<1>29. CASE LeavePollLoop
  BY <1>29, Zenon DEF LeavePollLoop
<1>30. CASE MainStop
  BY <1>30, Zenon DEF MainStop
<1>31. CASE JbpfIoStop
  BY <1>31, Zenon DEF JbpfIoStop, DestroyChannel
<1>32. CASE Exited
  BY <1>32, Zenon DEF Exited, vars
<1>33. CASE UNCHANGED vars
  BY <1>33, Zenon DEF vars
<1> QED
  BY <1>1, <1>2, <1>3, <1>4, <1>5, <1>6, <1>7, <1>8, <1>9, <1>10, <1>11, <1>12,
     <1>13, <1>14, <1>15, <1>16, <1>17, <1>18, <1>19, <1>20, <1>21, <1>22,
     <1>23, <1>24, <1>25, <1>26, <1>27, <1>28, <1>29, <1>30, <1>31, <1>32,
     <1>33, Zenon
     DEF Next, ProcessBuffers, Worker, Start, Stop, Shutdown

\* NextBuf leaves the loop over the batch exactly when the batch is used up.
LEMMA NextBufStays ==
    ASSUME TypeOK, bufs # <<>>, NEW pc, NextBuf(pc), poll_pc' # "idle"
    PROVE  bufs' # <<>>
<1>1. Len(bufs) \in Nat /\ Len(bufs) # 1 /\ Len(bufs) # 0
  BY DEF TypeOK, DispatcherTypeOK, NextBuf
<1>2. Len(Tail(bufs)) = Len(bufs) - 1
  BY <1>1 DEF TypeOK, DispatcherTypeOK
<1>3. Len(Tail(bufs)) # 0
  BY <1>1, <1>2
<1>4. Len(<<>>) = 0
  BY Zenon
<1>5. Tail(bufs) # <<>>
  BY <1>3, <1>4, Zenon
<1> QED
  BY <1>5, Zenon DEF NextBuf

\* The threads.
LEMMA ThreadStep == IInv /\ [Next]_vars => ThreadInv'
<1> SUFFICES ASSUME IInv, [Next]_vars PROVE ThreadInv'
  BY Zenon
<1> USE CapacityAssumption DEF IInv, TypeOK, DispatcherTypeOK, ThreadInv,
           InHandler, channelVars, dispatchVars, queueVars, lifeVars,
           smVars, pipelineVars, CtlFrame
<1>1. CASE Codelet
  BY <1>1, Zenon DEF Codelet, CodeletOutput
<1>2. CASE Dispatch
  <2>1. CASE Poll
    <3>1. PICK n \in 1..Len(out_ring) :
            bufs' = [i \in 1..n |-> [load |-> load_id, buf |-> out_ring[i]]]
      BY <2>1, Zenon DEF Poll
    <3>2. 1 \in 1..n
      OBVIOUS
    <3>3. 1 \in DOMAIN bufs'
      BY <3>1, <3>2, Zenon
    <3>4. bufs' # <<>>
      BY <3>3
    <3> QED
      BY <1>2, <2>1, <3>4, Zenon DEF Dispatch, Poll
  <2>2. CASE Lookup
    BY <1>2, <2>2, Zenon DEF Dispatch, Lookup
  <2>3. CASE Discard
    <3>1. poll_pc' # "idle" => bufs' # <<>>
      BY <2>3, NextBufStays, Zenon DEF Discard
    <3> QED
      BY <1>2, <2>3, <3>1, Zenon DEF Dispatch, Discard, Release, NextBuf
  <2> QED
    BY <1>2, <2>1, <2>2, <2>3, Zenon DEF Dispatch
<1>3. CASE CfgCheck
  BY <1>3, Zenon DEF CfgCheck
<1>4. CASE SendShmCfg
  BY <1>4, Zenon DEF SendShmCfg, SendMsg
<1>5. CASE SendSlotSel
  BY <1>5, Zenon DEF SendSlotSel, SendMsg
<1>6. CASE MarkSent
  BY <1>6, Zenon DEF MarkSent
<1>7. CASE QueueCheck
  BY <1>7, Zenon DEF QueueCheck, QueueFull
<1>8. CASE DropBuf
  <2>1. poll_pc' # "idle" => bufs' # <<>>
    BY <1>8, NextBufStays, Zenon DEF DropBuf
  <2> QED
    BY <1>8, <2>1, Zenon DEF DropBuf, Release, NextBuf
<1>9. CASE WriteEntry
  BY <1>9, Zenon DEF WriteEntry
<1>10. CASE PublishEntry
  <2>1. poll_pc' # "idle" => bufs' # <<>>
    BY <1>10, NextBufStays, Zenon DEF PublishEntry
  <2> QED
    BY <1>10, <2>1, Zenon DEF PublishEntry, NextBuf
<1>11. CASE WorkerCheck
  BY <1>11, Zenon DEF WorkerCheck
<1>12. CASE WorkerLoad
  BY <1>12, Zenon DEF WorkerLoad
<1>13. CASE WorkerDispatch
  BY <1>13, Zenon DEF WorkerDispatch
<1>14. CASE WorkerRelease
  BY <1>14, Zenon DEF WorkerRelease, Release
<1>15. CASE WorkerAdvance
  BY <1>15, Zenon DEF WorkerAdvance
<1>16. CASE SmStart
  BY <1>16, Zenon DEF SmStart, AgentUp
<1>17. CASE LoadCodelets
  BY <1>17, Zenon DEF LoadCodelets, CreateChannel
<1>18. CASE LoadFails
  BY <1>18, Zenon DEF LoadFails
<1>19. CASE Boot
  BY <1>19, Zenon DEF Boot
<1>20. CASE Register
  BY <1>20, Zenon DEF Register, RegisterStream
<1>21. CASE SmUp
  BY <1>21, Zenon DEF SmUp
<1>22. CASE SmStop
  BY <1>22, Zenon DEF SmStop, AgentUp
<1>23. CASE Unregister
  BY <1>23, Zenon DEF Unregister, UnregisterStream
<1>24. CASE SignalWorker
  BY <1>24, Zenon DEF SignalWorker
<1>25. CASE JoinWorker
  BY <1>25, Zenon DEF JoinWorker
<1>26. CASE DrainEntry
  BY <1>26, Zenon DEF DrainEntry, Release
<1>27. CASE DrainDone
  BY <1>27, Zenon DEF DrainDone
<1>28. CASE UnloadCodelets
  BY <1>28, Zenon DEF UnloadCodelets, DestroyChannel
<1>29. CASE LeavePollLoop
  BY <1>29, Zenon DEF LeavePollLoop
<1>30. CASE MainStop
  BY <1>30, Zenon DEF MainStop
<1>31. CASE JbpfIoStop
  BY <1>31, Zenon DEF JbpfIoStop, DestroyChannel
<1>32. CASE Exited
  BY <1>32, Zenon DEF Exited, vars
<1>33. CASE UNCHANGED vars
  BY <1>33, Zenon DEF vars
<1> QED
  BY <1>1, <1>2, <1>3, <1>4, <1>5, <1>6, <1>7, <1>8, <1>9, <1>10, <1>11, <1>12,
     <1>13, <1>14, <1>15, <1>16, <1>17, <1>18, <1>19, <1>20, <1>21, <1>22,
     <1>23, <1>24, <1>25, <1>26, <1>27, <1>28, <1>29, <1>30, <1>31, <1>32,
     <1>33, Zenon
     DEF Next, ProcessBuffers, Worker, Start, Stop, Shutdown

\* The last buffer shown.
LEMMA ShownStep == IInv /\ [Next]_vars => ShownInv'
<1> SUFFICES ASSUME IInv, [Next]_vars PROVE ShownInv'
  BY Zenon
<1> USE CapacityAssumption DEF IInv, TypeOK, CursorInv, ThreadInv, ShownInv,
           channelVars, dispatchVars, queueVars, lifeVars, smVars,
           pipelineVars, CtlFrame
<1>1. CASE Codelet
  BY <1>1, Zenon DEF Codelet, CodeletOutput
<1>2. CASE Dispatch
  BY <1>2, Zenon DEF Dispatch, Poll, Lookup, Discard, Release, NextBuf
<1>3. CASE CfgCheck
  BY <1>3, Zenon DEF CfgCheck
<1>4. CASE SendShmCfg
  BY <1>4, Zenon DEF SendShmCfg, SendMsg
<1>5. CASE SendSlotSel
  BY <1>5, Zenon DEF SendSlotSel, SendMsg
<1>6. CASE MarkSent
  BY <1>6, Zenon DEF MarkSent
<1>7. CASE QueueCheck
  BY <1>7, Zenon DEF QueueCheck, QueueFull
<1>8. CASE DropBuf
  BY <1>8, Zenon DEF DropBuf, Release, NextBuf
<1>9. CASE WriteEntry
  BY <1>9, Zenon DEF WriteEntry
<1>10. CASE PublishEntry
  BY <1>10, Zenon DEF PublishEntry, NextBuf
<1>11. CASE WorkerCheck
  BY <1>11, Zenon DEF WorkerCheck
<1>12. CASE WorkerLoad
  BY <1>12, Zenon DEF WorkerLoad
<1>13. CASE WorkerDispatch
  BY <1>13, EntryPointer DEF WorkerDispatch
<1>14. CASE WorkerRelease
  BY <1>14, Zenon DEF WorkerRelease, Release
<1>15. CASE WorkerAdvance
  BY <1>15 DEF WorkerAdvance
<1>16. CASE SmStart
  BY <1>16, Zenon DEF SmStart, AgentUp
<1>17. CASE LoadCodelets
  BY <1>17, Zenon DEF LoadCodelets, CreateChannel
<1>18. CASE LoadFails
  BY <1>18, Zenon DEF LoadFails
<1>19. CASE Boot
  BY <1>19, Zenon DEF Boot
<1>20. CASE Register
  BY <1>20, Zenon DEF Register, RegisterStream
<1>21. CASE SmUp
  BY <1>21, Zenon DEF SmUp
<1>22. CASE SmStop
  BY <1>22, Zenon DEF SmStop, AgentUp
<1>23. CASE Unregister
  BY <1>23, Zenon DEF Unregister, UnregisterStream
<1>24. CASE SignalWorker
  BY <1>24, Zenon DEF SignalWorker
<1>25. CASE JoinWorker
  BY <1>25, Zenon DEF JoinWorker
<1>26. CASE DrainEntry
  BY <1>26, Zenon DEF DrainEntry, Release
<1>27. CASE DrainDone
  BY <1>27 DEF DrainDone
<1>28. CASE UnloadCodelets
  BY <1>28, Zenon DEF UnloadCodelets, DestroyChannel
<1>29. CASE LeavePollLoop
  BY <1>29, Zenon DEF LeavePollLoop
<1>30. CASE MainStop
  BY <1>30, Zenon DEF MainStop
<1>31. CASE JbpfIoStop
  BY <1>31, Zenon DEF JbpfIoStop, DestroyChannel
<1>32. CASE Exited
  BY <1>32, Zenon DEF Exited, vars
<1>33. CASE UNCHANGED vars
  BY <1>33, Zenon DEF vars
<1> QED
  BY <1>1, <1>2, <1>3, <1>4, <1>5, <1>6, <1>7, <1>8, <1>9, <1>10, <1>11, <1>12,
     <1>13, <1>14, <1>15, <1>16, <1>17, <1>18, <1>19, <1>20, <1>21, <1>22,
     <1>23, <1>24, <1>25, <1>26, <1>27, <1>28, <1>29, <1>30, <1>31, <1>32,
     <1>33, Zenon
     DEF Next, ProcessBuffers, Worker, Start, Stop, Shutdown

\* Only WriteEntry changes an entry or adds one to those written.
LEMMA WrittenFrame ==
    IInv /\ [Next]_vars /\ ~WriteEntry =>
        queue' = queue /\ Written' \subseteq Written
<1> SUFFICES ASSUME IInv, [Next]_vars, ~WriteEntry
             PROVE  queue' = queue /\ Written' \subseteq Written
  BY Zenon
<1> USE DEF channelVars, dispatchVars, queueVars, lifeVars, smVars,
            pipelineVars, CtlFrame
<1>1. CASE Codelet \/ Dispatch
  BY <1>1, Zenon DEF Codelet, Dispatch, Poll, Lookup, Discard, NextBuf, Written
<1>2. CASE CfgCheck \/ SendShmCfg \/ SendSlotSel \/ MarkSent \/ QueueCheck
           \/ DropBuf
  BY <1>2, Zenon
     DEF CfgCheck, SendShmCfg, SendSlotSel, SendMsg, MarkSent, QueueCheck,
         DropBuf, NextBuf, Written
<1>3. CASE PublishEntry
  BY <1>3 DEF PublishEntry, NextBuf, Written, IInv, TypeOK
<1>4. CASE Worker
  BY <1>4, SMTT(30)
  DEF Worker, WorkerCheck, WorkerLoad, WorkerDispatch, WorkerRelease,
      WorkerAdvance, Written, IInv, TypeOK
<1>5. CASE SmStart \/ Start
  BY <1>5, Zenon
     DEF SmStart, Start, LoadCodelets, LoadFails, Boot, Register,
         RegisterStream, SmUp, Written
<1>6. CASE SmStop \/ Stop
  <2>1. CASE DrainDone
    BY <2>1 DEF DrainDone, Written, IInv, TypeOK, CursorInv
  <2>2. CASE SmStop \/ Unregister \/ SignalWorker \/ JoinWorker \/ DrainEntry
             \/ UnloadCodelets
    BY <2>2, Zenon
       DEF SmStop, Unregister, UnregisterStream, SignalWorker, JoinWorker,
           DrainEntry, UnloadCodelets, Written
  <2> QED
    BY <1>6, <2>1, <2>2, Zenon DEF Stop
<1>7. CASE Shutdown \/ UNCHANGED vars
  BY <1>7, Zenon
     DEF Shutdown, LeavePollLoop, MainStop, JbpfIoStop, Exited, vars, Written
<1> QED
  BY <1>1, <1>2, <1>3, <1>4, <1>5, <1>6, <1>7, Zenon DEF Next, ProcessBuffers

\* The entries: the place WriteEntry changes is not one of those still held.
LEMMA EntryStep == IInv /\ [Next]_vars => EntryInv'
<1> SUFFICES ASSUME IInv, [Next]_vars PROVE EntryInv'
  BY Zenon
<1> USE DEF channelVars, lifeVars, smVars
<1>1. CASE WriteEntry
  <2> DEFINE e == [buf |-> Head(bufs), recv |-> slot_in[Head(bufs).buf],
                   sample_id |-> total_samples_received + 1]
  <2>0. /\ queue_head \in Nat /\ queue_tail \in Nat
        /\ queue \in [0..QUEUE_CAPACITY-1 -> QueueEntry \cup {EmptyEntry}]
    BY Zenon DEF IInv, TypeOK
  <2>1. /\ queue_tail <= queue_head
        /\ queue_head < queue_tail + QUEUE_CAPACITY
        /\ total_samples_received = queue_head
    <3>1. poll_pc = "write"
      BY <1>1, Zenon DEF WriteEntry
    <3>2. /\ queue_tail <= queue_head
          /\ queue_head - queue_tail < QUEUE_CAPACITY
          /\ total_samples_received = queue_head
      BY <3>1, Zenon DEF IInv, CursorInv
    <3> QED
      BY <2>0, <3>2, CapacityAssumption
  <2>2. queue' = [queue EXCEPT ![Idx(queue_head)] = e]
    BY <1>1, Zenon DEF WriteEntry
  <2>3. e \in QueueEntry /\ e.sample_id = queue_head + 1
    <3>1. Head(bufs) \in Pointer
      BY <1>1 DEF WriteEntry, InHandler, IInv, TypeOK, DispatcherTypeOK,
                  ThreadInv
    <3>2. slot_in[Head(bufs).buf] \in 0..MaxSlots
      BY <3>1, Zenon DEF IInv, TypeOK, DispatcherTypeOK, Pointer
    <3>3. total_samples_received + 1 \in Nat
      BY <2>0, <2>1
    <3>4. e \in QueueEntry
      BY <3>1, <3>2, <3>3, Zenon DEF QueueEntry
    <3>5. e.sample_id = queue_head + 1
      BY <2>1, Zenon
    <3> QED
      BY <3>4, <3>5, Zenon
  <2> HIDE DEF e
  <2>4. Written' = queue_tail..queue_head
    BY <1>1, Zenon DEF WriteEntry, Written
  <2>6. ASSUME NEW i \in queue_tail..(queue_head - 1)
        PROVE  queue'[Idx(i)] \in QueueEntry
               /\ queue'[Idx(i)].sample_id = i + 1
    <3>1. i \in Nat /\ i < queue_head /\ queue_head < i + QUEUE_CAPACITY
      BY <2>0, <2>1, CapacityAssumption
    <3>2. Idx(i) # Idx(queue_head)
      BY <2>0, <2>1, <3>1, IdxDistinct, Zenon
    <3>3. queue'[Idx(i)] = queue[Idx(i)]
      BY <2>0, <2>1, <2>2, <3>1, <3>2, IdxRange, Zenon
    <3>4. i \in Written
      BY <1>1, Zenon DEF Written, WriteEntry
    <3> QED
      BY <3>3, <3>4, Zenon DEF IInv, EntryInv, Entry
  <2>7. ASSUME NEW i \in queue_tail..queue_head
        PROVE  queue'[Idx(i)] \in QueueEntry
               /\ queue'[Idx(i)].sample_id = i + 1
    <3>1. CASE i = queue_head
      <4>1. queue'[Idx(i)] = e
        BY <3>1, <2>0, <2>2, IdxRange, Zenon
      <4> QED
        BY <3>1, <4>1, <2>3, Zenon
    <3>2. CASE i # queue_head
      BY <3>2, <2>0, <2>1, <2>6
    <3> QED
      BY <3>1, <3>2, Zenon
  <2> QED
    BY <2>4, <2>7, Zenon DEF EntryInv, Entry, Idx
<1>2. CASE ~WriteEntry
  BY <1>2, WrittenFrame, Zenon DEF IInv, EntryInv, Entry
<1> QED
  BY <1>1, <1>2, Zenon

-----------------------------------------------------------------------------
(* The invariant holds of every behaviour. *)

\* Every step keeps the types.
LEMMA TypeStep == IInv /\ [Next]_vars => TypeOK'
<1>1. IInv /\ UNCHANGED vars => TypeOK'
  BY DEF IInv, TypeOK, DispatcherTypeOK, vars, channelVars, dispatchVars,
         pipelineVars, queueVars, lifeVars, smVars
<1> QED
  BY <1>1, CodeletType, DispatchType, ProcessType, WorkerType, StartType,
     StopType, ShutdownType, Zenon
     DEF Next

\* The inductive invariant: the two sides of the ring, the drain in stop()
\* and the worker agree on which entries are written and which are released.
THEOREM Inductive == Spec => []IInv
<1>1. IInv /\ [Next]_vars => IInv'
  BY TypeStep, CursorStep, ThreadStep, ShownStep, EntryStep, Zenon DEF IInv
<1> QED
  BY <1>1, InitIInv, PTL DEF Spec

\* Every variable of the pipeline and the dispatcher keeps its type, for any
\* pool, capacity and number of loads; in particular no pointer that was
\* never written is ever released.
THEOREM TypeCorrect == Spec => []TypeOK
<1>1. IInv => TypeOK
  BY Zenon DEF IInv
<1> QED
  BY <1>1, Inductive, PTL

-----------------------------------------------------------------------------
(* Refinement: every step of the pipeline is a step of the ownership         *)
(* contract or leaves it alone.                                             *)

contractVars == <<queue_head, last_sample, Released, queue_tail>>

\* Every step is a step of the contract or leaves what it speaks of alone.
LEMMA ContractStep == IInv /\ [Next]_vars => [Contract!Next]_contractVars
<1> SUFFICES ASSUME IInv, [Next]_vars PROVE [Contract!Next]_contractVars
  BY Zenon
<1> USE DEF channelVars, dispatchVars, queueVars, lifeVars, smVars,
            pipelineVars, CtlFrame, contractVars, Released
<1>1. CASE PublishEntry
  <2>1. Contract!Take
    BY <1>1, CapacityAssumption, Zenon
       DEF PublishEntry, Contract!Take, IInv, TypeOK, CursorInv
  <2> QED
    BY <2>1, Zenon DEF Contract!Next
<1>2. CASE WorkerDispatch
  <2>1. /\ queue_tail < queue_head /\ ctl_pc # "drain"
        /\ last_sample <= queue_tail
    BY <1>2, Zenon DEF WorkerDispatch, IInv, CursorInv, ThreadInv, ShownInv
  <2>2. Entry(queue_tail).sample_id = queue_tail + 1
    BY <2>1, EntryPointer DEF IInv, TypeOK
  <2>3. Contract!Show
    BY <1>2, <2>1, <2>2, Zenon DEF WorkerDispatch, Contract!Show
  <2> QED
    BY <2>3, Zenon DEF Contract!Next
<1>3. CASE WorkerRelease
  <2>1. Contract!Return
    BY <1>3, Zenon
       DEF WorkerRelease, Release, Contract!Return, IInv, CursorInv, ThreadInv
  <2> QED
    BY <2>1, Zenon DEF Contract!Next
<1>4. CASE WorkerAdvance
  <2>1. Contract!Retire
    BY <1>4 DEF WorkerAdvance, Contract!Retire, IInv, TypeOK, ThreadInv
  <2> QED
    BY <2>1, Zenon DEF Contract!Next
<1>5. CASE DrainEntry
  <2>1. Contract!Return
    BY <1>5 DEF DrainEntry, Release, Contract!Return, IInv, TypeOK, CursorInv
  <2> QED
    BY <2>1, Zenon DEF Contract!Next
<1>6. CASE DrainDone
  <2>1. drain_tail = drain_head /\ queue_tail <= drain_head
        /\ worker_pc = "none"
    BY <1>6, Zenon DEF DrainDone, IInv, CursorInv, ThreadInv
  <2>2. CASE queue_tail = drain_head
    BY <1>6, <2>1, <2>2, Zenon DEF DrainDone
  <2>3. CASE queue_tail < drain_head
    <3>1. Contract!Retire
      BY <1>6, <2>1, <2>3 DEF DrainDone, Contract!Retire, IInv, TypeOK
    <3> QED
      BY <3>1, Zenon DEF Contract!Next
  <2> QED
    BY <2>1, <2>2, <2>3 DEF IInv, TypeOK
<1>7. CASE JoinWorker
  BY <1>7, Zenon DEF JoinWorker
<1>8. CASE Codelet \/ Dispatch
  BY <1>8, Zenon DEF Codelet, Dispatch
<1>9. CASE CfgCheck \/ SendShmCfg \/ SendSlotSel \/ MarkSent
           \/ QueueCheck \/ DropBuf \/ WriteEntry
  BY <1>9, Zenon
     DEF CfgCheck, SendShmCfg, SendSlotSel, SendMsg, MarkSent, QueueCheck,
         DropBuf, WriteEntry
<1>10. CASE WorkerCheck \/ WorkerLoad
  BY <1>10, Zenon DEF WorkerCheck, WorkerLoad
<1>11. CASE SmStart \/ Start
  BY <1>11, Zenon
     DEF SmStart, Start, LoadCodelets, LoadFails, Boot, Register, SmUp, IInv,
         ThreadInv
<1>12. CASE SmStop \/ Unregister \/ SignalWorker \/ UnloadCodelets
  BY <1>12, Zenon DEF SmStop, Unregister, SignalWorker, UnloadCodelets
<1>13. CASE Shutdown \/ UNCHANGED vars
  BY <1>13, Zenon
     DEF Shutdown, LeavePollLoop, MainStop, JbpfIoStop, Exited, vars
<1> QED
  BY <1>1, <1>2, <1>3, <1>4, <1>5, <1>6, <1>7, <1>8, <1>9, <1>10, <1>11, <1>12,
     <1>13, Zenon
     DEF Next, ProcessBuffers, Worker, Stop

\* The pipeline implements the ownership contract of a defer_release stream:
\* whatever the interleaving of poll thread, worker and stop(), each queued
\* buffer is shown to the service model at most once, in order and before it
\* is released, and is released exactly once, in a ring of any capacity.
THEOREM Refinement == Spec => ImplementsContract
<1>1. Init => Contract!Init
  BY Zenon DEF Init, Contract!Init, Released
<1> QED
  BY <1>1, Inductive, ContractStep, PTL
  DEF Spec, ImplementsContract, Contract!Spec, contractVars

-----------------------------------------------------------------------------
(* A clean stop: what holds as long as no batch in flight outlived its stream.  *)

\* A session: the stream is registered only while the pipeline runs, a batch
\* is at hand only inside dispatch(), and after the poll loop only stop()
\* runs; a channel torn down holds nothing.
SessionInv ==
    /\ registered => running /\ ctl_pc \in {"idle", "sm_up", "unregister"}
    /\ poll_pc \in {"idle", "stopping", "joining", "exited"} => bufs = <<>>
    /\ poll_pc = "joining" =>
          /\ ctl_pc \notin {"load", "boot", "register", "sm_up"}
          /\ ctl_pc = "idle" => ~running
    /\ poll_pc = "exited" => ctl_pc = "idle" /\ ~running
    /\ ~channel_up => out_ring = <<>>

\* A handler runs only for a registered stream, so the head is still while
\* stop() drains.
QuietInv ==
    ~straddled =>
        /\ InHandler => registered
        /\ Drained => queue_head = queue_tail
        /\ ctl_pc = "drain" => drain_head = queue_head

\* What the batch has sent so far went to the codelet now loaded.
SentInv ==
    ~straddled =>
        /\ poll_pc \in {"send_sel", "mark_sent"} => "e3_shm_cfg" \in ctl_msgs
        /\ poll_pc = "mark_sent" => "e3_slot_sel" \in ctl_msgs
        /\ running /\ shm_cfg_sent =>
              "e3_shm_cfg" \in ctl_msgs /\ "e3_slot_sel" \in ctl_msgs

\* Every pointer in the batch and in the queue is of the current load.
LiveInv ==
    ~straddled =>
        /\ bufs # <<>> => channel_up
        /\ \A j \in 1..Len(bufs) : bufs[j].load = load_id
        /\ \A i \in Written : Live(Entry(i).buf)

CInv == IInv /\ SessionInv /\ QuietInv /\ SentInv /\ LiveInv

\* Nothing is left behind the last pointer of a batch.
LEMMA LastOfBatch ==
    ASSUME NEW S, NEW q \in Seq(S), Len(q) = 1
    PROVE  Tail(q) = <<>>
<1> DEFINE t == Tail(q)
<1>1. q # <<>>
  <2>1. Len(<<>>) = 0
    BY Zenon
  <2>2. 0 # 1
    OBVIOUS
  <2> QED
    BY <2>1, <2>2, Zenon
<1>2. t \in Seq(S)
  BY <1>1
<1>3. Len(t) = Len(q) - 1
  BY <1>1
<1> HIDE DEF t
<1>4. t = <<>>
  BY <1>2, <1>3
<1> QED
  BY <1>4, Zenon DEF t

\* The session.
LEMMA SessionStep == CInv /\ [Next]_vars => SessionInv'
<1> SUFFICES ASSUME CInv, [Next]_vars PROVE SessionInv'
  BY Zenon
<1> USE DEF CInv, IInv, ThreadInv, SessionInv, channelVars, dispatchVars,
           queueVars, lifeVars, smVars, pipelineVars, CtlFrame
<1>1. CASE Codelet
  BY <1>1, Zenon DEF Codelet, CodeletOutput
<1>2. CASE Dispatch
  <2>1. CASE Poll
    BY <1>2, <2>1 DEF Dispatch, Poll
  <2>2. CASE Lookup
    BY <1>2, <2>2, Zenon DEF Dispatch, Lookup
  <2>3. CASE Discard
    <3>1. poll_pc' = "idle" => bufs' = <<>>
      <4>1. /\ bufs' = Tail(bufs)
            /\ poll_pc' = IF Len(bufs) = 1 THEN "idle" ELSE "discard"
        BY <2>3, Zenon DEF Discard, NextBuf
      <4>2. bufs \in Seq(Pointer)
        BY Zenon DEF TypeOK, DispatcherTypeOK
      <4>3. "discard" # "idle"
        OBVIOUS
      <4>4. Len(bufs) = 1 => Tail(bufs) = <<>>
        BY <4>2, LastOfBatch, Zenon
      <4> QED
        BY <4>1, <4>3, <4>4, Zenon
    <3> QED
      BY <1>2, <2>3, <3>1, Zenon DEF Dispatch, Discard, Release, NextBuf
  <2> QED
    BY <1>2, <2>1, <2>2, <2>3, Zenon DEF Dispatch
<1>3. CASE CfgCheck
  BY <1>3, Zenon DEF CfgCheck
<1>4. CASE SendShmCfg
  BY <1>4, Zenon DEF SendShmCfg, SendMsg
<1>5. CASE SendSlotSel
  BY <1>5, Zenon DEF SendSlotSel, SendMsg
<1>6. CASE MarkSent
  BY <1>6, Zenon DEF MarkSent
<1>7. CASE QueueCheck
  BY <1>7, Zenon DEF QueueCheck, QueueFull
<1>8. CASE DropBuf
  <2>1. poll_pc' = "idle" => bufs' = <<>>
    <3>1. /\ bufs' = Tail(bufs)
          /\ poll_pc' = IF Len(bufs) = 1 THEN "idle" ELSE "enqueue"
      BY <1>8, Zenon DEF DropBuf, NextBuf
    <3>2. bufs \in Seq(Pointer)
      BY Zenon DEF TypeOK, DispatcherTypeOK
    <3>3. Len(bufs) = 1 => Tail(bufs) = <<>>
      BY <3>2, LastOfBatch, Zenon
    <3> QED
      BY <3>1, <3>3, Zenon
  <2> QED
    BY <1>8, <2>1, Zenon DEF DropBuf, Release, NextBuf
<1>9. CASE WriteEntry
  BY <1>9, Zenon DEF WriteEntry
<1>10. CASE PublishEntry
  <2>1. poll_pc' = "idle" => bufs' = <<>>
    <3>1. /\ bufs' = Tail(bufs)
          /\ poll_pc' = IF Len(bufs) = 1 THEN "idle" ELSE "enqueue"
      BY <1>10, Zenon DEF PublishEntry, NextBuf
    <3>2. bufs \in Seq(Pointer)
      BY Zenon DEF TypeOK, DispatcherTypeOK
    <3>3. Len(bufs) = 1 => Tail(bufs) = <<>>
      BY <3>2, LastOfBatch, Zenon
    <3> QED
      BY <3>1, <3>3, Zenon
  <2> QED
    BY <1>10, <2>1, Zenon DEF PublishEntry, NextBuf
<1>11. CASE WorkerCheck
  BY <1>11, Zenon DEF WorkerCheck
<1>12. CASE WorkerLoad
  BY <1>12, Zenon DEF WorkerLoad
<1>13. CASE WorkerDispatch
  BY <1>13, Zenon DEF WorkerDispatch
<1>14. CASE WorkerRelease
  BY <1>14, Zenon DEF WorkerRelease, Release
<1>15. CASE WorkerAdvance
  BY <1>15, Zenon DEF WorkerAdvance
<1>16. CASE SmStart
  BY <1>16, Zenon DEF SmStart, AgentUp
<1>17. CASE LoadCodelets
  BY <1>17, Zenon DEF LoadCodelets, CreateChannel
<1>18. CASE LoadFails
  BY <1>18, Zenon DEF LoadFails
<1>19. CASE Boot
  BY <1>19, Zenon DEF Boot
<1>20. CASE Register
  BY <1>20, Zenon DEF Register, RegisterStream
<1>21. CASE SmUp
  BY <1>21, Zenon DEF SmUp
<1>22. CASE SmStop
  BY <1>22, Zenon DEF SmStop, AgentUp
<1>23. CASE Unregister
  BY <1>23, Zenon DEF Unregister, UnregisterStream
<1>24. CASE SignalWorker
  BY <1>24, Zenon DEF SignalWorker
<1>25. CASE JoinWorker
  BY <1>25, Zenon DEF JoinWorker
<1>26. CASE DrainEntry
  BY <1>26, Zenon DEF DrainEntry, Release
<1>27. CASE DrainDone
  BY <1>27, Zenon DEF DrainDone
<1>28. CASE UnloadCodelets
  BY <1>28, Zenon DEF UnloadCodelets, DestroyChannel
<1>29. CASE LeavePollLoop
  BY <1>29, Zenon DEF LeavePollLoop
<1>30. CASE MainStop
  BY <1>30, Zenon DEF MainStop
<1>31. CASE JbpfIoStop
  BY <1>31, Zenon DEF JbpfIoStop, DestroyChannel
<1>32. CASE Exited
  BY <1>32, Zenon DEF Exited, vars
<1>33. CASE UNCHANGED vars
  BY <1>33, Zenon DEF vars
<1> QED
  BY <1>1, <1>2, <1>3, <1>4, <1>5, <1>6, <1>7, <1>8, <1>9, <1>10, <1>11, <1>12,
     <1>13, <1>14, <1>15, <1>16, <1>17, <1>18, <1>19, <1>20, <1>21, <1>22,
     <1>23, <1>24, <1>25, <1>26, <1>27, <1>28, <1>29, <1>30, <1>31, <1>32,
     <1>33, Zenon
     DEF Next, ProcessBuffers, Worker, Start, Stop, Shutdown

\* The quiet queue.
LEMMA QuietStep == CInv /\ [Next]_vars => QuietInv'
<1> SUFFICES ASSUME CInv, [Next]_vars PROVE QuietInv'
  BY Zenon
<1> USE DEF CInv, IInv, TypeOK, CursorInv, ThreadInv, SessionInv, QuietInv,
           Drained, InHandler, channelVars, dispatchVars, queueVars,
           lifeVars, smVars, pipelineVars, CtlFrame
<1>1. CASE Codelet
  BY <1>1, Zenon DEF Codelet, CodeletOutput
<1>2. CASE Dispatch
  BY <1>2, Zenon DEF Dispatch, Poll, Lookup, Discard, Release, NextBuf
<1>3. CASE CfgCheck
  BY <1>3, Zenon DEF CfgCheck
<1>4. CASE SendShmCfg
  BY <1>4, Zenon DEF SendShmCfg, SendMsg
<1>5. CASE SendSlotSel
  BY <1>5, Zenon DEF SendSlotSel, SendMsg
<1>6. CASE MarkSent
  BY <1>6, Zenon DEF MarkSent
<1>7. CASE QueueCheck
  BY <1>7, Zenon DEF QueueCheck, QueueFull
<1>8. CASE DropBuf
  BY <1>8, Zenon DEF DropBuf, Release, NextBuf
<1>9. CASE WriteEntry
  BY <1>9, Zenon DEF WriteEntry
<1>10. CASE PublishEntry
  BY <1>10, Zenon DEF PublishEntry, NextBuf
<1>11. CASE WorkerCheck
  BY <1>11, Zenon DEF WorkerCheck
<1>12. CASE WorkerLoad
  BY <1>12, Zenon DEF WorkerLoad
<1>13. CASE WorkerDispatch
  BY <1>13, Zenon DEF WorkerDispatch
<1>14. CASE WorkerRelease
  BY <1>14, Zenon DEF WorkerRelease, Release
<1>15. CASE WorkerAdvance
  BY <1>15, Zenon DEF WorkerAdvance
<1>16. CASE SmStart
  BY <1>16, Zenon DEF SmStart, AgentUp
<1>17. CASE LoadCodelets
  BY <1>17, Zenon DEF LoadCodelets, CreateChannel
<1>18. CASE LoadFails
  BY <1>18, Zenon DEF LoadFails
<1>19. CASE Boot
  BY <1>19, Zenon DEF Boot
<1>20. CASE Register
  BY <1>20, Zenon DEF Register, RegisterStream
<1>21. CASE SmUp
  BY <1>21, Zenon DEF SmUp
<1>22. CASE SmStop
  BY <1>22, Zenon DEF SmStop, AgentUp
<1>23. CASE Unregister
  BY <1>23, Zenon DEF Unregister, UnregisterStream
<1>24. CASE SignalWorker
  BY <1>24, Zenon DEF SignalWorker
<1>25. CASE JoinWorker
  BY <1>25, Zenon DEF JoinWorker
<1>26. CASE DrainEntry
  BY <1>26, Zenon DEF DrainEntry, Release
<1>27. CASE DrainDone
  BY <1>27, Zenon DEF DrainDone
<1>28. CASE UnloadCodelets
  BY <1>28, Zenon DEF UnloadCodelets, DestroyChannel
<1>29. CASE LeavePollLoop
  BY <1>29, Zenon DEF LeavePollLoop
<1>30. CASE MainStop
  BY <1>30, Zenon DEF MainStop
<1>31. CASE JbpfIoStop
  BY <1>31, Zenon DEF JbpfIoStop, DestroyChannel
<1>32. CASE Exited
  BY <1>32, Zenon DEF Exited, vars
<1>33. CASE UNCHANGED vars
  BY <1>33, Zenon DEF vars
<1> QED
  BY <1>1, <1>2, <1>3, <1>4, <1>5, <1>6, <1>7, <1>8, <1>9, <1>10, <1>11, <1>12,
     <1>13, <1>14, <1>15, <1>16, <1>17, <1>18, <1>19, <1>20, <1>21, <1>22,
     <1>23, <1>24, <1>25, <1>26, <1>27, <1>28, <1>29, <1>30, <1>31, <1>32,
     <1>33, Zenon
     DEF Next, ProcessBuffers, Worker, Start, Stop, Shutdown

\* The messages sent.
LEMMA SentStep == CInv /\ [Next]_vars => SentInv'
<1> SUFFICES ASSUME CInv, [Next]_vars PROVE SentInv'
  BY Zenon
<1> USE DEF CInv, IInv, ThreadInv, SessionInv, QuietInv, SentInv, InHandler,
           channelVars, dispatchVars, queueVars, lifeVars, smVars,
           pipelineVars, CtlFrame
<1>1. CASE Codelet
  BY <1>1, Zenon DEF Codelet, CodeletOutput
<1>2. CASE Dispatch
  BY <1>2, Zenon DEF Dispatch, Poll, Lookup, Discard, Release, NextBuf
<1>3. CASE CfgCheck
  BY <1>3, Zenon DEF CfgCheck
<1>4. CASE SendShmCfg
  BY <1>4, Zenon DEF SendShmCfg, SendMsg
<1>5. CASE SendSlotSel
  BY <1>5, Zenon DEF SendSlotSel, SendMsg
<1>6. CASE MarkSent
  BY <1>6, Zenon DEF MarkSent
<1>7. CASE QueueCheck
  BY <1>7, Zenon DEF QueueCheck, QueueFull
<1>8. CASE DropBuf
  BY <1>8, Zenon DEF DropBuf, Release, NextBuf
<1>9. CASE WriteEntry
  BY <1>9, Zenon DEF WriteEntry
<1>10. CASE PublishEntry
  BY <1>10, Zenon DEF PublishEntry, NextBuf
<1>11. CASE WorkerCheck
  BY <1>11, Zenon DEF WorkerCheck
<1>12. CASE WorkerLoad
  BY <1>12, Zenon DEF WorkerLoad
<1>13. CASE WorkerDispatch
  BY <1>13, Zenon DEF WorkerDispatch
<1>14. CASE WorkerRelease
  BY <1>14, Zenon DEF WorkerRelease, Release
<1>15. CASE WorkerAdvance
  BY <1>15, Zenon DEF WorkerAdvance
<1>16. CASE SmStart
  BY <1>16, Zenon DEF SmStart, AgentUp
<1>17. CASE LoadCodelets
  BY <1>17, Zenon DEF LoadCodelets, CreateChannel
<1>18. CASE LoadFails
  BY <1>18, Zenon DEF LoadFails
<1>19. CASE Boot
  BY <1>19, Zenon DEF Boot
<1>20. CASE Register
  BY <1>20, Zenon DEF Register, RegisterStream
<1>21. CASE SmUp
  BY <1>21, Zenon DEF SmUp
<1>22. CASE SmStop
  BY <1>22, Zenon DEF SmStop, AgentUp
<1>23. CASE Unregister
  BY <1>23, Zenon DEF Unregister, UnregisterStream
<1>24. CASE SignalWorker
  BY <1>24, Zenon DEF SignalWorker
<1>25. CASE JoinWorker
  BY <1>25, Zenon DEF JoinWorker
<1>26. CASE DrainEntry
  BY <1>26, Zenon DEF DrainEntry, Release
<1>27. CASE DrainDone
  BY <1>27, Zenon DEF DrainDone
<1>28. CASE UnloadCodelets
  BY <1>28, Zenon DEF UnloadCodelets, DestroyChannel
<1>29. CASE LeavePollLoop
  BY <1>29, Zenon DEF LeavePollLoop
<1>30. CASE MainStop
  BY <1>30, Zenon DEF MainStop
<1>31. CASE JbpfIoStop
  BY <1>31, Zenon DEF JbpfIoStop, DestroyChannel
<1>32. CASE Exited
  BY <1>32, Zenon DEF Exited, vars
<1>33. CASE UNCHANGED vars
  BY <1>33, Zenon DEF vars
<1> QED
  BY <1>1, <1>2, <1>3, <1>4, <1>5, <1>6, <1>7, <1>8, <1>9, <1>10, <1>11, <1>12,
     <1>13, <1>14, <1>15, <1>16, <1>17, <1>18, <1>19, <1>20, <1>21, <1>22,
     <1>23, <1>24, <1>25, <1>26, <1>27, <1>28, <1>29, <1>30, <1>31, <1>32,
     <1>33, Zenon
     DEF Next, ProcessBuffers, Worker, Start, Stop, Shutdown

\* The channel stays, and at most the first buffer is taken off the batch.
SameBatch ==
    /\ UNCHANGED <<load_id, channel_up>>
    /\ straddled => straddled'
    /\ bufs' = bufs \/ (bufs # <<>> /\ bufs' = Tail(bufs))

\* Such a step leaves every pointer alive.
LEMMA LiveFrame ==
    ASSUME CInv, [Next]_vars, ~WriteEntry, SameBatch
    PROVE  LiveInv'
<1> USE DEF SameBatch
<1> SUFFICES ASSUME ~straddled' PROVE LiveInv'
  BY Zenon DEF LiveInv
<1>1. bufs \in Seq(Pointer)
  BY Zenon DEF CInv, IInv, TypeOK, DispatcherTypeOK
<1>2. \A j \in 1..Len(bufs') : bufs'[j].load = load_id'
  <2>1. CASE bufs' = bufs
    BY <2>1, Zenon DEF CInv, LiveInv
  <2>2. CASE bufs # <<>> /\ bufs' = Tail(bufs)
    <3>1. Len(bufs) \in Nat /\ Len(bufs') = Len(bufs) - 1
      BY <1>1, <2>2
    <3>2. ASSUME NEW j \in 1..Len(bufs') PROVE bufs'[j].load = load_id'
      <4>1. j + 1 \in 1..Len(bufs) /\ j \in 1..(Len(bufs) - 1)
        BY <3>1
      <4>2. bufs'[j] = bufs[j+1]
        BY <1>1, <2>2, <4>1
      <4> QED
        BY <4>1, <4>2, Zenon DEF CInv, LiveInv
    <3> QED
      BY <3>2, Zenon
  <2> QED
    BY <2>1, <2>2, Zenon
<1>3. bufs' # <<>> => channel_up'
  <2>1. bufs' # <<>> => bufs # <<>>
    BY <1>1, Zenon
  <2> QED
    BY <2>1, Zenon DEF CInv, LiveInv
<1>4. \A i \in Written' : Live(Entry(i).buf)'
  <2>1. queue' = queue /\ Written' \subseteq Written
    BY WrittenFrame, Zenon DEF CInv
  <2> QED
    BY <2>1, Zenon DEF CInv, LiveInv, Live, Entry
<1> QED
  BY <1>2, <1>3, <1>4, Zenon DEF LiveInv

\* When the channel is replaced or torn down with no batch in flight, there is
\* no pointer left.
LEMMA LiveNone ==
    ASSUME CInv, [Next]_vars, ~WriteEntry, Drained \/ straddled,
           poll_pc # "publish",
           bufs = <<>>, bufs' = bufs, straddled => straddled'
    PROVE  LiveInv'
<1> SUFFICES ASSUME ~straddled' PROVE LiveInv'
  BY Zenon DEF LiveInv
<1>1. Written' = {}
  <2>1. queue_head = queue_tail
    BY Zenon DEF CInv, QuietInv
  <2>2. Written = {}
    BY <2>1 DEF Written, CInv, IInv, TypeOK
  <2> QED
    BY <2>2, WrittenFrame, Zenon DEF CInv
<1>2. 1..Len(bufs') = {}
  OBVIOUS
<1> QED
  BY <1>1, <1>2, Zenon DEF LiveInv

\* The pointers.
LEMMA LiveStep == CInv /\ [Next]_vars => LiveInv'
<1> SUFFICES ASSUME CInv, [Next]_vars PROVE LiveInv'
  BY Zenon
<1> USE DEF channelVars, dispatchVars, queueVars, lifeVars, smVars,
            pipelineVars, CtlFrame
<1>1. CASE WriteEntry
  <2> SUFFICES ASSUME ~straddled PROVE LiveInv'
    BY <1>1, Zenon DEF WriteEntry, LiveInv
  <2>1. /\ bufs' = bufs /\ load_id' = load_id /\ channel_up' = channel_up
        /\ bufs # <<>> /\ bufs \in Seq(Pointer)
    BY <1>1, Zenon
       DEF WriteEntry, CInv, IInv, TypeOK, DispatcherTypeOK, ThreadInv,
           InHandler
  <2>2. Live(Head(bufs))
    <3>1. Len(bufs) \in Nat /\ 1 \in 1..Len(bufs) /\ Head(bufs) = bufs[1]
      BY <2>1
    <3> QED
      BY <2>1, <3>1, Zenon DEF CInv, LiveInv, Live
  <2>0. /\ queue_head \in Nat /\ queue_tail \in Nat
        /\ queue \in [0..QUEUE_CAPACITY-1 -> QueueEntry \cup {EmptyEntry}]
    BY Zenon DEF CInv, IInv, TypeOK
  <2>3. /\ queue_tail <= queue_head
        /\ queue_head < queue_tail + QUEUE_CAPACITY
    BY <1>1, <2>0, CapacityAssumption DEF WriteEntry, CInv, IInv, CursorInv
  <2>4. Written' = queue_tail..queue_head
    BY <1>1, Zenon DEF WriteEntry, Written
  <2>5. ASSUME NEW i \in queue_tail..queue_head
        PROVE  Live(queue'[Idx(i)].buf)
    <3>1. CASE i = queue_head
      <4>1. queue'[Idx(i)].buf = Head(bufs)
        BY <1>1, <2>0, <2>3, <3>1, IdxRange, Zenon DEF WriteEntry
      <4> QED
        BY <2>2, <4>1, Zenon
    <3>2. CASE i # queue_head
      <4>1. i \in Nat /\ i < queue_head /\ queue_head < i + QUEUE_CAPACITY
        BY <2>0, <2>3, <3>2, CapacityAssumption
      <4>2. Idx(i) # Idx(queue_head)
        BY <2>0, <2>3, <4>1, IdxDistinct, Zenon
      <4>3. queue'[Idx(i)] = queue[Idx(i)]
        BY <1>1, <2>0, <2>3, <4>1, <4>2, IdxRange, Zenon DEF WriteEntry
      <4>4. i \in Written
        BY <1>1, <2>0, <2>3, <4>1 DEF Written, WriteEntry
      <4> QED
        BY <4>3, <4>4, Zenon DEF CInv, LiveInv, Entry
    <3> QED
      BY <3>1, <3>2, Zenon
  <2> QED
    BY <2>1, <2>4, <2>5, Zenon DEF CInv, LiveInv, Live, Entry, Idx
<1>2. CASE Poll /\ UNCHANGED pipelineVars
  <2> SUFFICES ASSUME ~straddled PROVE LiveInv'
    BY <1>2, Zenon DEF LiveInv
  <2>1. PICK n \in 1..Len(out_ring) :
          bufs' = [i \in 1..n |-> [load |-> load_id, buf |-> out_ring[i]]]
    BY <1>2, Zenon DEF Poll
  <2>2. Len(bufs') = n
    BY <2>1
  <2>3. \A j \in 1..Len(bufs') : bufs'[j].load = load_id'
    BY <1>2, <2>1, <2>2, Zenon DEF Poll
  <2>4. channel_up'
    <3>1. out_ring # <<>>
      BY <2>1
    <3> QED
      BY <1>2, <3>1, Zenon DEF Poll, CInv, SessionInv
  <2>5. queue' = queue /\ Written' \subseteq Written
    BY <1>2, Zenon DEF Poll, Written
  <2> QED
    BY <1>2, <2>3, <2>4, <2>5, Zenon DEF Poll, CInv, LiveInv, Live, Entry
<1>3. CASE LoadCodelets
  <2>1. CASE bufs = <<>>
    BY <1>3, <2>1, LiveNone, Zenon
       DEF LoadCodelets, WriteEntry, CInv, IInv, ThreadInv, InHandler, Drained
  <2>2. CASE bufs # <<>>
    <3>1. straddled'
      BY <1>3, <2>2, Zenon DEF LoadCodelets
    <3> QED
      BY <3>1, Zenon DEF LiveInv
  <2> QED
    BY <2>1, <2>2, Zenon
<1>4. CASE UnloadCodelets /\ DestroyChannel
           /\ straddled' = (straddled \/ bufs # <<>>)
  <2>1. CASE bufs = <<>>
    BY <1>4, <2>1, LiveNone, Zenon
       DEF UnloadCodelets, WriteEntry, CInv, IInv, ThreadInv, InHandler,
           Drained
  <2>2. CASE bufs # <<>>
    <3>1. straddled'
      BY <1>4, <2>2, Zenon
    <3> QED
      BY <3>1, Zenon DEF LiveInv
  <2> QED
    BY <2>1, <2>2, Zenon
<1>5. CASE JbpfIoStop
  BY <1>5, LiveNone, Zenon
     DEF JbpfIoStop, WriteEntry, CInv, SessionInv, Drained
<1>6. ASSUME Codelet \/ (Lookup /\ UNCHANGED pipelineVars) \/ UNCHANGED vars
      PROVE  SameBatch
  BY <1>6 DEF Codelet, CodeletOutput, Lookup, vars, SameBatch
<1>7. ASSUME (Discard /\ UNCHANGED pipelineVars) \/ DropBuf \/ PublishEntry
      PROVE  SameBatch
  BY <1>7, SMTT(30)
  DEF Discard, DropBuf, PublishEntry, Release, NextBuf, CInv, IInv, ThreadInv,
      InHandler, SameBatch
<1>8. ASSUME CfgCheck \/ SendShmCfg \/ SendSlotSel \/ MarkSent \/ QueueCheck
      PROVE  SameBatch
  BY <1>8, SMTT(30)
  DEF CfgCheck, SendShmCfg, SendSlotSel, SendMsg, MarkSent, QueueCheck,
      SameBatch
<1>9. ASSUME Worker
      PROVE  SameBatch
  BY <1>9, SMTT(30)
  DEF Worker, WorkerCheck, WorkerLoad, WorkerDispatch, WorkerRelease,
      WorkerAdvance, Release, SameBatch
<1>10. ASSUME SmStart \/ LoadFails \/ Boot \/ Register \/ SmUp
       PROVE  SameBatch
  BY <1>10, SMTT(30)
  DEF SmStart, LoadFails, Boot, Register, RegisterStream, SmUp, SameBatch
<1>11. ASSUME SmStop \/ SignalWorker \/ JoinWorker \/ DrainEntry \/ DrainDone
       PROVE  SameBatch
  BY <1>11, SMTT(30)
  DEF SmStop, SignalWorker, JoinWorker, DrainEntry, DrainDone, Release,
      SameBatch
<1>15. ASSUME Unregister
       PROVE  SameBatch
  BY <1>15, Zenon DEF Unregister, UnregisterStream, SameBatch
<1>12. ASSUME UnloadCodelets /\ UNCHANGED <<channelVars, straddled>>
       PROVE  SameBatch
  BY <1>12, Zenon DEF UnloadCodelets, SameBatch
<1>13. ASSUME LeavePollLoop \/ MainStop
       PROVE  SameBatch
  BY <1>13 DEF LeavePollLoop, MainStop, SameBatch
<1>14. CASE UnloadCodelets
  BY <1>4, <1>12, <1>14, <1>1, LiveFrame, Zenon DEF UnloadCodelets
<1> QED
  BY <1>1, <1>2, <1>3, <1>5, <1>6, <1>7, <1>8, <1>9, <1>10, <1>11, <1>13,
     <1>14, <1>15, LiveFrame, Zenon
     DEF Next, Dispatch, ProcessBuffers, Start, Stop, Shutdown, Exited

\* The constructor leaves a state that satisfies the invariant.
LEMMA InitCInv == Init => CInv
<1> SUFFICES ASSUME Init PROVE CInv
  BY Zenon
<1>1. IInv
  BY InitIInv, Zenon
<1>2. SessionInv /\ QuietInv /\ SentInv
  BY Zenon DEF Init, DispatcherInit, SessionInv, QuietInv, SentInv, InHandler
<1>3. LiveInv
  <2>1. Written = {} /\ 1..Len(bufs) = {} /\ bufs = <<>>
    BY DEF Init, DispatcherInit, Written
  <2> QED
    BY <2>1, Zenon DEF LiveInv
<1> QED
  BY <1>1, <1>2, <1>3, Zenon DEF CInv

\* The invariant of a clean stop holds in every state the pipeline reaches.
THEOREM CleanInductive == Spec => []CInv
<1>1. CInv /\ [Next]_vars => IInv'
  BY TypeStep, CursorStep, ThreadStep, ShownStep, EntryStep, Zenon
     DEF CInv, IInv
<1>2. CInv /\ [Next]_vars => CInv'
  BY <1>1, SessionStep, QuietStep, SentStep, LiveStep, Zenon DEF CInv
<1> QED
  BY <1>2, InitCInv, PTL DEF Spec

\* stop() leaves nothing behind unless a batch was in flight when its stream
\* went away: the queue is empty from the drain to the next start() and every
\* buffer the pipeline owns belongs to the codelet now loaded, for any pool,
\* capacity and number of sessions.
THEOREM StopIsClean == Spec => []CleanStop
<1>1. CInv => CleanStop
  <2> SUFFICES ASSUME CInv, ~straddled
               PROVE  /\ Drained => queue_head = queue_tail
                      /\ \A i \in Owned : Live(Entry(i).buf)
    BY Zenon DEF CleanStop
  <2>1. Drained => queue_head = queue_tail
    BY Zenon DEF CInv, QuietInv
  <2>2. Owned \subseteq Written
    BY DEF Owned, Released, Written, CInv, IInv, TypeOK, CursorInv
  <2> QED
    BY <2>1, <2>2, Zenon DEF CInv, LiveInv
<1> QED
  BY <1>1, CleanInductive, PTL

\* Unless a batch was in flight when its stream went away, shm_cfg_sent_ is
\* true in a session only when this session's codelet has been sent both
\* e3_shm_cfg and e3_slot_sel.
THEOREM CfgReachesThisLoad == Spec => []CfgSentToThisLoad
<1>1. CInv => CfgSentToThisLoad
  BY Zenon DEF CInv, IInv, TypeOK, SentInv, CfgSentToThisLoad
<1> QED
  BY <1>1, CleanInductive, PTL
-----------------------------------------------------------------------------
(* Refinement: start() and stop() keep the session contract of a pipeline.      *)

\* How far a session has come: the worker lives as long as running_ is set, and
\* the stream is registered except in the last step of start() and after the
\* first of stop().
StepsInv ==
    /\ running => worker_pc # "none"
    /\ running /\ ctl_pc \notin {"register", "signal"} => registered
    /\ ctl_pc \in {"register", "signal"} => ~registered

sessionVars == <<Inside, codelets_loaded, running, worker_pc # "none", registered>>

\* Every step is a step of the session contract, or leaves alone what it
\* speaks of, and keeps the session in step with start() and stop().
LEMMA SessionRefined ==
    ASSUME CInv, StepsInv, [Next]_vars
    PROVE  [Session!Next]_sessionVars /\ StepsInv'
<1>0. ThreadInv /\ (registered => running /\ ctl_pc \in {"idle", "sm_up", "unregister"})
  BY Zenon DEF CInv, IInv, SessionInv
<1> USE DEF channelVars, dispatchVars, queueVars, lifeVars, smVars, pipelineVars,
            CtlFrame, sessionVars, StepsInv, Inside
<1>1. CASE SmStart
  <2>1. Session!StartCalled \/ UNCHANGED sessionVars
    BY <1>1, <1>0, Zenon DEF SmStart, Session!StartCalled, ThreadInv
  <2> QED
    BY <1>1, <2>1, Zenon DEF SmStart, Session!Next
<1>2. CASE LoadCodelets
  <2>1. Session!Load
    BY <1>2, <1>0, Zenon DEF LoadCodelets, Session!Load, Session!Down, ThreadInv
  <2> QED
    BY <1>2, <2>1, Zenon DEF LoadCodelets, Session!Next
<1>3. CASE LoadFails
  <2>1. Session!StartReturns
    BY <1>3, <1>0, Zenon
       DEF LoadFails, Session!StartReturns, Session!Down, ThreadInv
  <2> QED
    BY <1>3, <2>1, Zenon DEF LoadFails, Session!Next
<1>4. CASE Boot
  <2>1. Session!Boot
    BY <1>4, <1>0, Zenon DEF Boot, Session!Boot, Session!Down, ThreadInv
  <2> QED
    BY <1>4, <1>0, <2>1, Zenon DEF Boot, Session!Next, ThreadInv
<1>5. CASE Register
  <2>1. Session!Register
    BY <1>5, <1>0, Zenon DEF Register, RegisterStream, Session!Register, ThreadInv
  <2> QED
    BY <1>5, <2>1, Zenon DEF Register, RegisterStream, Session!Next
<1>6. CASE SmUp
  BY <1>6, <1>0, Zenon DEF SmUp, ThreadInv
<1>7. CASE SmStop
  <2>1. Session!StopCalled \/ UNCHANGED sessionVars
    BY <1>7, Zenon DEF SmStop, Session!StopCalled
  <2> QED
    BY <1>7, <2>1, Zenon DEF SmStop, Session!Next
<1>8. CASE Unregister
  <2>1. Session!Unregister
    BY <1>8, <1>0, Zenon
       DEF Unregister, UnregisterStream, Session!Unregister, Session!Up, ThreadInv
  <2> QED
    BY <1>8, <2>1, Zenon DEF Unregister, UnregisterStream, Session!Next
<1>9. CASE SignalWorker
  <2>1. Session!SignalWorker
    BY <1>9, <1>0, Zenon DEF SignalWorker, Session!SignalWorker, ThreadInv
  <2> QED
    BY <1>9, <2>1, Zenon DEF SignalWorker, Session!Next
<1>10. CASE JoinWorker \/ DrainEntry
  <2>1. CASE JoinWorker
    BY <2>1, <1>0, Zenon DEF JoinWorker, ThreadInv
  <2>2. CASE DrainEntry
    BY <2>2, <1>0, Zenon DEF DrainEntry, ThreadInv
  <2> QED
    BY <1>10, <2>1, <2>2, Zenon
<1>11. CASE DrainDone \/ UnloadCodelets
  <2>1. CASE DrainDone
    <3>1. Session!StopReturns \/ UNCHANGED sessionVars
      BY <2>1, <1>0, Zenon DEF DrainDone, Session!StopReturns, Session!Down, ThreadInv
    <3> QED
      BY <2>1, <1>0, <3>1, Zenon DEF DrainDone, Session!Next, ThreadInv
  <2>2. CASE UnloadCodelets
    <3>1. Session!StopReturns
      BY <2>2, <1>0, Zenon
         DEF UnloadCodelets, Session!StopReturns, Session!Down, ThreadInv
    <3> QED
      BY <2>2, <1>0, <3>1, Zenon DEF UnloadCodelets, Session!Next, ThreadInv
  <2> QED
    BY <1>11, <2>1, <2>2, Zenon
<1>12. CASE WorkerCheck
  <2>1. CASE running
    BY <1>12, <2>1, Zenon DEF WorkerCheck
  <2>2. CASE ~running
    <3>1. ctl_pc = "join"
      BY <1>12, <1>0, <2>2, Zenon DEF WorkerCheck, ThreadInv, CInv, IInv, TypeOK
    <3>2. Session!WorkerExits
      BY <1>12, <2>2, <3>1, Zenon DEF WorkerCheck, Session!WorkerExits
    <3> QED
      BY <1>12, <2>2, <3>2, Zenon DEF WorkerCheck, Session!Next
  <2> QED
    BY <2>1, <2>2, Zenon
<1>13. CASE WorkerLoad \/ WorkerDispatch \/ WorkerRelease \/ WorkerAdvance
  <2>1. UNCHANGED <<lifeVars, registered>>
    BY <1>13, Zenon DEF WorkerLoad, WorkerDispatch, WorkerRelease, WorkerAdvance
  <2>2. worker_pc # "none" /\ worker_pc' # "none"
    BY <1>13, Zenon DEF WorkerLoad, WorkerDispatch, WorkerRelease, WorkerAdvance
  <2> QED
    BY <2>1, <2>2, Zenon
<1> DEFINE Still == UNCHANGED <<running, codelets_loaded, ctl_pc, registered, worker_pc>>
<1>q. ASSUME Still PROVE [Session!Next]_sessionVars /\ StepsInv'
  BY <1>q, Zenon
<1>14. CASE Codelet
  <2>1. Still
    BY <1>14, Zenon DEF Codelet
  <2> QED
    BY <1>q, <2>1, Zenon
<1>15. CASE Dispatch
  <2>1. Still
    BY <1>15, Zenon DEF Dispatch, Poll, Lookup, Discard, NextBuf
  <2> QED
    BY <1>q, <2>1, Zenon
<1>16. CASE ProcessBuffers
  <2>1. Still
    BY <1>16, Zenon
       DEF ProcessBuffers, CfgCheck, SendShmCfg, SendSlotSel, SendMsg, MarkSent,
           QueueCheck, DropBuf, WriteEntry, PublishEntry, NextBuf
  <2> QED
    BY <1>q, <2>1, Zenon
<1>17. CASE MainStop
  <2>1. Session!StopCalled \/ UNCHANGED sessionVars
    BY <1>17, Zenon DEF MainStop, Session!StopCalled
  <2> QED
    BY <1>17, <2>1, Zenon DEF MainStop, Session!Next
<1>18. CASE LeavePollLoop \/ JbpfIoStop \/ Exited \/ UNCHANGED vars
  <2>1. Still
    BY <1>18, Zenon DEF LeavePollLoop, JbpfIoStop, Exited, vars
  <2> QED
    BY <1>q, <2>1, Zenon
<1> QED
  BY <1>1, <1>2, <1>3, <1>4, <1>5, <1>6, <1>7, <1>8, <1>9, <1>10, <1>11, <1>12,
     <1>13, <1>14, <1>15, <1>16, <1>17, <1>18, Zenon
     DEF Next, Worker, Start, Stop, Shutdown

\* SlotIqPipeline keeps the session contract, whatever the poll thread, the
\* worker and the codelet do meanwhile: start() registers the stream last and
\* over a live worker, stop() returns only when the worker has ended, and
\* codelets are loaded and unloaded only in between.
THEOREM SlotKeepsSession == Spec => KeepsSession
<1>1. Init => Session!Init /\ StepsInv
  BY Zenon DEF Init, DispatcherInit, Session!Init, Session!Down, Inside, StepsInv
<1> QED
  BY <1>1, CleanInductive, SessionRefined, PTL
  DEF Spec, KeepsSession, Session!Spec, Session!sessionVars, sessionVars

-----------------------------------------------------------------------------
(* Progress: what each step of a stop() brings nearer. *)

\* The steps stop() still has before it ...
StopRank ==
    IF Inside = "stop"
    THEN [unregister |-> 5, signal |-> 4, join |-> 3, drain |-> 2, unload |-> 1][ctl_pc]
    ELSE 0

\* ... those of the worker's round it joins ...
WorkerLeft ==
    [none |-> 0, check |-> 1, advance |-> 2, release |-> 3, dispatch |-> 4,
     load |-> 5][worker_pc]

\* ... and within its join and its drain.
StopLeft ==
    IF ctl_pc = "join" THEN WorkerLeft
    ELSE IF ctl_pc = "drain" THEN drain_head - drain_tail
    ELSE 0

Sooner ==
    \/ StopRank' < StopRank
    \/ StopRank' = StopRank /\ StopLeft' < StopLeft

NoLater == Sooner \/ (StopRank' = StopRank /\ StopLeft' = StopLeft)

\* While stop() is in progress no step of any thread sets it back: not the
\* poll thread filling the queue that is being drained, not the codelet.  Each
\* step of stop() itself, and each step of the worker it joins, brings its
\* return nearer.
StopProgress ==
    [][Inside = "stop" =>
          /\ NoLater
          /\ Stop \/ (Worker /\ ctl_pc = "join") => Sooner]_vars

\* What is left of a stop() is a pair of natural numbers.
StopBounded == StopRank \in 0 .. 5 /\ StopLeft \in Nat

\* The measure's values.
LEMMA StopMeasured == IInv => StopBounded
<1> SUFFICES ASSUME IInv PROVE StopBounded
  BY Zenon
<1>1. StopRank \in 0 .. 5
  BY DEF StopRank, Inside
<1>2. worker_pc \in {"none", "check", "advance", "release", "dispatch", "load"}
  BY Zenon DEF IInv, TypeOK
<1>3. WorkerLeft \in Nat
  BY <1>2 DEF WorkerLeft
<1>4. ctl_pc = "drain" => drain_head - drain_tail \in Nat
  BY DEF IInv, TypeOK, CursorInv
<1> QED
  BY <1>1, <1>3, <1>4 DEF StopBounded, StopLeft

\* A step that leaves stop(), the worker and the drain's cursors alone.
LEMMA StopWaits ==
    ASSUME UNCHANGED <<ctl_pc, worker_pc, drain_head, drain_tail>>
    PROVE  NoLater
<1>1. StopRank' = StopRank
  BY Zenon DEF StopRank, Inside
<1>2. StopLeft' = StopLeft
  BY Zenon DEF StopLeft, WorkerLeft
<1> QED
  BY <1>1, <1>2, Zenon DEF NoLater

\* Each step of stop() brings its return nearer.
LEMMA StopAdvances ==
    ASSUME IInv, Stop
    PROVE  Sooner
<1>1. CASE Unregister
  <2>1. ctl_pc = "unregister" /\ ctl_pc' = "signal"
    BY <1>1, Zenon DEF Unregister
  <2> QED
    BY <2>1 DEF Sooner, StopRank, Inside
<1>2. CASE SignalWorker
  <2>1. ctl_pc = "signal" /\ ctl_pc' = "join"
    BY <1>2, Zenon DEF SignalWorker
  <2> QED
    BY <2>1 DEF Sooner, StopRank, Inside
<1>3. CASE JoinWorker
  <2>1. ctl_pc = "join" /\ ctl_pc' = "drain"
    BY <1>3, Zenon DEF JoinWorker
  <2> QED
    BY <2>1 DEF Sooner, StopRank, Inside
<1>4. CASE DrainEntry
  <2>1. ctl_pc = "drain" /\ ctl_pc' = "drain"
    BY <1>4, Zenon DEF DrainEntry
  <2>2. StopRank' = StopRank
    BY <2>1 DEF StopRank, Inside
  <2>3. drain_head' = drain_head /\ drain_tail' = drain_tail + 1
    BY <1>4, Zenon DEF DrainEntry
  <2>4. drain_head \in Nat /\ drain_tail \in Nat
    BY Zenon DEF IInv, TypeOK
  <2>5. StopLeft' < StopLeft
    BY <2>1, <2>3, <2>4 DEF StopLeft
  <2> QED
    BY <2>2, <2>5, Zenon DEF Sooner
<1>5. CASE DrainDone
  <2>1. ctl_pc = "drain" /\ ctl_pc' \in {"unload", "idle"}
    BY <1>5, Zenon DEF DrainDone
  <2> QED
    BY <2>1 DEF Sooner, StopRank, Inside
<1>6. CASE UnloadCodelets
  <2>1. ctl_pc = "unload" /\ ctl_pc' = "idle"
    BY <1>6, Zenon DEF UnloadCodelets
  <2> QED
    BY <2>1 DEF Sooner, StopRank, Inside
<1> QED
  BY <1>1, <1>2, <1>3, <1>4, <1>5, <1>6, Zenon DEF Stop

\* The worker, told to end, is never more than the rest of its round away.
LEMMA WorkerLeaves ==
    ASSUME IInv, Worker, ctl_pc = "join"
    PROVE  Sooner
<1>1. ctl_pc' = ctl_pc
  BY Zenon DEF Worker, WorkerCheck, WorkerLoad, WorkerDispatch, WorkerRelease,
               WorkerAdvance, lifeVars
<1>2. StopRank' = StopRank
  BY <1>1, Zenon DEF StopRank, Inside
<1>3. \/ worker_pc = "check" /\ worker_pc' = "none"
      \/ worker_pc = "load" /\ worker_pc' \in {"check", "dispatch"}
      \/ worker_pc = "dispatch" /\ worker_pc' = "release"
      \/ worker_pc = "release" /\ worker_pc' = "advance"
      \/ worker_pc = "advance" /\ worker_pc' = "check"
  BY Zenon DEF Worker, WorkerCheck, WorkerLoad, WorkerDispatch, WorkerRelease,
               WorkerAdvance, IInv, ThreadInv
<1>4. WorkerLeft' < WorkerLeft
  BY <1>3 DEF WorkerLeft
<1>5. StopLeft' = WorkerLeft' /\ StopLeft = WorkerLeft
  BY <1>1, Zenon DEF StopLeft
<1> QED
  BY <1>2, <1>4, <1>5, Zenon DEF Sooner

\* Every stop() is on its way to its return, whatever the other threads do:
\* its progress is measured by StopRank and StopLeft, which no step raises and
\* which its own steps, and those of the worker it waits for, lower.  That it
\* takes these steps is what the run under fairness adds (StopReturns).
THEOREM StopMakesProgress == Spec => StopProgress /\ []StopBounded
<1>1. ASSUME IInv, [Next]_vars, Inside = "stop"
      PROVE  /\ NoLater
             /\ Stop \/ (Worker /\ ctl_pc = "join") => Sooner
  <2>1. Stop => Sooner
    BY <1>1, StopAdvances, Zenon
  <2>2. Worker /\ ctl_pc = "join" => Sooner
    BY <1>1, WorkerLeaves, Zenon
  <2>3. ASSUME Worker /\ ctl_pc # "join" PROVE NoLater
    <3>1. UNCHANGED <<ctl_pc, drain_head, drain_tail>>
      BY <2>3, Zenon
         DEF Worker, WorkerCheck, WorkerLoad, WorkerDispatch, WorkerRelease,
             WorkerAdvance, lifeVars
    <3>2. StopRank' = StopRank
      BY <3>1, Zenon DEF StopRank, Inside
    <3>3. StopLeft' = StopLeft
      BY <2>3, <3>1, Zenon DEF StopLeft
    <3> QED
      BY <3>2, <3>3, Zenon DEF NoLater
  <2>4. ctl_pc \in {"unregister", "signal", "join", "drain", "unload"}
    BY <1>1, Zenon DEF Inside
  <2>5. ~(SmStart \/ Start \/ SmStop \/ MainStop)
    BY <2>4, Zenon
       DEF SmStart, SmStop, MainStop, Start, LoadCodelets, LoadFails, Boot,
           Register, SmUp
  <2>6. ASSUME Codelet \/ Dispatch \/ LeavePollLoop \/ JbpfIoStop \/ Exited
                \/ UNCHANGED vars
        PROVE  NoLater
    <3>1. UNCHANGED <<ctl_pc, worker_pc, drain_head, drain_tail>>
      BY <2>6, Zenon
         DEF Codelet, Dispatch, LeavePollLoop, JbpfIoStop, Exited, vars,
             pipelineVars, lifeVars
    <3> QED
      BY <3>1, StopWaits, Zenon
  <2>7. ASSUME ProcessBuffers PROVE NoLater
    <3>1. UNCHANGED <<ctl_pc, worker_pc, drain_head, drain_tail>>
      BY <2>7, Zenon
         DEF ProcessBuffers, CfgCheck, SendShmCfg, SendSlotSel, SendMsg, MarkSent,
             QueueCheck, DropBuf, WriteEntry, PublishEntry, lifeVars,
             pipelineVars
    <3> QED
      BY <3>1, StopWaits, Zenon
  <2>8. NoLater
    BY <1>1, <2>1, <2>2, <2>3, <2>5, <2>6, <2>7, Zenon
       DEF Next, Shutdown, NoLater
  <2> QED
    BY <2>1, <2>2, <2>8, Zenon
<1> QED
  BY <1>1, Inductive, StopMeasured, PTL DEF Spec, StopProgress
=============================================================================
