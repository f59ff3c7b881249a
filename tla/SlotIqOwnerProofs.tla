------------------------- MODULE SlotIqOwnerProofs --------------------------
(***************************************************************************)
(* Proofs about SlotIqPipeline, continued: who holds a buffer.  Whatever   *)
(* poll thread, worker, stop() and codelet do to each other, and whether   *)
(* or not a batch outlives its stream, every buffer of the channel is in   *)
(* one place, and a queued entry keeps the slot it was made from.          *)
(***************************************************************************)
EXTENDS SlotIqPipelineProofs, FiniteSetTheorems

\* The buffers of the current channel, by their places.
InRing(b, i) == i \in 1..Len(out_ring) /\ out_ring[i] = b
InBatch(b, i) ==
    i \in 1..Len(bufs) /\ bufs[i].load = load_id /\ bufs[i].buf = b
InQueue(b, i) ==
    i \in Owned /\ Entry(i).buf.load = load_id /\ Entry(i).buf.buf = b

\* Buffer b is in one place: somewhere, nowhere twice, and not in two kinds.
Single(b) ==
    /\ \/ b \in free_bufs
       \/ \E i \in Int : InRing(b, i) \/ InBatch(b, i) \/ InQueue(b, i)
    /\ b \in free_bufs =>
          \A i \in Int : ~InRing(b, i) /\ ~InBatch(b, i) /\ ~InQueue(b, i)
    /\ \A i, j \in Int :
          /\ InRing(b, i) /\ InRing(b, j) => i = j
          /\ InBatch(b, i) /\ InBatch(b, j) => i = j
          /\ InQueue(b, i) /\ InQueue(b, j) => i = j
          /\ ~(InRing(b, i) /\ InBatch(b, j))
          /\ ~(InRing(b, i) /\ InQueue(b, j))
          /\ ~(InBatch(b, i) /\ InQueue(b, j))

OwnerInv == channel_up => \A b \in Buffers : Single(b)

\* The entries that are owned, or written and about to be.
Kept == Released..(IF poll_pc = "publish" THEN queue_head ELSE queue_head - 1)

\* No pointer is of a load still to come.
AgeInv ==
    /\ \A j \in 1..Len(bufs) : bufs[j].load <= load_id
    /\ \A i \in Kept : Entry(i).buf.load <= load_id

\* Between its two stores the poll thread still has the buffer in its batch.
NextEntryInv == poll_pc = "publish" => Entry(queue_head).buf = Head(bufs)

StableInv ==
    \A i \in Kept :
        Live(Entry(i).buf) => slot_in[Entry(i).buf.buf] = Entry(i).recv

OInv == CInv /\ OwnerInv /\ AgeInv /\ NextEntryInv /\ StableInv

-----------------------------------------------------------------------------
\* What the cursors say of the entries kept.
LEMMA KeptWritten ==
    ASSUME IInv
    PROVE  /\ queue_head \in Nat /\ Released \in Nat
           /\ queue_tail <= Released /\ Released <= queue_head
           /\ Owned \subseteq Kept /\ Kept \subseteq Written
           /\ \A i \in Kept : i \in Nat /\ Entry(i) \in QueueEntry
                              /\ Entry(i).buf \in Pointer
<1>1. /\ queue_head \in Nat /\ Released \in Nat
      /\ queue_tail <= Released /\ Released <= queue_head
  BY DEF IInv, TypeOK, CursorInv, ThreadInv, Released
<1>2. Owned \subseteq Kept /\ Kept \subseteq Written
  BY <1>1 DEF IInv, TypeOK, Owned, Kept, Written
<1>3. \A i \in Kept : Entry(i) \in QueueEntry
  BY <1>2, Zenon DEF IInv, EntryInv
<1> QED
  BY <1>1, <1>2, <1>3 DEF Kept, QueueEntry

\* The first element of a batch, and the rest of it.
LEMMA BatchFacts ==
    ASSUME NEW q \in Seq(Pointer), q # <<>>
    PROVE  /\ Len(q) \in Nat /\ Len(q) >= 1
           /\ Head(q) = q[1] /\ q[1] \in Pointer
           /\ Tail(q) \in Seq(Pointer) /\ Len(Tail(q)) = Len(q) - 1
           /\ \A i \in 1..Len(q)-1 : Tail(q)[i] = q[i+1]
  OBVIOUS

-----------------------------------------------------------------------------
(* The steps that move a buffer. *)

\* What Single depends on, and the descriptors in the buffers.
held == <<channel_up, load_id, free_bufs, out_ring, bufs, queue, Released,
          queue_head, slot_in>>

\* The codelet takes a buffer from the pool and submits it.
LEMMA CodeletOwner == OInv /\ Codelet => OwnerInv'
<1> SUFFICES ASSUME OInv, Codelet, channel_up, NEW b \in Buffers
             PROVE  Single(b)'
  BY Zenon DEF OwnerInv, Codelet, CodeletOutput
<1>1. PICK c \in free_bufs :
         /\ free_bufs' = free_bufs \ {c}
         /\ out_ring' = Append(out_ring, c)
  BY Zenon DEF Codelet, CodeletOutput
<1>2. /\ Single(b) /\ out_ring \in Seq(Buffers) /\ c \in Buffers
      /\ Len(out_ring) \in Nat
  BY <1>1 DEF OInv, CInv, OwnerInv, IInv, TypeOK, DispatcherTypeOK
<1>3. \A i \in Int : InRing(b, i)' <=> InRing(b, i)
                                      \/ (i = Len(out_ring) + 1 /\ b = c)
  BY <1>1, <1>2 DEF InRing
<1>4. UNCHANGED <<load_id, bufs, queue, queue_head, queue_tail, ctl_pc,
                  worker_pc, drain_tail>>
  BY Zenon
     DEF Codelet, CodeletOutput, dispatchVars, pipelineVars, queueVars,
         lifeVars
<1>5. \A i \in Int : /\ InBatch(b, i)' <=> InBatch(b, i)
                     /\ InQueue(b, i)' <=> InQueue(b, i)
  BY <1>4, Zenon DEF InBatch, InQueue, Owned, Released, Entry
<1>6. ~InRing(b, Len(out_ring) + 1)
  BY <1>2 DEF InRing
<1> QED
  BY <1>1, <1>2, <1>3, <1>5, <1>6 DEF Single

\* The poll thread takes a batch off the ring.
LEMMA PollOwner == OInv /\ Poll /\ UNCHANGED pipelineVars => OwnerInv'
<1> SUFFICES ASSUME OInv, Poll, UNCHANGED pipelineVars, channel_up,
                    NEW b \in Buffers
             PROVE  Single(b)'
  BY Zenon DEF OwnerInv, Poll
<1>1. PICK n \in 1..Len(out_ring) :
         /\ bufs' = [i \in 1..n |-> [load |-> load_id, buf |-> out_ring[i]]]
         /\ out_ring' = SubSeq(out_ring, n + 1, Len(out_ring))
  BY Zenon DEF Poll
<1>2. /\ Single(b) /\ out_ring \in Seq(Buffers) /\ Len(out_ring) \in Nat
      /\ bufs = <<>> /\ UNCHANGED <<load_id, free_bufs>>
  BY DEF Poll, OInv, CInv, OwnerInv, IInv, TypeOK, DispatcherTypeOK, SessionInv
<1>3. Len(bufs') = n /\ Len(out_ring') = Len(out_ring) - n
      /\ \A i \in 1..Len(out_ring)-n : out_ring'[i] = out_ring[i+n]
  BY <1>1, <1>2
<1>4. \A i \in Int : InRing(b, i)' <=> InRing(b, i + n) /\ i >= 1
  BY <1>1, <1>2, <1>3 DEF InRing
<1>5. \A i \in Int : InBatch(b, i)' <=> InRing(b, i) /\ i <= n
  BY <1>1, <1>2, <1>3 DEF InBatch, InRing
<1>6. \A i \in Int : InQueue(b, i)' <=> InQueue(b, i)
  BY <1>2, Zenon
     DEF InQueue, Owned, Released, Entry, pipelineVars, queueVars, lifeVars
<1>7. \A i \in Int : ~InBatch(b, i)
  BY <1>2 DEF InBatch
<1>9. (\E i \in Int : InRing(b, i)) =>
          \E i \in Int : InRing(b, i)' \/ InBatch(b, i)'
  <2> SUFFICES ASSUME NEW i \in Int, InRing(b, i)
               PROVE  \E j \in Int : InRing(b, j)' \/ InBatch(b, j)'
    BY Zenon
  <2>1. CASE i <= n
    BY <1>5, <2>1, Zenon
  <2>2. CASE i > n
    <3>1. i - n \in Int /\ (i - n) + n = i /\ i - n >= 1
      BY <2>2
    <3>2. InRing(b, i - n)'
      BY <1>4, <3>1, Zenon
    <3> QED
      BY <3>1, <3>2, Zenon
  <2> QED
    BY <2>1, <2>2
<1>10. \A i, j \in Int : InRing(b, i)' /\ InRing(b, j)' => i = j
  BY <1>2, <1>4 DEF Single
<1>11. \A i, j \in Int : ~(InRing(b, i)' /\ InBatch(b, j)')
  BY <1>2, <1>4, <1>5 DEF Single
<1>12. \A i \in Int : InRing(b, i)' => \E j \in Int : InRing(b, j)
  BY <1>4
<1> QED
  BY <1>2, <1>5, <1>6, <1>7, <1>9, <1>10, <1>11, <1>12, Zenon DEF Single

\* A buffer of the batch goes back to the pool: dispatch() without a handler,
\* or process_buffers() with a full queue.
LEMMA ReleaseHeadOwner ==
    ASSUME OInv, bufs # <<>>, Release(Head(bufs)), bufs' = Tail(bufs),
           UNCHANGED <<queue, queue_head, Released>>
    PROVE  OwnerInv'
<1> SUFFICES ASSUME channel_up, NEW b \in Buffers PROVE Single(b)'
  BY Zenon DEF OwnerInv, Release
<1>1. /\ Single(b) /\ bufs \in Seq(Pointer)
      /\ UNCHANGED <<load_id, channel_up, out_ring>>
      /\ free_bufs' = IF Live(Head(bufs)) THEN free_bufs \cup {Head(bufs).buf}
                                          ELSE free_bufs
  BY Zenon DEF Release, OInv, CInv, OwnerInv, IInv, TypeOK, DispatcherTypeOK
<1>2. /\ Len(bufs) \in Nat /\ Len(bufs) >= 1 /\ Head(bufs) = bufs[1]
      /\ Len(bufs') = Len(bufs) - 1
      /\ \A i \in 1..Len(bufs)-1 : bufs'[i] = bufs[i+1]
  BY <1>1, BatchFacts, Zenon
<1>3. b \in free_bufs' <=> b \in free_bufs \/ InBatch(b, 1)
  BY <1>1, <1>2 DEF InBatch, Live
<1>4. \A i \in Int : InBatch(b, i)' <=> InBatch(b, i + 1) /\ i >= 1
  BY <1>1, <1>2 DEF InBatch
<1>5. \A i \in Int : /\ InRing(b, i)' <=> InRing(b, i)
                     /\ InQueue(b, i)' <=> InQueue(b, i)
  BY <1>1, Zenon DEF InRing, InQueue, Owned, Entry
<1>6. ASSUME NEW i \in Int, InBatch(b, i)
      PROVE  InBatch(b, 1) \/ \E j \in Int : InBatch(b, j)'
  <2>1. i >= 1 /\ i - 1 \in Int /\ (i - 1) + 1 = i
    BY <1>6 DEF InBatch
  <2>2. i # 1 => InBatch(b, i - 1)'
    BY <1>4, <1>6, <2>1
  <2> QED
    BY <1>6, <2>1, <2>2, Zenon
<1>7. \A i, j \in Int : InBatch(b, i)' /\ InBatch(b, j)' => i = j
  BY <1>1, <1>4 DEF Single
<1>8. \A i \in Int : ~(InBatch(b, 1) /\ InBatch(b, i)')
  BY <1>1, <1>4 DEF Single
<1>9. \A i \in Int : InBatch(b, i)' => \E j \in Int : InBatch(b, j)
  BY <1>4
<1> QED
  BY <1>1, <1>3, <1>5, <1>6, <1>7, <1>8, <1>9 DEF Single

\* The poll thread hands the first buffer of its batch to the queue.
LEMMA PublishOwner == OInv /\ PublishEntry => OwnerInv'
<1> SUFFICES ASSUME OInv, PublishEntry, channel_up, NEW b \in Buffers
             PROVE  Single(b)'
  BY Zenon DEF OwnerInv, PublishEntry, channelVars
<1>1. /\ Single(b) /\ bufs \in Seq(Pointer) /\ bufs # <<>>
      /\ bufs' = Tail(bufs) /\ queue_head' = queue_head + 1
      /\ Entry(queue_head).buf = Head(bufs)
      /\ UNCHANGED <<load_id, free_bufs, out_ring, queue, Released>>
  BY Zenon
     DEF PublishEntry, NextBuf, channelVars, lifeVars, Released, NextEntryInv,
         OInv, CInv, OwnerInv, IInv, TypeOK, DispatcherTypeOK, ThreadInv,
         InHandler
<1>2. /\ Len(bufs) \in Nat /\ Len(bufs) >= 1 /\ Head(bufs) = bufs[1]
      /\ Len(bufs') = Len(bufs) - 1
      /\ \A i \in 1..Len(bufs)-1 : bufs'[i] = bufs[i+1]
  BY <1>1, BatchFacts, Zenon
<1>3. queue_head \in Nat /\ Released \in Nat /\ Released <= queue_head
  BY KeptWritten, Zenon DEF OInv, CInv
<1>4. \A i \in Int : InQueue(b, i)' <=>
          InQueue(b, i) \/ (i = queue_head /\ InBatch(b, 1))
  BY <1>1, <1>2, <1>3 DEF InQueue, InBatch, Owned, Entry
<1>5. \A i \in Int : InBatch(b, i)' <=> InBatch(b, i + 1) /\ i >= 1
  BY <1>1, <1>2 DEF InBatch
<1>6. \A i \in Int : InRing(b, i)' <=> InRing(b, i)
  BY <1>1, Zenon DEF InRing
<1>7. ASSUME NEW i \in Int, InBatch(b, i)
      PROVE  InBatch(b, 1) \/ \E j \in Int : InBatch(b, j)'
  <2>1. i >= 1 /\ i - 1 \in Int /\ (i - 1) + 1 = i
    BY <1>7 DEF InBatch
  <2>2. i # 1 => InBatch(b, i - 1)'
    BY <1>5, <1>7, <2>1
  <2> QED
    BY <1>7, <2>1, <2>2, Zenon
<1>8. \A i, j \in Int : InBatch(b, i)' /\ InBatch(b, j)' => i = j
  BY <1>1, <1>5 DEF Single
<1>9. \A i \in Int : ~(InBatch(b, 1) /\ InBatch(b, i)')
  BY <1>1, <1>5 DEF Single
<1>10. \A i \in Int : InBatch(b, i)' => \E j \in Int : InBatch(b, j)
  BY <1>5
<1> QED
  BY <1>1, <1>3, <1>4, <1>6, <1>7, <1>8, <1>9, <1>10 DEF Single

\* The worker, or stop()'s drain, gives the oldest entry's buffer back.
LEMMA ReleaseEntryOwner ==
    ASSUME OInv, Released < queue_head, Release(Entry(Released).buf),
           Released' = Released + 1, UNCHANGED <<bufs, queue, queue_head>>
    PROVE  OwnerInv'
<1> SUFFICES ASSUME channel_up, NEW b \in Buffers PROVE Single(b)'
  BY Zenon DEF OwnerInv, Release
<1>1. /\ Single(b)
      /\ UNCHANGED <<load_id, channel_up, out_ring>>
      /\ free_bufs' = IF Live(Entry(Released).buf)
                      THEN free_bufs \cup {Entry(Released).buf.buf}
                      ELSE free_bufs
  BY Zenon DEF Release, OInv, OwnerInv
<1>2. queue_head \in Nat /\ Released \in Nat
  BY KeptWritten, Zenon DEF OInv, CInv
<1>3. b \in free_bufs' <=> b \in free_bufs \/ InQueue(b, Released)
  BY <1>1, <1>2 DEF InQueue, Owned, Live
<1>4. \A i \in Int : InQueue(b, i)' <=> InQueue(b, i) /\ i # Released
  BY <1>1, <1>2 DEF InQueue, Owned, Entry
<1>5. \A i \in Int : /\ InRing(b, i)' <=> InRing(b, i)
                     /\ InBatch(b, i)' <=> InBatch(b, i)
  BY <1>1, Zenon DEF InRing, InBatch
<1> QED
  BY <1>1, <1>2, <1>3, <1>4, <1>5 DEF Single

\* A new channel has all its buffers in the pool, and no older pointer is one
\* of them.
LEMMA CreateOwner ==
    ASSUME OInv, CreateChannel, UNCHANGED <<bufs, queue, queue_head, Released>>
    PROVE  OwnerInv'
<1> SUFFICES ASSUME NEW b \in Buffers PROVE Single(b)'
  BY Zenon DEF OwnerInv
<1>1. /\ load_id' = load_id + 1 /\ free_bufs' = Buffers /\ out_ring' = <<>>
      /\ load_id \in Int
  BY DEF CreateChannel, OInv, CInv, IInv, TypeOK, DispatcherTypeOK
<1>2. \A i \in Int : ~InRing(b, i)'
  BY <1>1 DEF InRing
<1>3. \A i \in Int : ~InBatch(b, i)'
  <2>1. bufs \in Seq(Pointer)
    BY Zenon DEF OInv, CInv, IInv, TypeOK, DispatcherTypeOK
  <2>2. \A j \in 1..Len(bufs) : bufs[j].load <= load_id
    BY Zenon DEF OInv, AgeInv
  <2>3. \A j \in 1..Len(bufs) : bufs[j] \in Pointer
    BY <2>1
  <2>4. \A x \in Pointer : x.load \in Int
    BY DEF Pointer
  <2> QED
    BY <1>1, <2>2, <2>3, <2>4 DEF InBatch
<1>4. \A i \in Int : ~InQueue(b, i)'
  <2> SUFFICES ASSUME NEW i \in Owned PROVE Entry(i).buf.load # load_id + 1
    BY <1>1, Zenon DEF InQueue, Owned, Entry
  <2>1. i \in Kept /\ Entry(i).buf \in Pointer
    BY KeptWritten, Zenon DEF OInv, CInv
  <2> QED
    BY <1>1, <2>1 DEF OInv, AgeInv, Pointer
<1> QED
  BY <1>1, <1>2, <1>3, <1>4, Zenon DEF Single

\* A step that moves nothing.
LEMMA StillOwner == OInv /\ UNCHANGED held => OwnerInv'
<1> SUFFICES ASSUME OInv, UNCHANGED held, channel_up, NEW b \in Buffers
             PROVE  Single(b)'
  BY Zenon DEF OwnerInv, held
<1>1. /\ UNCHANGED <<channel_up, load_id, free_bufs, out_ring, bufs, Owned>>
      /\ \A i \in Owned : Entry(i)' = Entry(i)
  BY Zenon DEF held, Owned, Entry
<1>2. \A i \in Int : /\ InRing(b, i)' <=> InRing(b, i)
                     /\ InBatch(b, i)' <=> InBatch(b, i)
                     /\ InQueue(b, i)' <=> InQueue(b, i)
  BY <1>1, Zenon DEF InRing, InBatch, InQueue
<1> QED
  BY <1>1, <1>2, Zenon DEF Single, OInv, OwnerInv

\* The entry the poll thread fills is none of those owned.
LEMMA WriteKeeps ==
    ASSUME IInv, WriteEntry
    PROVE  /\ \A i \in Owned : Entry(i)' = Entry(i)
           /\ Entry(queue_head)' =
                [buf |-> Head(bufs), recv |-> slot_in[Head(bufs).buf],
                 sample_id |-> total_samples_received + 1]
<1>1. /\ queue_head \in Nat /\ queue_tail \in Nat
      /\ queue \in [0..QUEUE_CAPACITY-1 -> QueueEntry \cup {EmptyEntry}]
      /\ queue_tail <= queue_head
      /\ queue_head - queue_tail < QUEUE_CAPACITY
      /\ UNCHANGED queue_head
      /\ queue' = [queue EXCEPT ![Idx(queue_head)] =
                     [buf |-> Head(bufs), recv |-> slot_in[Head(bufs).buf],
                      sample_id |-> total_samples_received + 1]]
  BY Zenon DEF IInv, TypeOK, CursorInv, WriteEntry
<1>2. /\ Entry(queue_head)' = queue'[Idx(queue_head)]
      /\ \A i \in Owned : Entry(i)' = queue'[Idx(i)]
  BY <1>1, Zenon DEF Entry, Idx
<1>3. ASSUME NEW i \in Owned PROVE queue'[Idx(i)] = queue[Idx(i)]
  <2>1. i \in Nat /\ i < queue_head /\ queue_head < i + QUEUE_CAPACITY
    BY <1>1, KeptWritten, CapacityAssumption DEF Owned
  <2>2. Idx(i) # Idx(queue_head)
    BY <1>1, <2>1, IdxDistinct, Zenon
  <2> QED
    BY <1>1, <2>1, <2>2, IdxRange, Zenon
<1> QED
  BY <1>1, <1>2, <1>3, IdxRange, Zenon DEF Entry

\* Filling the entry moves no buffer yet.
LEMMA WriteOwner == OInv /\ WriteEntry => OwnerInv'
<1> SUFFICES ASSUME OInv, WriteEntry, channel_up, NEW b \in Buffers
             PROVE  Single(b)'
  BY Zenon DEF OwnerInv, WriteEntry, channelVars
<1>1. UNCHANGED <<load_id, free_bufs, out_ring, bufs, Owned>>
  BY Zenon DEF WriteEntry, channelVars, lifeVars, Owned, Released
<1>2. \A i \in Owned : Entry(i)' = Entry(i)
  BY WriteKeeps, Zenon DEF OInv, CInv
<1>3. \A i \in Int : /\ InRing(b, i)' <=> InRing(b, i)
                     /\ InBatch(b, i)' <=> InBatch(b, i)
                     /\ InQueue(b, i)' <=> InQueue(b, i)
  BY <1>1, <1>2, Zenon DEF InRing, InBatch, InQueue
<1> QED
  BY <1>1, <1>3, Zenon DEF Single, OInv, OwnerInv

\* The steps that move a buffer or replace the channel.
Moves ==
    \/ (Poll \/ Discard) /\ UNCHANGED pipelineVars
    \/ Codelet \/ DropBuf \/ WriteEntry \/ PublishEntry
    \/ WorkerRelease \/ DrainEntry \/ LoadCodelets \/ UnloadCodelets \/ JbpfIoStop

\* No other step does.
LEMMA OthersStill == IInv /\ [Next]_vars /\ ~Moves => UNCHANGED held
<1> SUFFICES ASSUME IInv, [Next]_vars, ~Moves PROVE UNCHANGED held
  BY Zenon
<1> USE DEF held, Released, IInv, TypeOK, CursorInv, ThreadInv, channelVars,
            dispatchVars, queueVars, lifeVars, smVars, pipelineVars, CtlFrame
<1>1. CASE Dispatch
  BY <1>1, Zenon DEF Dispatch, Lookup, Moves
<1>2. CASE ProcessBuffers
  BY <1>2, Zenon
     DEF ProcessBuffers, CfgCheck, SendShmCfg, SendSlotSel, SendMsg, MarkSent,
         QueueCheck, Moves
<1>3. CASE Worker
  BY <1>3, Zenon
     DEF Worker, WorkerCheck, WorkerLoad, WorkerDispatch, WorkerAdvance, Moves
<1>4. CASE SmStart \/ Start
  BY <1>4, Zenon
     DEF SmStart, Start, LoadFails, Boot, Register, RegisterStream, SmUp, Moves
<1>5. CASE SmStop \/ Stop
  BY <1>5, Zenon
     DEF SmStop, Stop, Unregister, UnregisterStream, SignalWorker, JoinWorker,
         DrainDone, Moves
<1>6. CASE Shutdown \/ UNCHANGED vars
  BY <1>6, Zenon DEF Shutdown, LeavePollLoop, MainStop, Exited, vars, Moves
<1> HIDE DEF held, Released, IInv, TypeOK, CursorInv, ThreadInv, channelVars,
             dispatchVars, queueVars, lifeVars, smVars, pipelineVars, CtlFrame
<1> QED
  BY <1>1, <1>2, <1>3, <1>4, <1>5, <1>6, Zenon DEF Next, Moves

\* Who holds a buffer.
LEMMA OwnerStep == OInv /\ [Next]_vars => OwnerInv'
<1> SUFFICES ASSUME OInv, [Next]_vars PROVE OwnerInv'
  BY Zenon
<1> USE DEF channelVars, dispatchVars, queueVars, lifeVars, pipelineVars, CtlFrame
<1>0. IInv
  BY Zenon DEF OInv, CInv
<1>1. CASE Discard /\ UNCHANGED pipelineVars
  BY <1>0, <1>1, ReleaseHeadOwner, Zenon
     DEF Discard, NextBuf, Released, IInv, ThreadInv
<1>2. CASE DropBuf
  BY <1>0, <1>2, ReleaseHeadOwner, Zenon
     DEF DropBuf, NextBuf, Released, IInv, ThreadInv, InHandler
<1>3. CASE WorkerRelease
  <2>1. /\ worker_pc = "release" /\ ctl_pc # "drain"
        /\ queue_tail < queue_head /\ Released = queue_tail
    BY <1>0, <1>3, Zenon
       DEF WorkerRelease, IInv, CursorInv, ThreadInv, Released
  <2>2. Released' = Released + 1
    BY <1>3, <2>1, Zenon DEF WorkerRelease, Released
  <2> QED
    BY <1>3, <2>1, <2>2, ReleaseEntryOwner, Zenon DEF WorkerRelease
<1>4. CASE DrainEntry
  <2>1. Released = drain_tail /\ Released < queue_head
    BY <1>0, <1>4 DEF DrainEntry, IInv, TypeOK, CursorInv, Released
  <2>2. Released' = Released + 1
    BY <1>4, <2>1, Zenon DEF DrainEntry, Released
  <2> QED
    BY <1>4, <2>1, <2>2, ReleaseEntryOwner, Zenon DEF DrainEntry
<1>5. CASE LoadCodelets
  BY <1>5, CreateOwner, Zenon DEF LoadCodelets, Released
<1>6. CASE UnloadCodelets
  <2>1. CASE DestroyChannel
    BY <2>1, Zenon DEF DestroyChannel, OwnerInv
  <2>2. CASE UNCHANGED channelVars
    BY <1>6, <2>2, StillOwner, Zenon DEF UnloadCodelets, held, Released
  <2> QED
    BY <1>6, <2>1, <2>2, Zenon DEF UnloadCodelets
<1>7. CASE JbpfIoStop
  BY <1>7, Zenon DEF JbpfIoStop, DestroyChannel, OwnerInv
<1>8. CASE ~Moves
  BY <1>0, <1>8, OthersStill, StillOwner, Zenon
<1> QED
  BY <1>1, <1>2, <1>3, <1>4, <1>5, <1>6, <1>7, <1>8, CodeletOwner, PollOwner,
     WriteOwner, PublishOwner, Zenon
     DEF Moves

-----------------------------------------------------------------------------
(* What the entries hold. *)

\* Only WriteEntry changes an entry or adds one to those kept.
LEMMA KeptFrame ==
    IInv /\ [Next]_vars /\ ~WriteEntry =>
        /\ queue' = queue /\ Kept' \subseteq Kept
        /\ poll_pc' = "publish" => /\ poll_pc = "publish"
                                   /\ UNCHANGED <<queue_head, bufs>>
<1> SUFFICES ASSUME IInv, [Next]_vars, ~WriteEntry
             PROVE  /\ queue' = queue /\ Kept' \subseteq Kept
                    /\ poll_pc' = "publish" => /\ poll_pc = "publish"
                                               /\ UNCHANGED <<queue_head, bufs>>
  BY Zenon
<1> USE DEF Kept, Released, IInv, TypeOK, CursorInv, ThreadInv, channelVars,
            dispatchVars, queueVars, lifeVars, smVars, pipelineVars, CtlFrame
<1>1. CASE Codelet \/ Dispatch
  BY <1>1, Zenon DEF Codelet, Dispatch, Poll, Lookup, Discard, NextBuf
<1>2. CASE CfgCheck \/ SendShmCfg \/ SendSlotSel \/ MarkSent \/ QueueCheck
  BY <1>2, Zenon
     DEF CfgCheck, SendShmCfg, SendSlotSel, SendMsg, MarkSent, QueueCheck
<1>3. CASE DropBuf
  BY <1>3, Zenon DEF DropBuf, NextBuf
<1>4. CASE PublishEntry
  BY <1>4 DEF PublishEntry, NextBuf
<1>5. CASE Worker
  <2>1. CASE WorkerRelease
    BY <2>1 DEF WorkerRelease
  <2>2. CASE WorkerAdvance
    BY <2>2, Zenon DEF WorkerAdvance
  <2>3. CASE WorkerCheck \/ WorkerLoad \/ WorkerDispatch
    BY <2>3, Zenon DEF WorkerCheck, WorkerLoad, WorkerDispatch
  <2> QED
    BY <1>5, <2>1, <2>2, <2>3, Zenon DEF Worker
<1>6. CASE SmStart \/ Start
  BY <1>6, Zenon
     DEF SmStart, Start, LoadCodelets, LoadFails, Boot, Register,
         RegisterStream, SmUp
<1>7. CASE SmStop \/ Stop
  <2>1. CASE DrainEntry
    BY <2>1 DEF DrainEntry
  <2>2. CASE DrainDone
    BY <2>2, Zenon DEF DrainDone
  <2>3. CASE JoinWorker
    BY <2>3, Zenon DEF JoinWorker
  <2>4. CASE SmStop \/ Unregister \/ SignalWorker \/ UnloadCodelets
    BY <2>4, Zenon
       DEF SmStop, Unregister, UnregisterStream, SignalWorker, UnloadCodelets
  <2> QED
    BY <1>7, <2>1, <2>2, <2>3, <2>4, Zenon DEF Stop
<1>8. CASE Shutdown \/ UNCHANGED vars
  BY <1>8, Zenon
     DEF Shutdown, LeavePollLoop, MainStop, JbpfIoStop, Exited, vars
<1> QED
  BY <1>1, <1>2, <1>3, <1>4, <1>5, <1>6, <1>7, <1>8, Zenon
     DEF Next, ProcessBuffers

\* What the poll thread writes is the buffer it holds.
LEMMA NextEntryStep == OInv /\ [Next]_vars => NextEntryInv'
<1> SUFFICES ASSUME OInv, [Next]_vars PROVE NextEntryInv'
  BY Zenon
<1>1. CASE WriteEntry
  <2>1. Entry(queue_head)' =
           [buf |-> Head(bufs), recv |-> slot_in[Head(bufs).buf],
            sample_id |-> total_samples_received + 1]
    BY <1>1, WriteKeeps, Zenon DEF OInv, CInv
  <2>2. UNCHANGED bufs
    BY <1>1, Zenon DEF WriteEntry
  <2> QED
    BY <2>1, <2>2 DEF NextEntryInv
<1>2. CASE ~WriteEntry
  BY <1>2, KeptFrame, Zenon DEF OInv, CInv, NextEntryInv, Entry
<1> QED
  BY <1>1, <1>2, Zenon

\* A batch is what it was, less its first buffer, or new from the ring; the
\* load only grows.
LEMMA BatchStep ==
    ASSUME IInv, [Next]_vars
    PROVE  /\ load_id' \in Int /\ load_id <= load_id'
           /\ \/ bufs' = bufs
              \/ bufs # <<>> /\ bufs' = Tail(bufs)
              \/ \A j \in 1..Len(bufs') : bufs'[j].load = load_id'
<1>1. load_id \in Int /\ out_ring \in Seq(Buffers)
  BY DEF IInv, TypeOK, DispatcherTypeOK
<1>2. load_id <= load_id
  BY <1>1
<1>3. CASE Poll /\ UNCHANGED pipelineVars
  <2>1. PICK n \in 1..Len(out_ring) :
           bufs' = [i \in 1..n |-> [load |-> load_id, buf |-> out_ring[i]]]
    BY <1>3, Zenon DEF Poll
  <2>2. Len(bufs') = n
    BY <2>1
  <2>3. load_id' = load_id
    BY <1>3, Zenon DEF Poll
  <2> QED
    BY <1>1, <2>1, <2>2, <2>3
<1>4. ASSUME \/ Discard /\ UNCHANGED pipelineVars
             \/ DropBuf \/ PublishEntry
      PROVE  load_id' = load_id /\ bufs # <<>> /\ bufs' = Tail(bufs)
  BY <1>4, Zenon
     DEF Discard, DropBuf, PublishEntry, Release, NextBuf, IInv, ThreadInv,
         InHandler, channelVars
<1>5. ASSUME \/ Codelet \/ WriteEntry \/ WorkerRelease \/ DrainEntry
             \/ UnloadCodelets \/ JbpfIoStop \/ ~Moves
      PROVE  UNCHANGED <<load_id, bufs>>
  <2>1. CASE ~Moves
    BY <2>1, OthersStill, Zenon DEF held
  <2>2. CASE Codelet \/ WriteEntry \/ WorkerRelease \/ DrainEntry
    BY <2>2, Zenon
       DEF Codelet, CodeletOutput, WriteEntry, WorkerRelease, DrainEntry,
           Release, channelVars, dispatchVars
  <2>3. CASE UnloadCodelets \/ JbpfIoStop
    BY <2>3, Zenon
       DEF UnloadCodelets, JbpfIoStop, DestroyChannel, channelVars,
           dispatchVars
  <2> QED
    BY <1>5, <2>1, <2>2, <2>3, Zenon
<1>6. CASE LoadCodelets
  <2>1. load_id' = load_id + 1 /\ bufs' = bufs
    BY <1>6, Zenon DEF LoadCodelets, CreateChannel, dispatchVars
  <2> QED
    BY <1>1, <2>1
<1> QED
  BY <1>1, <1>2, <1>3, <1>4, <1>5, <1>6, Zenon DEF Moves

\* No pointer is of a load still to come.
LEMMA AgeStep == OInv /\ [Next]_vars => AgeInv'
<1> SUFFICES ASSUME OInv, [Next]_vars PROVE AgeInv'
  BY Zenon
<1>0. IInv /\ bufs \in Seq(Pointer) /\ load_id \in Int
  BY DEF OInv, CInv, IInv, TypeOK, DispatcherTypeOK
<1>1. load_id' \in Int /\ load_id <= load_id'
  BY <1>0, BatchStep, Zenon
<1>2. \A j \in 1..Len(bufs) : bufs[j].load \in Int /\ bufs[j].load <= load_id
  <2>1. \A j \in 1..Len(bufs) : bufs[j] \in Pointer
    BY <1>0
  <2>2. \A q \in Pointer : q.load \in Int
    BY DEF Pointer
  <2> QED
    BY <2>1, <2>2, Zenon DEF OInv, AgeInv
<1>3. \A j \in 1..Len(bufs') : bufs'[j].load <= load_id'
  <2>1. CASE bufs' = bufs
    BY <1>0, <1>1, <1>2, <2>1
  <2>2. CASE bufs # <<>> /\ bufs' = Tail(bufs)
    BY <1>0, <1>1, <1>2, <2>2, BatchFacts
  <2>3. CASE \A j \in 1..Len(bufs') : bufs'[j].load = load_id'
    BY <1>1, <2>3
  <2> QED
    BY <1>0, <2>1, <2>2, <2>3, BatchStep, Zenon
<1>4. \A i \in Kept : Entry(i).buf.load \in Int /\ Entry(i).buf.load <= load_id
  BY <1>0, KeptWritten DEF OInv, AgeInv, Pointer
<1>5. \A i \in Kept' : Entry(i)'.buf.load <= load_id'
  <2>1. CASE WriteEntry
    <3>1. /\ \A i \in Owned : Entry(i)' = Entry(i)
          /\ Entry(queue_head)'.buf = Head(bufs)
          /\ bufs # <<>> /\ queue_head \in Nat
          /\ UNCHANGED <<Released, queue_head>> /\ poll_pc' = "publish"
      <4>1. /\ bufs # <<>> /\ UNCHANGED <<Released, queue_head>>
            /\ poll_pc' = "publish"
        BY <1>0, <2>1, Zenon
           DEF WriteEntry, lifeVars, Released, IInv, ThreadInv, InHandler
      <4> QED
        BY <1>0, <2>1, <4>1, WriteKeeps, KeptWritten
    <3>2. Kept' = Released..queue_head
      BY <3>1, Zenon DEF Kept
    <3>3. Head(bufs).load <= load_id'
      BY <1>0, <1>1, <1>2, <3>1, BatchFacts
    <3>4. \A i \in Kept' : i \in Owned \/ i = queue_head
      BY <1>0, <3>1, <3>2, KeptWritten DEF Owned
    <3>5. ASSUME NEW i \in Kept' PROVE Entry(i)'.buf.load <= load_id'
      <4>1. CASE i \in Owned
        BY <1>0, <1>1, <1>4, <3>1, <4>1, KeptWritten
      <4>2. CASE i = queue_head
        BY <3>1, <3>3, <4>2, Zenon DEF Entry
      <4> QED
        BY <3>4, <4>1, <4>2, Zenon
    <3> QED
      BY <3>5, ZenonT(60)
  <2>2. CASE ~WriteEntry
    BY <1>0, <1>1, <1>4, <2>2, KeptFrame DEF Entry
  <2> QED
    BY <2>1, <2>2, Zenon
<1> QED
  BY <1>3, <1>5, Zenon DEF AgeInv

\* Descriptors change under the codelet only, and pointers come alive only
\* with a new channel.
LEMMA ChannelStep ==
    ASSUME IInv, [Next]_vars, ~Codelet, ~LoadCodelets
    PROVE  UNCHANGED <<slot_in, load_id>> /\ (channel_up' => channel_up)
<1> SUFFICES /\ UNCHANGED <<slot_in, load_id>>
             /\ channel_up' = channel_up \/ channel_up' = FALSE
  OBVIOUS
<1>1. CASE ~Moves
  BY <1>1, OthersStill, Zenon DEF held
<1>2. CASE (Poll \/ Discard) /\ UNCHANGED pipelineVars
  BY <1>2, Zenon DEF Poll, Discard, Release
<1>3. CASE DropBuf \/ WriteEntry \/ PublishEntry
  BY <1>3, Zenon DEF DropBuf, WriteEntry, PublishEntry, Release, channelVars
<1>4. CASE WorkerRelease \/ DrainEntry
  BY <1>4, Zenon DEF WorkerRelease, DrainEntry, Release
<1>5. CASE UnloadCodelets \/ JbpfIoStop
  BY <1>5, Zenon DEF UnloadCodelets, JbpfIoStop, DestroyChannel, channelVars
<1> QED
  BY <1>1, <1>2, <1>3, <1>4, <1>5, Zenon DEF Moves

\* The codelet writes into no buffer that an entry holds: it takes a buffer of
\* the pool, and those of the entries are in the queue or in the batch.
LEMMA CodeletStable == OInv /\ Codelet => StableInv'
<1> SUFFICES ASSUME OInv, Codelet, NEW i \in Kept', Live(Entry(i).buf)'
             PROVE  slot_in'[Entry(i)'.buf.buf] = Entry(i)'.recv
  BY Zenon DEF StableInv, Entry
<1>1. PICK c \in free_bufs : slot_in' = [slot_in EXCEPT ![c] = slots + 1]
  BY Zenon DEF Codelet, CodeletOutput
<1>2. /\ channel_up /\ UNCHANGED <<load_id, channel_up>>
      /\ UNCHANGED <<bufs, poll_pc, queue, queue_head, queue_tail, ctl_pc,
                     worker_pc, drain_tail>>
  BY Zenon
     DEF Codelet, CodeletOutput, dispatchVars, pipelineVars, queueVars,
         lifeVars
<1>3. Kept' = Kept /\ Entry(i)' = Entry(i) /\ i \in Kept
  BY <1>2, Zenon DEF Kept, Released, Entry
<1>4. IInv /\ free_bufs \subseteq Buffers /\ slot_in \in [Buffers -> 0..MaxSlots]
  BY Zenon DEF OInv, CInv, IInv, TypeOK, DispatcherTypeOK
<1>5. i \in Nat /\ Entry(i).buf \in Pointer /\ Entry(i).buf.load = load_id
  BY <1>2, <1>3, <1>4, KeptWritten, Zenon DEF Live
<1>6. Single(c)
  BY <1>1, <1>2, <1>4, Zenon DEF OInv, OwnerInv
<1>7. Entry(i).buf.buf # c
  <2> SUFFICES ASSUME Entry(i).buf.buf = c PROVE FALSE
    BY Zenon
  <2>1. CASE i \in Owned
    BY <1>1, <1>5, <1>6, <2>1 DEF InQueue, Single
  <2>2. CASE i \notin Owned
    <3>1. poll_pc = "publish" /\ i = queue_head
      BY <1>3, <1>4, <2>2, KeptWritten DEF Kept, Owned
    <3>2. bufs \in Seq(Pointer) /\ bufs # <<>> /\ Entry(i).buf = Head(bufs)
      BY <1>4, <3>1, Zenon
         DEF OInv, NextEntryInv, IInv, TypeOK, DispatcherTypeOK, ThreadInv,
             InHandler
    <3>3. InBatch(c, 1)
      BY <1>5, <3>2, BatchFacts DEF InBatch
    <3> QED
      BY <1>1, <1>6, <3>3 DEF Single
  <2> QED
    BY <2>1, <2>2, Zenon
<1>8. slot_in[Entry(i).buf.buf] = Entry(i).recv
  BY <1>2, <1>3, <1>5, Zenon DEF OInv, StableInv, Live
<1> QED
  BY <1>1, <1>3, <1>4, <1>5, <1>7, <1>8, Zenon DEF Pointer

\* An entry keeps the slot it was made from.
LEMMA StableStep == OInv /\ [Next]_vars => StableInv'
<1> SUFFICES ASSUME OInv, [Next]_vars PROVE StableInv'
  BY Zenon
<1>0. IInv
  BY Zenon DEF OInv, CInv
<1>1. CASE WriteEntry
  <2>1. /\ \A i \in Owned : Entry(i)' = Entry(i)
        /\ Entry(queue_head)'.buf = Head(bufs)
        /\ Entry(queue_head)'.recv = slot_in[Head(bufs).buf]
        /\ UNCHANGED <<Released, queue_head, slot_in, load_id, channel_up>>
        /\ poll_pc' = "publish"
    <3>1. /\ UNCHANGED <<Released, queue_head, slot_in, load_id, channel_up>>
          /\ poll_pc' = "publish"
      BY <1>1, Zenon DEF WriteEntry, channelVars, lifeVars, Released
    <3> QED
      BY <1>0, <1>1, <3>1, WriteKeeps
  <2>2. \A i \in Kept' : i \in Owned \/ i = queue_head
    BY <1>0, <2>1, KeptWritten DEF Kept, Owned
  <2>3. ASSUME NEW i \in Kept', Live(Entry(i).buf)'
        PROVE  slot_in'[Entry(i)'.buf.buf] = Entry(i)'.recv
    <3>1. CASE i \in Owned
      BY <1>0, <2>1, <2>3, <3>1, KeptWritten, Zenon DEF OInv, StableInv, Live
    <3>2. CASE i = queue_head
      BY <2>1, <3>2, Zenon DEF Entry
    <3> QED
      BY <2>2, <3>1, <3>2, Zenon
  <2> QED
    BY <2>3, Zenon DEF StableInv, Entry
<1>2. CASE LoadCodelets
  <2>1. load_id' = load_id + 1 /\ queue' = queue /\ Kept' \subseteq Kept
    BY <1>0, <1>2, KeptFrame, Zenon
       DEF LoadCodelets, CreateChannel, WriteEntry, CtlFrame, lifeVars, IInv,
           TypeOK
  <2>2. \A i \in Kept : Entry(i).buf.load \in Int /\ Entry(i).buf.load <= load_id
    BY <1>0, KeptWritten DEF OInv, AgeInv, Pointer
  <2>3. load_id \in Int
    BY <1>0 DEF IInv, TypeOK, DispatcherTypeOK
  <2> QED
    BY <2>1, <2>2, <2>3 DEF StableInv, Live, Entry
<1>3. CASE ~WriteEntry /\ ~LoadCodelets /\ ~Codelet
  BY <1>0, <1>3, KeptFrame, ChannelStep, Zenon DEF OInv, StableInv, Live, Entry
<1> QED
  BY <1>1, <1>2, <1>3, CodeletStable, Zenon

-----------------------------------------------------------------------------
(* The invariant holds of every behaviour, and what follows. *)

\* At the start every buffer is in the pool.
LEMMA InitOInv == Init => OInv
<1> SUFFICES ASSUME Init PROVE OInv
  BY Zenon
<1>1. CInv
  BY InitCInv, Zenon
<1>2. /\ out_ring = <<>> /\ bufs = <<>> /\ queue_head = 0 /\ Released = 0
      /\ poll_pc = "idle" /\ (channel_up => free_bufs = Buffers)
  BY Zenon DEF Init, DispatcherInit, Released
<1>3. Kept = {} /\ Owned = {} /\ 1..Len(bufs) = {} /\ 1..Len(out_ring) = {}
  BY <1>2 DEF Kept, Owned
<1>4. \A b, i : ~InRing(b, i) /\ ~InBatch(b, i) /\ ~InQueue(b, i)
  BY <1>3, Zenon DEF InRing, InBatch, InQueue
<1>5. OwnerInv
  BY <1>2, <1>4, Zenon DEF OwnerInv, Single
<1> QED
  BY <1>1, <1>2, <1>3, <1>5, Zenon DEF OInv, AgeInv, NextEntryInv, StableInv

\* The invariant holds in every state the pipeline reaches.
THEOREM OwnerInductive == Spec => []OInv
<1>1. OInv /\ [Next]_vars /\ CInv' => OInv'
  BY OwnerStep, AgeStep, NextEntryStep, StableStep, Zenon DEF OInv
<1> QED
  BY InitOInv, CleanInductive, <1>1, PTL DEF Spec

\* A buffer that is in one place has one holder.
LEMMA SingleHolder ==
    ASSUME OInv, NEW b \in Buffers, Single(b)
    PROVE  \E h \in Holders(b) : Holders(b) = {h}
<1>1. /\ out_ring \in Seq(Buffers) /\ bufs \in Seq(Pointer) /\ IInv
      /\ load_id \in 0..MaxLoads
  BY Zenon DEF OInv, CInv, IInv, TypeOK, DispatcherTypeOK
<1>2. DOMAIN out_ring = 1..Len(out_ring) /\ DOMAIN bufs = 1..Len(bufs)
  BY <1>1
<1>3. \A q \in Pointer : q = [load |-> load_id, buf |-> b]
                          <=> q.load = load_id /\ q.buf = b
  BY <1>1 DEF Pointer
<1>4. \A i : (i \in DOMAIN out_ring /\ out_ring[i] = b)
             <=> (i \in Int /\ InRing(b, i))
  BY <1>2 DEF InRing
<1>5. \A i : (i \in DOMAIN bufs /\ bufs[i] = [load |-> load_id, buf |-> b])
             <=> (i \in Int /\ InBatch(b, i))
  BY <1>1, <1>2, <1>3 DEF InBatch
<1>6. \A i : (i \in Owned /\ Entry(i).buf = [load |-> load_id, buf |-> b])
             <=> (i \in Int /\ InQueue(b, i))
  <2>1. \A i \in Owned : i \in Int /\ Entry(i).buf \in Pointer
    BY <1>1, KeptWritten
  <2> QED
    BY <1>3, <2>1, Zenon DEF InQueue
<1>7. \A h : h \in Holders(b) <=>
          \/ h = <<"pool", 0>> /\ b \in free_bufs
          \/ \E i \in Int : h = <<"ring", i>> /\ InRing(b, i)
          \/ \E i \in Int : h = <<"batch", i>> /\ InBatch(b, i)
          \/ \E i \in Int : h = <<"queue", i>> /\ InQueue(b, i)
  BY <1>4, <1>5, <1>6, ZenonT(60) DEF Holders
<1>8. PICK h \in Holders(b) : TRUE
  BY <1>7, Zenon DEF Single
<1>9. \A g \in Holders(b) : g = h
  BY <1>7, <1>8 DEF Single
<1> QED
  BY <1>8, <1>9, Zenon

\* Every buffer of a loaded codelet is in exactly one place, for any pool and
\* capacity, any number of slots and loads, and also when a batch in flight
\* outlives its stream.
THEOREM EveryBufferHasOneOwner == Spec => []OneOwner
<1>1. OInv => OneOwner
  BY SingleHolder, Zenon DEF OInv, OwnerInv, OneOwner
<1> QED
  BY OwnerInductive, <1>1, PTL

\* The descriptor a queued entry points to is the one its recv_us came from.
THEOREM QueuedSlotsAreStable == Spec => []QueuedSlotStable
<1>1. OInv => QueuedSlotStable
  BY KeptWritten, Zenon DEF OInv, CInv, StableInv, QueuedSlotStable
<1> QED
  BY OwnerInductive, <1>1, PTL

\* The queue holds fewer buffers than the pool while the poll thread is at one.
LEMMA QueueBelowPool ==
    ASSUME OInv, ~straddled, InHandler
    PROVE  queue_head - Released < Cardinality(Buffers)
<1>1. /\ IInv /\ bufs \in Seq(Pointer) /\ bufs # <<>> /\ channel_up
      /\ queue_head \in Nat /\ Released \in Nat /\ Released <= queue_head
  BY KeptWritten, Zenon
     DEF OInv, CInv, IInv, TypeOK, DispatcherTypeOK, ThreadInv, LiveInv
<1>2. \A i \in Owned : Entry(i).buf.load = load_id /\ Entry(i).buf.buf \in Buffers
  BY <1>1, KeptWritten, Zenon DEF OInv, CInv, LiveInv, Live, Pointer
<1> DEFINE h == bufs[1].buf
           rest == Buffers \ {h}
           f == [i \in Owned |-> Entry(i).buf.buf]
<1>3. h \in Buffers /\ InBatch(h, 1)
  <2>1. 1 \in 1..Len(bufs) /\ bufs[1] \in Pointer
    BY <1>1, BatchFacts
  <2>2. bufs[1].load = load_id
    BY <2>1, Zenon DEF OInv, CInv, LiveInv
  <2> QED
    BY <2>1, <2>2, Zenon DEF InBatch, Pointer
<1>4. \A i \in Owned : InQueue(f[i], i) /\ f[i] \in Buffers
  BY <1>2, Zenon DEF InQueue
<1>5. \A b \in Buffers : Single(b)
  BY <1>1, Zenon DEF OInv, OwnerInv
<1>6. Owned \subseteq Int
  BY <1>1 DEF Owned
<1>7. f \in [Owned -> rest]
  <2>1. \A i \in Owned : f[i] # h
    BY <1>3, <1>4, <1>5, <1>6 DEF Single
  <2> QED
    BY <1>4, <2>1, Zenon
<1>8. \A i, j \in Owned : f[i] = f[j] => i = j
  BY <1>4, <1>5, <1>6, Zenon DEF Single
<1> HIDE DEF f, h
<1>9. /\ IsFiniteSet(Owned)
      /\ Cardinality(Owned) = queue_head - Released
  <2>1. queue_head - 1 \in Int /\ Released \in Int
    BY <1>1
  <2>2. /\ IsFiniteSet(Released..queue_head-1)
        /\ Cardinality(Released..queue_head-1) =
             IF Released > queue_head - 1 THEN 0 ELSE queue_head-1 - Released + 1
    BY <2>1, FS_Interval, Zenon
  <2> QED
    BY <1>1, <2>2 DEF Owned
<1>10. /\ IsFiniteSet(rest) /\ Cardinality(rest) = Cardinality(Buffers) - 1
       /\ Cardinality(Buffers) \in Nat
  BY <1>3, PoolAssumption, FS_RemoveElement, FS_CardinalityType, Zenon
<1> HIDE DEF rest
<1>11. Cardinality(rest) \in Int /\ ~(Cardinality(rest) < Cardinality(Owned))
  BY <1>7, <1>8, <1>9, <1>10, FS_PigeonHole
<1> QED
  BY <1>1, <1>9, <1>10, <1>11

\* With a pool no larger than the queue, a slot is dropped only in the window
\* between the worker's release of a buffer and its store of the tail.
THEOREM DropsOnlyInWindow == Spec => DropOnlyInReleaseWindow
<1>1. OInv /\ [Next]_vars =>
         [poll_pc # "drop" /\ poll_pc' = "drop" /\ ~straddled
             /\ Cardinality(Buffers) <= QUEUE_CAPACITY
          => worker_pc = "advance"]_vars
  <2> SUFFICES ASSUME OInv, Next, poll_pc # "drop", poll_pc' = "drop",
                      ~straddled, Cardinality(Buffers) <= QUEUE_CAPACITY
               PROVE  worker_pc = "advance"
    BY Zenon DEF vars, dispatchVars
  <2>1. QueueCheck
    BY Zenon
       DEF Next, Codelet, Dispatch, Poll, Lookup, Discard, NextBuf,
           ProcessBuffers, CfgCheck, SendShmCfg, SendSlotSel, SendMsg,
           MarkSent, DropBuf, WriteEntry, PublishEntry, Worker, WorkerCheck,
           WorkerLoad, WorkerDispatch, WorkerRelease, WorkerAdvance, SmStart,
           Start, LoadCodelets, LoadFails, Boot, Register, RegisterStream,
           SmUp, SmStop, Stop, Unregister, UnregisterStream, SignalWorker,
           JoinWorker, DrainEntry, DrainDone, UnloadCodelets, Shutdown,
           LeavePollLoop, MainStop, JbpfIoStop, Exited, vars, dispatchVars
  <2>2. queue_head - queue_tail >= QUEUE_CAPACITY /\ InHandler
    BY <2>1, Zenon DEF QueueCheck, QueueFull, InHandler
  <2>3. ctl_pc # "drain"
    BY <2>2, Zenon DEF OInv, CInv, QuietInv, SessionInv
  <2>4. queue_head - Released < Cardinality(Buffers) /\ Cardinality(Buffers) \in Nat
    BY <2>2, QueueBelowPool, PoolAssumption, FS_CardinalityType, Zenon
  <2> QED
    BY <2>2, <2>3, <2>4, CapacityAssumption
       DEF Released, OInv, CInv, IInv, TypeOK
<1> QED
  BY OwnerInductive, <1>1, PTL DEF Spec, DropOnlyInReleaseWindow
=============================================================================
