--------------------------- MODULE SlotIqPipeline ---------------------------
(***************************************************************************)
(* SlotIqPipeline (src/e3sm/slot_iq_pipeline.cpp) on top of the dispatcher,*)
(* with the four parties that touch it:                                    *)
(*   - the poll thread, inside process_buffers();                          *)
(*   - the worker thread, worker_loop();                                   *)
(*   - the control thread, the libe3 thread that calls E3SMLayer1::start() *)
(*     on the first subscription and E3SMLayer1::stop() on the last        *)
(*     unsubscription, and the main thread calling stop() at shutdown;     *)
(*   - the codelet, which fills buffers and receives its configuration.    *)
(* One action is one access to shared state or one library call.           *)
(***************************************************************************)
EXTENDS JbpfDispatcher

CONSTANTS
    QUEUE_CAPACITY,   \* entries of the SPSC ring (32)
    ShmWriter,        \* shm.writer: "gnb" or "controller"
    LoadsCodelets,    \* codelet_base_path is not empty
    NULL              \* the pointer of an entry never written

ASSUME CapacityAssumption == QUEUE_CAPACITY \in Nat \ {0}
ASSUME ConfigAssumption ==
    /\ ShmWriter \in {"gnb", "controller"}
    /\ LoadsCodelets \in BOOLEAN

VARIABLES
    running,                \* SlotIqPipeline::running_
    codelets_loaded,
    shm_cfg_sent,
    queue,                  \* queue_, indexed 0..QUEUE_CAPACITY-1
    queue_head,
    queue_tail,
    dropped,
    total_samples_received,
    worker_pc,
    ctl_pc,                 \* where start() / stop() is
    drain_tail,             \* stop()'s locals: tail ...
    drain_head,             \* ... and head
    sm_running,             \* E3SMLayer1::running_
    not_running,            \* drops_[NotRunning]
    on_samples,             \* calls of E3SMLayer1::on_sample
    last_sample,            \* sample_id of the latest of them
    ctl_msgs,               \* control messages the loaded codelet was sent
    straddled               \* history: a batch in flight outlived its stream

queueVars == <<queue, queue_head, queue_tail, dropped, total_samples_received>>
lifeVars == <<running, codelets_loaded, ctl_pc, drain_tail, drain_head>>
smVars == <<sm_running, not_running, on_samples, last_sample>>
pipelineVars == <<queueVars, lifeVars, smVars, shm_cfg_sent, worker_pc,
                  ctl_msgs, straddled>>
vars == <<channelVars, dispatchVars, pipelineVars>>

\* recv_us is derived from the descriptor when the buffer is queued; recv is
\* the slot it was derived from.
QueueEntry == [buf : Pointer, recv : 0..MaxSlots, sample_id : Nat]
EmptyEntry == [buf |-> NULL, recv |-> 0, sample_id |-> 0]

Idx(i) == i % QUEUE_CAPACITY
Entry(i) == queue[Idx(i)]

-----------------------------------------------------------------------------
(* Poll thread: process_buffers(). *)

\* maybe_send_shm_cfg(): nothing to do, or send e3_shm_cfg first.
CfgCheck ==
    /\ poll_pc = "handler"
    /\ poll_pc' = IF shm_cfg_sent \/ ShmWriter # "gnb"
                  THEN "enqueue" ELSE "send_shm"
    /\ UNCHANGED <<channelVars, registered, bufs, pipelineVars>>

\* jbpf_io_channel_send_msg may fail, and fails when the channel is gone.
\* Success moves on to pc; failure leaves the flag for the next batch.
SendMsg(msg, pc) ==
    /\ \/ /\ channel_up
          /\ ctl_msgs' = ctl_msgs \cup {msg}
          /\ poll_pc' = pc
       \/ /\ poll_pc' = "enqueue"
          /\ UNCHANGED ctl_msgs
    /\ UNCHANGED <<channelVars, registered, bufs, queueVars, lifeVars, smVars,
                   shm_cfg_sent, worker_pc, straddled>>

SendShmCfg == poll_pc = "send_shm" /\ SendMsg("e3_shm_cfg", "send_sel")
SendSlotSel == poll_pc = "send_sel" /\ SendMsg("e3_slot_sel", "mark_sent")

MarkSent ==
    /\ poll_pc = "mark_sent"
    /\ poll_pc' = "enqueue"
    /\ shm_cfg_sent' = TRUE
    /\ UNCHANGED <<channelVars, registered, bufs, queueVars, lifeVars, smVars,
                   worker_pc, ctl_msgs, straddled>>

\* Mutant of QueueFull: full one entry too soon.
QueueFullEarly == queue_head - queue_tail >= QUEUE_CAPACITY - 1

\* Mutant of QueueFull: full one entry too late.
QueueFullLate == queue_head - queue_tail > QUEUE_CAPACITY

QueueFull == queue_head - queue_tail >= QUEUE_CAPACITY

\* The cursors are read once; the worker may move on before they are acted on.
QueueCheck ==
    /\ poll_pc = "enqueue"
    /\ poll_pc' = IF QueueFull THEN "drop" ELSE "write"
    /\ UNCHANGED <<channelVars, registered, bufs, pipelineVars>>

\* Mutant of DropBuf: the dropped buffer is not given back.
DropBufKeeps ==
    /\ poll_pc = "drop"
    /\ dropped' = dropped + 1
    /\ NextBuf("enqueue")
    /\ UNCHANGED <<channelVars, queue, queue_head, queue_tail, total_samples_received,
                   lifeVars, smVars, shm_cfg_sent, worker_pc, ctl_msgs,
                   straddled>>

\* Found full: count the slot and give the buffer back.
DropBuf ==
    /\ poll_pc = "drop"
    /\ dropped' = dropped + 1
    /\ Release(Head(bufs))
    /\ NextBuf("enqueue")
    /\ UNCHANGED <<queue, queue_head, queue_tail, total_samples_received,
                   lifeVars, smVars, shm_cfg_sent, worker_pc, ctl_msgs,
                   straddled>>

\* Mutant of WriteEntry: recv_us comes from the last buffer of the batch.
WriteEntryLast ==
    /\ poll_pc = "write"
    /\ total_samples_received' = total_samples_received + 1
    /\ queue' = [queue EXCEPT ![Idx(queue_head)] =
                   [buf |-> Head(bufs),
                    recv |-> slot_in[bufs[Len(bufs)].buf],
                    sample_id |-> total_samples_received + 1]]
    /\ poll_pc' = "publish"
    /\ UNCHANGED <<channelVars, registered, bufs, queue_head, queue_tail,
                   dropped, lifeVars, smVars, shm_cfg_sent, worker_pc,
                   ctl_msgs, straddled>>

\* Found room: fill the entry at head, which nobody reads until it is published.
WriteEntry ==
    /\ poll_pc = "write"
    /\ total_samples_received' = total_samples_received + 1
    /\ queue' = [queue EXCEPT ![Idx(queue_head)] =
                   [buf |-> Head(bufs),
                    recv |-> slot_in[Head(bufs).buf],
                    sample_id |-> total_samples_received + 1]]
    /\ poll_pc' = "publish"
    /\ UNCHANGED <<channelVars, registered, bufs, queue_head, queue_tail,
                   dropped, lifeVars, smVars, shm_cfg_sent, worker_pc,
                   ctl_msgs, straddled>>

PublishEntry ==
    /\ poll_pc = "publish"
    /\ queue_head' = queue_head + 1
    /\ NextBuf("enqueue")
    /\ UNCHANGED <<channelVars, queue, queue_tail, dropped,
                   total_samples_received, lifeVars, smVars, shm_cfg_sent,
                   worker_pc, ctl_msgs, straddled>>

-----------------------------------------------------------------------------
(* Worker thread: worker_loop(). *)

\* Mutant of WorkerCheck: running_ is not looked at.
WorkerCheckForever ==
    /\ worker_pc = "check"
    /\ worker_pc' = "load"
    /\ UNCHANGED <<channelVars, dispatchVars, queueVars, lifeVars, smVars,
                   shm_cfg_sent, ctl_msgs, straddled>>

WorkerCheck ==
    /\ worker_pc = "check"
    /\ worker_pc' = IF running THEN "load" ELSE "none"
    /\ UNCHANGED <<channelVars, dispatchVars, queueVars, lifeVars, smVars,
                   shm_cfg_sent, ctl_msgs, straddled>>

\* Mutant of WorkerLoad: a single entry counts as an empty queue.
WorkerLoadLags ==
    /\ worker_pc = "load"
    /\ worker_pc' = IF queue_head - queue_tail <= 1 THEN "check" ELSE "dispatch"
    /\ UNCHANGED <<channelVars, dispatchVars, queueVars, lifeVars, smVars,
                   shm_cfg_sent, ctl_msgs, straddled>>

WorkerLoad ==
    /\ worker_pc = "load"
    /\ worker_pc' = IF queue_head = queue_tail THEN "check" ELSE "dispatch"
    /\ UNCHANGED <<channelVars, dispatchVars, queueVars, lifeVars, smVars,
                   shm_cfg_sent, ctl_msgs, straddled>>

\* dispatch_sample(): the consumer is E3SMLayer1::on_sample, which refuses
\* the slot when the service model is not running.
WorkerDispatch ==
    /\ worker_pc = "dispatch"
    /\ on_samples' = on_samples + 1
    /\ last_sample' = Entry(queue_tail).sample_id
    /\ not_running' = not_running + (IF sm_running THEN 0 ELSE 1)
    /\ worker_pc' = "release"
    /\ UNCHANGED <<channelVars, dispatchVars, queueVars, lifeVars, sm_running,
                   shm_cfg_sent, ctl_msgs, straddled>>

WorkerRelease ==
    /\ worker_pc = "release"
    /\ Release(Entry(queue_tail).buf)
    /\ worker_pc' = "advance"
    /\ UNCHANGED <<dispatchVars, queueVars, lifeVars, smVars, shm_cfg_sent,
                   ctl_msgs, straddled>>

WorkerAdvance ==
    /\ worker_pc = "advance"
    /\ queue_tail' = queue_tail + 1
    /\ worker_pc' = "check"
    /\ UNCHANGED <<channelVars, dispatchVars, queue, queue_head, dropped,
                   total_samples_received, lifeVars, smVars, shm_cfg_sent,
                   ctl_msgs, straddled>>

-----------------------------------------------------------------------------
(* Control thread: E3SMLayer1::start() and stop() around start() and stop(). *)

AgentUp == poll_pc \notin {"joining", "exited"}

\* The parts no control step other than its own ever touches.
CtlFrame == UNCHANGED <<queue, queue_head, dropped, total_samples_received,
                        not_running, on_samples, last_sample>>

\* First subscription.  A start() of a running pipeline returns at once.
SmStart ==
    /\ ctl_pc = "idle" /\ AgentUp
    /\ ~sm_running
    /\ ctl_pc' = IF running THEN "sm_up"
                 ELSE IF LoadsCodelets THEN "load" ELSE "boot"
    /\ CtlFrame
    /\ UNCHANGED <<channelVars, dispatchVars, running, codelets_loaded,
                   drain_tail, drain_head, queue_tail, sm_running,
                   shm_cfg_sent, worker_pc, ctl_msgs, straddled>>

\* load_codelets() succeeds: a new codelet with empty control inputs.
LoadCodelets ==
    /\ ctl_pc = "load"
    /\ CreateChannel
    /\ codelets_loaded' = TRUE
    /\ ctl_msgs' = {}
    /\ straddled' = (straddled \/ bufs # <<>>)
    /\ ctl_pc' = "boot"
    /\ CtlFrame
    /\ UNCHANGED <<dispatchVars, running, drain_tail, drain_head, queue_tail,
                   sm_running, shm_cfg_sent, worker_pc>>

\* load_codelets() fails: start() returns INTERNAL_ERROR with nothing set.
LoadFails ==
    /\ ctl_pc = "load"
    /\ ctl_pc' = "idle"
    /\ CtlFrame
    /\ UNCHANGED <<channelVars, dispatchVars, running, codelets_loaded,
                   drain_tail, drain_head, queue_tail, sm_running,
                   shm_cfg_sent, worker_pc, ctl_msgs, straddled>>

\* Mutant of Boot: shm_cfg_sent_ is not reset.
BootKeepsFlag ==
    /\ ctl_pc = "boot"
    /\ running' = TRUE
    /\ worker_pc' = "check"
    /\ ctl_pc' = "register"
    /\ CtlFrame
    /\ UNCHANGED <<shm_cfg_sent, channelVars, dispatchVars, codelets_loaded, drain_tail,
                   drain_head, queue_tail, sm_running, ctl_msgs, straddled>>

\* shm_cfg_sent_ = false, running_ = true, spawn the worker.
Boot ==
    /\ ctl_pc = "boot"
    /\ shm_cfg_sent' = FALSE
    /\ running' = TRUE
    /\ worker_pc' = "check"
    /\ ctl_pc' = "register"
    /\ CtlFrame
    /\ UNCHANGED <<channelVars, dispatchVars, codelets_loaded, drain_tail,
                   drain_head, queue_tail, sm_running, ctl_msgs, straddled>>

Register ==
    /\ ctl_pc = "register"
    /\ RegisterStream
    /\ ctl_pc' = "sm_up"
    /\ CtlFrame
    /\ UNCHANGED <<channelVars, running, codelets_loaded, drain_tail,
                   drain_head, queue_tail, sm_running, shm_cfg_sent,
                   worker_pc, ctl_msgs, straddled>>

\* pipeline_.start() returned SUCCESS; only now is the service model running.
SmUp ==
    /\ ctl_pc = "sm_up"
    /\ sm_running' = TRUE
    /\ ctl_pc' = "idle"
    /\ CtlFrame
    /\ UNCHANGED <<channelVars, dispatchVars, running, codelets_loaded,
                   drain_tail, drain_head, queue_tail, shm_cfg_sent,
                   worker_pc, ctl_msgs, straddled>>

\* Last unsubscription.
SmStop ==
    /\ ctl_pc = "idle" /\ AgentUp
    /\ sm_running
    /\ sm_running' = FALSE
    /\ ctl_pc' = IF running THEN "unregister" ELSE "idle"
    /\ CtlFrame
    /\ UNCHANGED <<channelVars, dispatchVars, running, codelets_loaded,
                   drain_tail, drain_head, queue_tail, shm_cfg_sent,
                   worker_pc, ctl_msgs, straddled>>

Unregister ==
    /\ ctl_pc = "unregister"
    /\ UnregisterStream
    /\ straddled' = (straddled \/ InHandler)
    /\ ctl_pc' = "signal"
    /\ CtlFrame
    /\ UNCHANGED <<channelVars, running, codelets_loaded, drain_tail,
                   drain_head, queue_tail, sm_running, shm_cfg_sent,
                   worker_pc, ctl_msgs>>

SignalWorker ==
    /\ ctl_pc = "signal"
    /\ running' = FALSE
    /\ ctl_pc' = "join"
    /\ CtlFrame
    /\ UNCHANGED <<channelVars, dispatchVars, codelets_loaded, drain_tail,
                   drain_head, queue_tail, sm_running, shm_cfg_sent,
                   worker_pc, ctl_msgs, straddled>>

\* Mutant of JoinWorker: the queue is not drained.
JoinWorkerNoDrain ==
    /\ ctl_pc = "join"
    /\ worker_pc = "none"
    /\ drain_head' = queue_tail
    /\ drain_tail' = queue_tail
    /\ ctl_pc' = "drain"
    /\ CtlFrame
    /\ UNCHANGED <<channelVars, dispatchVars, running, codelets_loaded,
                   queue_tail, sm_running, shm_cfg_sent, worker_pc, ctl_msgs,
                   straddled>>

\* worker_.join() returns once the loop has ended; then stop() reads the
\* cursors.
JoinWorker ==
    /\ ctl_pc = "join"
    /\ worker_pc = "none"
    /\ drain_head' = queue_head
    /\ drain_tail' = queue_tail
    /\ ctl_pc' = "drain"
    /\ CtlFrame
    /\ UNCHANGED <<channelVars, dispatchVars, running, codelets_loaded,
                   queue_tail, sm_running, shm_cfg_sent, worker_pc, ctl_msgs,
                   straddled>>

DrainEntry ==
    /\ ctl_pc = "drain"
    /\ drain_tail # drain_head
    /\ Release(Entry(drain_tail).buf)
    /\ drain_tail' = drain_tail + 1
    /\ CtlFrame
    /\ UNCHANGED <<dispatchVars, running, codelets_loaded, ctl_pc, drain_head,
                   queue_tail, sm_running, shm_cfg_sent, worker_pc, ctl_msgs,
                   straddled>>

DrainDone ==
    /\ ctl_pc = "drain"
    /\ drain_tail = drain_head
    /\ queue_tail' = drain_head
    /\ ctl_pc' = IF codelets_loaded THEN "unload" ELSE "idle"
    /\ CtlFrame
    /\ UNCHANGED <<channelVars, dispatchVars, running, codelets_loaded,
                   drain_tail, drain_head, sm_running, shm_cfg_sent,
                   worker_pc, ctl_msgs, straddled>>

\* unload_codelets(): a failed request is logged, and the codelet stays.
UnloadCodelets ==
    /\ ctl_pc = "unload"
    /\ \/ DestroyChannel /\ straddled' = (straddled \/ bufs # <<>>)
       \/ UNCHANGED <<channelVars, straddled>>
    /\ codelets_loaded' = FALSE
    /\ ctl_pc' = "idle"
    /\ CtlFrame
    /\ UNCHANGED <<dispatchVars, running, drain_tail, drain_head, queue_tail,
                   sm_running, shm_cfg_sent, worker_pc, ctl_msgs>>

-----------------------------------------------------------------------------
(* Shutdown, on the main thread. *)

\* g_running is false: the poll loop ends and main enters agent.stop().
LeavePollLoop ==
    /\ poll_pc = "idle"
    /\ poll_pc' = "stopping"
    /\ UNCHANGED <<channelVars, registered, bufs, pipelineVars>>

\* agent.stop() has returned, so no libe3 thread is in start() or stop();
\* main calls slot_iq_pipeline.stop() itself.
MainStop ==
    /\ poll_pc = "stopping" /\ ctl_pc = "idle"
    /\ poll_pc' = "joining"
    /\ ctl_pc' = IF running THEN "unregister" ELSE "idle"
    /\ CtlFrame
    /\ UNCHANGED <<channelVars, registered, bufs, running, codelets_loaded,
                   drain_tail, drain_head, queue_tail, sm_running,
                   shm_cfg_sent, worker_pc, ctl_msgs, straddled>>

\* jbpf_io_stop() tears the IPC channels down.
JbpfIoStop ==
    /\ poll_pc = "joining" /\ ctl_pc = "idle"
    /\ poll_pc' = "exited"
    /\ DestroyChannel
    /\ UNCHANGED <<registered, bufs, pipelineVars>>

Exited == poll_pc = "exited" /\ UNCHANGED vars

-----------------------------------------------------------------------------
Init ==
    /\ DispatcherInit(~LoadsCodelets)
    /\ running = FALSE
    /\ codelets_loaded = FALSE
    /\ shm_cfg_sent = FALSE
    /\ queue = [i \in 0..QUEUE_CAPACITY-1 |-> EmptyEntry]
    /\ queue_head = 0
    /\ queue_tail = 0
    /\ dropped = 0
    /\ total_samples_received = 0
    /\ worker_pc = "none"
    /\ ctl_pc = "idle"
    /\ drain_tail = 0
    /\ drain_head = 0
    /\ sm_running = FALSE
    /\ not_running = 0
    /\ on_samples = 0
    /\ last_sample = 0
    /\ ctl_msgs = {}
    /\ straddled = FALSE

Codelet == CodeletOutput /\ UNCHANGED <<dispatchVars, pipelineVars>>

Dispatch == (Poll \/ Lookup \/ Discard) /\ UNCHANGED pipelineVars

ProcessBuffers ==
    \/ CfgCheck \/ SendShmCfg \/ SendSlotSel \/ MarkSent
    \/ QueueCheck \/ DropBuf \/ WriteEntry \/ PublishEntry

Worker ==
    \/ WorkerCheck \/ WorkerLoad \/ WorkerDispatch
    \/ WorkerRelease \/ WorkerAdvance

Start == LoadCodelets \/ LoadFails \/ Boot \/ Register \/ SmUp

Stop ==
    \/ Unregister \/ SignalWorker \/ JoinWorker
    \/ DrainEntry \/ DrainDone \/ UnloadCodelets

Shutdown == LeavePollLoop \/ MainStop \/ JbpfIoStop \/ Exited

Next ==
    \/ Codelet \/ Dispatch \/ ProcessBuffers \/ Worker
    \/ SmStart \/ Start \/ SmStop \/ Stop \/ Shutdown

\* Each thread keeps running: the poll loop and the worker never block, and
\* start() and stop() wait only for replies and for the worker.  Slots,
\* subscriptions and the shutdown signal come from outside and need not come.
Fairness ==
    /\ WF_vars(Dispatch) /\ WF_vars(ProcessBuffers)
    /\ WF_vars(Worker)
    /\ WF_vars(Start) /\ WF_vars(Stop)
    /\ WF_vars(MainStop) /\ WF_vars(JbpfIoStop)

Spec == Init /\ [][Next]_vars
FairSpec == Spec /\ Fairness

-----------------------------------------------------------------------------
(* Properties. *)

\* Every variable holds a value of its kind; the cursors and counters are
\* naturals, and the queue has QUEUE_CAPACITY entries.
TypeOK ==
    /\ DispatcherTypeOK
    /\ running \in BOOLEAN
    /\ codelets_loaded \in BOOLEAN
    /\ shm_cfg_sent \in BOOLEAN
    /\ queue \in [0..QUEUE_CAPACITY-1 -> QueueEntry \cup {EmptyEntry}]
    /\ queue_head \in Nat
    /\ queue_tail \in Nat
    /\ dropped \in Nat
    /\ total_samples_received \in Nat
    /\ worker_pc \in {"none", "check", "load", "dispatch", "release", "advance"}
    /\ ctl_pc \in {"idle", "load", "boot", "register", "sm_up", "unregister",
                   "signal", "join", "drain", "unload"}
    /\ drain_tail \in Nat
    /\ drain_head \in Nat
    /\ sm_running \in BOOLEAN
    /\ not_running \in Nat
    /\ on_samples \in Nat
    /\ last_sample \in Nat
    /\ ctl_msgs \subseteq {"e3_shm_cfg", "e3_slot_sel"}
    /\ straddled \in BOOLEAN

\* How many queued buffers have been given back: the worker releases an entry
\* before it advances the tail, stop() releases all of them before it does.
Released ==
    IF ctl_pc = "drain" THEN drain_tail
    ELSE IF worker_pc = "advance" THEN queue_tail + 1
    ELSE queue_tail

\* The entries whose buffer the pipeline still owns.
Owned == Released..queue_head-1

\* The places where buffer b of the current channel is held.
Holders(b) ==
    {<<"pool", 0>> : x \in {b} \cap free_bufs}
    \cup {<<"ring", i>> : i \in {j \in DOMAIN out_ring : out_ring[j] = b}}
    \cup {<<"batch", i>> : i \in {j \in DOMAIN bufs :
                                    bufs[j] = [load |-> load_id, buf |-> b]}}
    \cup {<<"queue", i>> : i \in {j \in Owned :
                                    Entry(j).buf = [load |-> load_id, buf |-> b]}}

\* While the codelet is loaded every buffer of its pool is in exactly one
\* place: none leaks and none is released twice, whatever the interleaving of
\* poll thread, worker, stop()'s drain and codelet (dispatcher contract, "on
\* each exactly once").
OneOwner ==
    channel_up => \A b \in Buffers : \E h \in Holders(b) : Holders(b) = {h}

\* The zero-copy queue is sound: as long as an entry owns its buffer, the
\* descriptor in the buffer is the one the entry's recv_us was computed from,
\* so dispatch_sample() never mixes two slots in one SlotSample.
QueuedSlotStable ==
    \A i \in Owned :
        Live(Entry(i).buf) => slot_in[Entry(i).buf.buf] = Entry(i).recv

\* The pipeline implements the ownership contract of a deferred stream.
Contract == INSTANCE DeferredRelease WITH
    Capacity <- QUEUE_CAPACITY,
    taken    <- queue_head,
    shown    <- last_sample,
    returned <- Released,
    retired  <- queue_tail

\* Buffers are shown to E3SMLayer1 in order, at most once and before their
\* release, and released exactly once, in a ring of QUEUE_CAPACITY entries.
ImplementsContract == Contract!Spec

\* The call of start() or stop() that libe3's thread or main is in.
Inside ==
    IF ctl_pc \in {"load", "boot", "register"} THEN "start"
    ELSE IF ctl_pc \in {"unregister", "signal", "join", "drain", "unload"} THEN "stop"
    ELSE "none"

Session == INSTANCE PipelineSession WITH
    inside   <- Inside,
    codelets <- codelets_loaded,
    worker   <- worker_pc # "none"

\* start() and stop() keep the session contract of a pipeline: the stream is
\* registered last and only over a live worker, the worker ends inside stop()
\* and before it returns, and the codelets are replaced only in between.
KeepsSession == Session!Spec

\* stop() has drained the queue and has nothing left to release.
Drained == ctl_pc \in {"unload", "load", "boot"} \/ (ctl_pc = "idle" /\ ~running)

\* If no batch was in flight when its stream went away, stop() leaves nothing
\* behind: the queue is empty from the drain to the next start(), and every
\* buffer the pipeline owns belongs to the codelet now loaded.
CleanStop ==
    ~straddled =>
        /\ Drained => queue_head = queue_tail
        /\ \A i \in Owned : Live(Entry(i).buf)

\* If no batch was in flight when its stream went away, shm_cfg_sent_ is true
\* in a running session only when the codelet of this session has been sent
\* both e3_shm_cfg and e3_slot_sel.
CfgSentToThisLoad ==
    ~straddled /\ running /\ shm_cfg_sent =>
        ctl_msgs = {"e3_shm_cfg", "e3_slot_sel"}

\* The queue is dimensioned so that it "never needs more entries" than the pool
\* has buffers (slot_iq_pipeline.h:195-196); with such a pool process_buffers()
\* finds it full only in the window between the worker's release of a buffer
\* and its store of the tail, where a slot is dropped all the same.
DropOnlyInReleaseWindow ==
    [][poll_pc # "drop" /\ poll_pc' = "drop" /\ ~straddled
          /\ Cardinality(Buffers) <= QUEUE_CAPACITY
       => worker_pc = "advance"]_vars

\* stop() returns: the worker leaves its loop and the drain ends.
StopReturns == ctl_pc = "unregister" ~> ctl_pc = "idle"

\* A buffer queued in a running session is given back, by the worker or by
\* stop(): the pool cannot run dry because the pipeline sits on buffers.
QueuedIsReleased ==
    \A i \in 0..MaxSlots-1 : (running /\ queue_head > i) ~> Released > i

-----------------------------------------------------------------------------
(* What comments of the code say and the code does not guarantee. *)

\* "release any it didn't reach BEFORE unload_codelets() tears down the
\* channel/mempool below" (slot_iq_pipeline.cpp:189-190).
NothingQueuedAtUnload == ctl_pc = "unload" => queue_head = queue_tail

\* "e3_shm_cfg + e3_slot_sel delivered to the CURRENT codelet load?"
\* (slot_iq_pipeline.h:280, the meaning of shm_cfg_sent_).
SentMeansCurrentLoad ==
    running /\ shm_cfg_sent => ctl_msgs = {"e3_shm_cfg", "e3_slot_sel"}

\* "a slot can be lost in two places" (e3_controller.cpp:441): every slot the
\* pipeline accepted has reached the service model when the drop accounting
\* is printed.
AcceptedReachesSm ==
    poll_pc = "exited" => on_samples = total_samples_received
=============================================================================
