----------------------------- MODULE IqPipeline -----------------------------
(***************************************************************************)
(* The eCPRI path, RF=1: the codelet (ecpri_iq_collect.c), IqPipeline      *)
(* (src/e3sm/iq_pipeline.cpp) and the Spectrum service model               *)
(* (src/e3sm/sm_spectrum/e3sm_spectrum.cpp) with the dApps subscribed to   *)
(* it.  The ring, its cursors and its release protocol are those of        *)
(* SlotIqPipeline; here the queue is a sequence whose head stays until the *)
(* tail moves on, and what is followed is the sections: which ones pass    *)
(* the two PRB filters, and where their buffers go on every path.  The     *)
(* controller loads and unloads the codelet; with no codelet_base_path it  *)
(* does neither, a case that SlotIqPipeline has.                           *)
(***************************************************************************)
EXTENDS Integers, Sequences, FiniteSets

CONSTANTS
    DApps,
    Sections,            \* sections the fronthaul may carry
    expected_num_prbu,   \* 0: no filter
    Encoding,            \* the agent's encoding: "asn1" or "json"
    Pool,                \* buffers of the output ring (64)
    QUEUE_CAPACITY       \* entries of the queue (64)

Section == [direction : {0, 1}, abs_slot : 0 .. 79, symbol : 0 .. 13,
            num_prbu : 0 .. 255, bytes : Nat]

ASSUME IqAssumption ==
    /\ Sections \subseteq Section
    /\ expected_num_prbu \in 0 .. 2^16 - 1
    /\ Encoding \in {"asn1", "json"}
    /\ Pool \in Nat \ {0} /\ QUEUE_CAPACITY \in Nat \ {0}

VARIABLES
    loaded,            \* the codelet is loaded and its channels exist
    prb_config_in,     \* messages waiting in prb_config_map
    prb_filter,        \* prb_filter_state
    used,              \* buffers of the pool that are not free
    out_ring,          \* samples not polled yet
    registered, poll_pc, bufs,                       \* poll thread
    running, prb_config_sent, queue,                 \* IqPipeline
    worker_pc, subs,                                 \* worker thread
    sm_running, ctl_pc, subscribers,                 \* service model
    straddled          \* history: this session began while a batch of an
                       \* earlier one was between its send and the flag

codeletVars == <<loaded, prb_config_in, prb_filter, out_ring>>
pollVars == <<poll_pc, bufs>>
workerVars == <<worker_pc, subs>>
ctlVars == <<registered, running, sm_running, ctl_pc, straddled>>
vars == <<codeletVars, used, pollVars, prb_config_sent, queue, workerVars,
          ctlVars, subscribers>>

-----------------------------------------------------------------------------
(* The codelet. *)

MAX_IQ_PAYLOAD_BYTES == 8192
TARGET_ABS_SLOT == 19
TARGET_SYMBOL_ID == 13

Targeted(s) == s.abs_slot = TARGET_ABS_SLOT /\ s.symbol = TARGET_SYMBOL_ID

\* The sample made of a section: numPrbu is eight bits wide with 0 for a whole
\* carrier, the size a uint16_t.
SampleOf(s) ==
    LET size == s.bytes % 2^16
    IN [direction |-> s.direction,
        num_prbu |-> IF s.num_prbu = 0 THEN 273 ELSE s.num_prbu,
        payload_size |-> IF size > MAX_IQ_PAYLOAD_BYTES
                         THEN MAX_IQ_PAYLOAD_BYTES ELSE size,
        live |-> TRUE]

\* Mutant of PassesFilter(filter, n): nothing passes until configured.
PassesFilterWhenSet(filter, n) == n = filter

PassesFilter(filter, n) == filter = 0 \/ n = filter

\* One packet.  A packet of another slot or symbol returns before the control
\* input is read.  sampling_config is never written, so nothing is skipped.
CodeletRun(s) ==
    LET filter == IF prb_config_in = <<>> THEN prb_filter ELSE Head(prb_config_in)
        sample == SampleOf(s)
        output == PassesFilter(filter, sample.num_prbu) /\ used < Pool
    IN /\ loaded
       /\ Targeted(s)
       /\ prb_filter' = filter
       /\ prb_config_in' = <<>>
       /\ out_ring' = IF output THEN Append(out_ring, sample) ELSE out_ring
       /\ used' = IF output THEN used + 1 ELSE used
       /\ UNCHANGED <<loaded, pollVars, prb_config_sent, queue, workerVars,
                      ctlVars, subscribers>>

\* jbpf_io_channel_release_buf: no effect for a channel that is gone.
Release(b) == used' = IF b.live THEN used - 1 ELSE used

\* A pointer to a buffer that was given back or whose channel is destroyed.  The
\* code reads a sample where it lies, so of one that is gone it may find anything.
Gone == [direction |-> 0, num_prbu |-> 0, payload_size |-> 0, live |-> FALSE]

\* What pointers are worth once their channel is destroyed.
Stale(s) == [i \in DOMAIN s |-> Gone]

-----------------------------------------------------------------------------
(* Poll thread: dispatch() and process_buffers(). *)

Poll ==
    /\ poll_pc = "idle"
    /\ \E n \in 1 .. Len(out_ring) :
          /\ bufs' = SubSeq(out_ring, 1, n)
          /\ out_ring' = SubSeq(out_ring, n + 1, Len(out_ring))
    /\ poll_pc' = "lookup"
    /\ UNCHANGED <<loaded, prb_config_in, prb_filter, used, prb_config_sent,
                   queue, workerVars, ctlVars, subscribers>>

\* Mutant of Lookup: a batch waits for its stream to be registered.
LookupWaits ==
    /\ poll_pc = "lookup" /\ registered
    /\ poll_pc' = IF prb_config_sent THEN "filter" ELSE "send_prb"
    /\ UNCHANGED <<codeletVars, used, bufs, prb_config_sent, queue, workerVars,
                   ctlVars, subscribers>>

Lookup ==
    /\ poll_pc = "lookup"
    /\ poll_pc' = IF ~registered THEN "discard"
                  ELSE IF prb_config_sent THEN "filter" ELSE "send_prb"
    /\ UNCHANGED <<codeletVars, used, bufs, prb_config_sent, queue, workerVars,
                   ctlVars, subscribers>>

\* The PRB filter, with the first batch; a full or missing control input makes
\* the send fail, and the next batch tries again.
SendPrbConfig ==
    /\ poll_pc = "send_prb"
    /\ loaded /\ prb_config_in = <<>>
    /\ prb_config_in' = <<expected_num_prbu>>
    /\ poll_pc' = "mark_sent"
    /\ UNCHANGED <<loaded, prb_filter, out_ring, used, bufs, prb_config_sent,
                   queue, workerVars, ctlVars, subscribers>>

SendFails ==
    /\ poll_pc = "send_prb"
    /\ poll_pc' = "filter"
    /\ UNCHANGED <<codeletVars, used, bufs, prb_config_sent, queue, workerVars,
                   ctlVars, subscribers>>

MarkSent ==
    /\ poll_pc = "mark_sent"
    /\ prb_config_sent' = TRUE
    /\ poll_pc' = "filter"
    /\ UNCHANGED <<codeletVars, used, bufs, queue, workerVars, ctlVars,
                   subscribers>>

NextBuf(pc) ==
    /\ bufs' = Tail(bufs)
    /\ poll_pc' = IF Len(bufs) = 1 THEN "idle" ELSE pc

Discard ==
    /\ poll_pc = "discard"
    /\ Release(Head(bufs))
    /\ NextBuf("discard")
    /\ UNCHANGED <<codeletVars, prb_config_sent, queue, workerVars, ctlVars,
                   subscribers>>

Wanted(b) ==
    /\ b.direction = 1
    /\ expected_num_prbu > 0 => b.num_prbu = expected_num_prbu

MayPass(b) == ~b.live \/ Wanted(b)
MayFail(b) == ~b.live \/ ~Wanted(b)

\* Mutant of DropBuf: a filtered buffer is not given back.
DropBufKeeps ==
    /\ poll_pc = "filter"
    /\ MayFail(Head(bufs)) \/ Len(queue) >= QUEUE_CAPACITY
    /\ NextBuf("filter")
    /\ UNCHANGED <<codeletVars, used, prb_config_sent, queue, workerVars,
                   ctlVars, subscribers>>

\* Another direction, another PRB count or no room: the buffer goes back.
DropBuf ==
    /\ poll_pc = "filter"
    /\ MayFail(Head(bufs)) \/ Len(queue) >= QUEUE_CAPACITY
    /\ Release(Head(bufs))
    /\ NextBuf("filter")
    /\ UNCHANGED <<codeletVars, prb_config_sent, queue, workerVars, ctlVars,
                   subscribers>>

Enqueue ==
    /\ poll_pc = "filter"
    /\ MayPass(Head(bufs)) /\ Len(queue) < QUEUE_CAPACITY
    /\ queue' = Append(queue, Head(bufs))
    /\ NextBuf("filter")
    /\ UNCHANGED <<codeletVars, used, prb_config_sent, workerVars, ctlVars,
                   subscribers>>

-----------------------------------------------------------------------------
(* Worker thread: worker_loop(), dispatch_sample() and on_sample(). *)

WorkerCheck ==
    /\ worker_pc = "check"
    /\ worker_pc' = IF ~running THEN "none"
                    ELSE IF queue = <<>> THEN "check" ELSE "dispatch"
    /\ UNCHANGED <<codeletVars, used, pollVars, prb_config_sent, queue, subs,
                   ctlVars, subscribers>>

BFP_PRB_SIZE == 28
Decompresses(b) == b.payload_size >= b.num_prbu * BFP_PRB_SIZE

\* A section that does not decompress, or that comes when the service model is
\* not running, is only released.
Decompress ==
    /\ worker_pc = "dispatch"
    /\ LET b == Head(queue)
       IN \/ /\ ~b.live \/ Decompresses(b)
             /\ worker_pc' = IF sm_running THEN "snapshot" ELSE "release"
          \/ /\ ~b.live \/ ~Decompresses(b)
             /\ worker_pc' = "release"
    /\ UNCHANGED <<codeletVars, used, pollVars, prb_config_sent, queue, subs,
                   ctlVars, subscribers>>

\* get_subscribers(), the encoding check and the encoding, which may fail.  A
\* section that decompressed is never empty or too short for the padding.
Snapshot ==
    /\ worker_pc = "snapshot"
    /\ \/ /\ Encoding = "asn1" /\ subscribers # {}
          /\ subs' = subscribers
          /\ worker_pc' = "emit"
       \/ worker_pc' = "release" /\ UNCHANGED subs
    /\ UNCHANGED <<codeletVars, used, pollVars, prb_config_sent, queue,
                   ctlVars, subscribers>>

\* One indication per subscriber; a failed emit is logged and skipped.
Emit ==
    /\ worker_pc = "emit"
    /\ \E d \in subs :
          /\ subs' = subs \ {d}
          /\ worker_pc' = IF subs = {d} THEN "release" ELSE "emit"
    /\ UNCHANGED <<codeletVars, used, pollVars, prb_config_sent, queue,
                   ctlVars, subscribers>>

\* The buffer goes back; its entry is taken until the tail has moved on.
WorkerRelease ==
    /\ worker_pc = "release"
    /\ Release(Head(queue))
    /\ queue' = [queue EXCEPT ![1] = Gone]
    /\ worker_pc' = "advance"
    /\ UNCHANGED <<codeletVars, pollVars, prb_config_sent, subs, ctlVars,
                   subscribers>>

WorkerAdvance ==
    /\ worker_pc = "advance"
    /\ queue' = Tail(queue)
    /\ worker_pc' = "check"
    /\ UNCHANGED <<codeletVars, used, pollVars, prb_config_sent, subs, ctlVars,
                   subscribers>>

-----------------------------------------------------------------------------
(* libe3's control thread: subscriptions, start() and stop(). *)

Subscribe ==
    /\ ctl_pc = "idle"
    /\ \E d \in DApps \ subscribers : subscribers' = subscribers \cup {d}
    /\ UNCHANGED <<codeletVars, used, pollVars, prb_config_sent, queue,
                   workerVars, ctlVars>>

Unsubscribe ==
    /\ ctl_pc = "idle"
    /\ \E d \in subscribers : subscribers' = subscribers \ {d}
    /\ UNCHANGED <<codeletVars, used, pollVars, prb_config_sent, queue,
                   workerVars, ctlVars>>

\* E3SMSpectrum::start() of the first subscription.  A load that fails leaves
\* everything as it was.
LoadCodelets ==
    /\ ctl_pc = "idle" /\ subscribers # {} /\ ~sm_running
    /\ loaded' = TRUE
    /\ prb_config_in' = <<>> /\ prb_filter' = 0
    /\ out_ring' = <<>> /\ used' = 0
    /\ bufs' = Stale(bufs) /\ queue' = Stale(queue)
    /\ ctl_pc' = "boot"
    /\ UNCHANGED <<poll_pc, prb_config_sent, workerVars, registered, running,
                   sm_running, straddled, subscribers>>

\* Mutant of Boot: prb_config_sent_ keeps its value of the last load.
BootKeepsFlag ==
    /\ ctl_pc = "boot"
    /\ running' = TRUE
    /\ worker_pc' = "check"
    /\ straddled' = (poll_pc = "mark_sent")
    /\ ctl_pc' = "register"
    /\ UNCHANGED <<codeletVars, used, pollVars, prb_config_sent, queue, subs,
                   registered, sm_running, subscribers>>

\* A batch that was handed to the old handler may be anywhere in it.
Boot ==
    /\ ctl_pc = "boot"
    /\ prb_config_sent' = FALSE
    /\ running' = TRUE
    /\ worker_pc' = "check"
    /\ straddled' = (poll_pc = "mark_sent")
    /\ ctl_pc' = "register"
    /\ UNCHANGED <<codeletVars, used, pollVars, queue, subs, registered,
                   sm_running, subscribers>>

Register ==
    /\ ctl_pc = "register"
    /\ registered' = TRUE
    /\ ctl_pc' = "sm_up"
    /\ UNCHANGED <<codeletVars, used, pollVars, prb_config_sent, queue,
                   workerVars, running, sm_running, straddled, subscribers>>

SmUp ==
    /\ ctl_pc = "sm_up"
    /\ sm_running' = TRUE
    /\ ctl_pc' = "idle"
    /\ UNCHANGED <<codeletVars, used, pollVars, prb_config_sent, queue,
                   workerVars, registered, running, straddled, subscribers>>

\* E3SMSpectrum::stop() after the last unsubscription.
SmStop ==
    /\ ctl_pc = "idle" /\ subscribers = {} /\ sm_running
    /\ sm_running' = FALSE
    /\ ctl_pc' = "unregister"
    /\ UNCHANGED <<codeletVars, used, pollVars, prb_config_sent, queue,
                   workerVars, registered, running, straddled, subscribers>>

\* A batch in flight is not waited for.
Unregister ==
    /\ ctl_pc = "unregister"
    /\ registered' = FALSE
    /\ ctl_pc' = "signal"
    /\ UNCHANGED <<codeletVars, used, pollVars, prb_config_sent, queue,
                   workerVars, running, sm_running, straddled, subscribers>>

SignalWorker ==
    /\ ctl_pc = "signal"
    /\ running' = FALSE
    /\ ctl_pc' = "join"
    /\ UNCHANGED <<codeletVars, used, pollVars, prb_config_sent, queue,
                   workerVars, registered, sm_running, straddled, subscribers>>

\* How many buffers of s are to be given back to the loaded channel.
LiveIn(s) == Cardinality({i \in DOMAIN s : s[i].live})

\* Mutant of JoinWorker: stop() does not wait for the worker.
JoinWorkerEarly ==
    /\ ctl_pc = "join"
    /\ ctl_pc' = "unload"
    /\ UNCHANGED <<codeletVars, used, queue, pollVars, prb_config_sent,
                   workerVars, registered, running, sm_running, straddled,
                   subscribers>>

\* The worker has ended; what is left in the queue is given back.
JoinWorker ==
    /\ ctl_pc = "join" /\ worker_pc = "none"
    /\ used' = used - LiveIn(queue)
    /\ queue' = <<>>
    /\ ctl_pc' = "unload"
    /\ UNCHANGED <<codeletVars, pollVars, prb_config_sent, workerVars,
                   registered, running, sm_running, straddled, subscribers>>

\* A failed request is logged, and the codelet stays.
UnloadCodelets ==
    /\ ctl_pc = "unload"
    /\ \/ /\ loaded' = FALSE
          /\ prb_config_in' = <<>> /\ prb_filter' = 0
          /\ out_ring' = <<>> /\ used' = 0
          /\ bufs' = Stale(bufs) /\ queue' = Stale(queue)
       \/ UNCHANGED <<codeletVars, used, bufs, queue>>
    /\ ctl_pc' = "idle"
    /\ UNCHANGED <<poll_pc, prb_config_sent, workerVars, registered, running,
                   sm_running, straddled, subscribers>>

-----------------------------------------------------------------------------
Init ==
    /\ loaded = FALSE
    /\ prb_config_in = <<>> /\ prb_filter = 0
    /\ used = 0 /\ out_ring = <<>>
    /\ registered = FALSE /\ poll_pc = "idle" /\ bufs = <<>>
    /\ running = FALSE /\ prb_config_sent = FALSE /\ queue = <<>>
    /\ worker_pc = "none" /\ subs = {}
    /\ sm_running = FALSE /\ ctl_pc = "idle" /\ subscribers = {}
    /\ straddled = FALSE

Codelet == \E s \in Sections : CodeletRun(s)

PollThread ==
    \/ Poll \/ Lookup \/ SendPrbConfig \/ SendFails \/ MarkSent
    \/ Discard \/ DropBuf \/ Enqueue

Worker ==
    \/ WorkerCheck \/ Decompress \/ Snapshot \/ Emit \/ WorkerRelease
    \/ WorkerAdvance

Start == Boot \/ Register \/ SmUp
Stop == Unregister \/ SignalWorker \/ JoinWorker \/ UnloadCodelets
Control == Subscribe \/ Unsubscribe \/ LoadCodelets \/ Start \/ SmStop \/ Stop

Next == Codelet \/ PollThread \/ Worker \/ Control

\* The threads keep running, packets of the target symbol keep coming, and a
\* send that is tried over and over succeeds.
Fairness ==
    /\ WF_<<codeletVars, used>>(Codelet) /\ WF_pollVars(PollThread)
    /\ WF_worker_pc(Worker) /\ WF_ctl_pc(Start \/ Stop)
    /\ SF_poll_pc(SendPrbConfig)

Spec == Init /\ [][Next]_vars
FairSpec == Spec /\ Fairness

-----------------------------------------------------------------------------
(* Properties. *)

\* The control input holds one message or none.
ControlInput == {<<>>, <<expected_num_prbu>>}

PollSteps == {"idle", "lookup", "discard", "send_prb", "mark_sent", "filter"}
WorkerSteps == {"none", "check", "dispatch", "snapshot", "emit", "release",
                "advance"}
CtlSteps == {"idle", "boot", "register", "sm_up", "unregister", "signal",
             "join", "unload"}

Buf == [direction : {0, 1}, num_prbu : Nat, payload_size : Nat, live : BOOLEAN]

\* Every variable holds a value of its kind.
TypeOK ==
    /\ loaded \in BOOLEAN /\ registered \in BOOLEAN /\ running \in BOOLEAN
    /\ sm_running \in BOOLEAN /\ prb_config_sent \in BOOLEAN
    /\ straddled \in BOOLEAN
    /\ prb_config_in \in ControlInput
    /\ prb_filter \in {0, expected_num_prbu}
    /\ used \in 0 .. Pool
    /\ out_ring \in Seq(Buf) /\ bufs \in Seq(Buf) /\ queue \in Seq(Buf)
    /\ poll_pc \in PollSteps /\ worker_pc \in WorkerSteps /\ ctl_pc \in CtlSteps
    /\ subs \in SUBSET DApps /\ subscribers \in SUBSET DApps

\* Whatever becomes of a section (wrong direction, wrong PRB count, full queue,
\* failed decompression, nobody listening, sent), its buffer is given back
\* exactly once: those in use are those in the ring, the batch and the queue.
BuffersConserved == used = LiveIn(out_ring) + LiveIn(bufs) + LiveIn(queue)

\* prb_config_sent_ is true in a running session only when this load's codelet
\* has the filter or finds it in its control input, whatever batches outlived
\* their stream before; excepted is a session that began while one of them was
\* between its send and the flag.
ConfigSentToThisLoad ==
    ~straddled /\ running /\ prb_config_sent =>
        \/ prb_filter = expected_num_prbu
        \/ prb_config_in = <<expected_num_prbu>>

\* After E3SMSpectrum::stop() has returned no indication is sent.
QuietAfterStop == ctl_pc = "idle" /\ ~sm_running => worker_pc # "emit"

\* The call of start() or stop() that libe3's thread is in.
Inside ==
    IF ctl_pc \in {"boot", "register"} THEN "start"
    ELSE IF ctl_pc \in {"unregister", "signal", "join", "unload"} THEN "stop"
    ELSE "none"

Session == INSTANCE PipelineSession WITH
    inside   <- Inside,
    codelets <- loaded,
    worker   <- worker_pc # "none"

\* start() and stop() keep the session contract of a pipeline: the stream is
\* registered last and only over a live worker, the worker ends inside stop()
\* and before it returns, and the codelet is replaced only in between.
KeepsSession == Session!Spec

\* The filter reaches every codelet that is loaded, by way of the unfiltered
\* sections it lets through at first, unless the session ends or began while a
\* batch of an earlier one was between its send and the flag.
FilterSettles ==
    running ~> prb_filter = expected_num_prbu \/ ~running \/ straddled

\* A batch in flight is queued after stop() has emptied the queue.  When the
\* codelet stays because its unload failed, nobody gives these buffers back
\* until the next session; here they are the whole pool.
PoolStranded ==
    ctl_pc = "idle" /\ ~running /\ loaded /\ LiveIn(queue) = Pool

\* A pool that has run dry recovers, except while all of it is stranded in the
\* queue of a stopped pipeline.
PoolRecovers == used = Pool ~> used < Pool \/ PoolStranded
=============================================================================
