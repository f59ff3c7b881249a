----------------------------- MODULE E3SMLayer1 -----------------------------
(***************************************************************************)
(* The L1-KPM service model (src/e3sm/l1_kpm/e3sm_layer_1.cpp): on_sample  *)
(* on the worker thread, start(), stop() and destroy() on the thread that  *)
(* handles subscriptions, and dApps that come and go meanwhile.            *)
(* The pipeline below it is reduced to what SlotIqPipeline establishes:    *)
(* its worker calls on_sample for one slot at a time, from within start()  *)
(* until stop() has joined it.                                             *)
(***************************************************************************)
EXTENDS SlotLadder

CONSTANTS
    DApps,
    ShmWriters,    \* values of shm.writer: "gnb", "controller"
    target_slot,   \* -1: no filter
    geom,          \* configured geometry
    RanGeoms,      \* geometries the gNB may be running with
    SlotIds,
    MaxSlots,      \* bound: slots the worker delivers
    MaxSessions    \* bound: subscriptions that start a session

Geometry == [ports : Nat, symbols : Nat, subcarriers : Nat]

ASSUME LayerAssumption ==
    /\ ShmWriters \subseteq {"gnb", "controller"}
    /\ target_slot \in Int
    /\ geom \in Geometry /\ RanGeoms \subseteq Geometry /\ RanGeoms # {}
    /\ MaxSlots \in Nat /\ MaxSessions \in Nat

VARIABLES
    running,             \* running_
    writer_mode,         \* writer_mode_, set once
    geometry_checked, geometry_ok,
    truncated_warned, writer_mode_warned,
    slot_publish_seq,
    drops,               \* drops_
    shm_open,            \* shm_writer_ holds the region
    pc,                  \* where on_sample is
    slot,                \* its sample
    subs,                \* its snapshot: dApps still to be sent the slot
    worker,              \* the pipeline's worker thread exists
    ctl_pc,              \* where start(), stop() or destroy() is
    subscribers,         \* libe3's subscriptions to RF=2
    ran_geom,            \* what the running gNB reports
    sessions,            \* calls of start() so far
    arrivals,            \* history: calls of on_sample
    first_geo,           \* history: geometry of the slot that was checked
    emitted,             \* history: calls of emit_outbound
    late,                \* history: slots sent to a dApp since it left
    refused, warned      \* history: this session refused a slot / said so

ctlVars == <<running, shm_open, worker, ctl_pc, subscribers, ran_geom, sessions>>
warnVars == <<truncated_warned, writer_mode_warned, refused, warned>>
geometryVars == <<writer_mode, geometry_checked, geometry_ok, first_geo>>
smVars == <<geometryVars, slot_publish_seq, drops, arrivals>>
sampleVars == <<pc, slot, subs, emitted, late>>
vars == <<ctlVars, warnVars, smVars, sampleVars>>

\* enum Drop, without COUNT.
Drop == {"NotRunning", "SlotFiltered", "GeometryMismatch", "NoIq",
         "BlobTooSmall", "RanPublishedNothing", "NoSubscribers",
         "EncodeFailed", "EmitFailed"}

-----------------------------------------------------------------------------
(* Worker thread: on_sample(). *)

GridBytes(g) == g.ports * g.symbols * g.subcarriers * 4

\* What dispatch_sample() makes of a descriptor: no IQ on this path, and the
\* helper either wrote the rung or refused it, as it does when a row is
\* smaller; nothing written is flagged truncated.
Samples ==
    {[slot_id |-> i, geo |-> ran_geom, iq_size_bytes |-> 0,
      bytes_written |-> b, truncated |-> b = 0] :
         i \in SlotIds,
         b \in {0} \cup ({Rung(GridBytes(ran_geom))} \cap 0 .. GridBytes(geom))}

\* A field the RAN leaves zero is not compared.
validate_against_ran(g) ==
    /\ g.ports # 0 => geom.ports <= g.ports
    /\ g.symbols # 0 => geom.symbols = g.symbols
    /\ g.subcarriers # 0 => geom.subcarriers = g.subcarriers

ports_clamped(g) ==
    IF g.ports = 0 THEN 1
    ELSE IF g.ports > geom.ports THEN geom.ports ELSE g.ports

ExpectedBytes(s) ==
    ports_clamped(s.geo) * geom.symbols * geom.subcarriers * 4

writes_rows == writer_mode = "controller"

Filtered(s) == target_slot >= 0 /\ s.slot_id # target_slot

\* Whether the geometry check is passed by slot s.
GeometryOk(s) ==
    IF geometry_checked THEN geometry_ok ELSE validate_against_ran(s.geo)

\* The checks of on_sample before it asks for subscribers, in their order.
Verdict(s) ==
    IF ~running THEN "NotRunning"
    ELSE IF Filtered(s) THEN "SlotFiltered"
    ELSE IF ~GeometryOk(s) THEN "GeometryMismatch"
    ELSE IF writes_rows
         THEN IF s.iq_size_bytes = 0 THEN "NoIq"
              ELSE IF s.iq_size_bytes < ExpectedBytes(s) THEN "BlobTooSmall"
              ELSE "pass"
    ELSE IF s.truncated \/ s.bytes_written = 0 THEN "RanPublishedNothing"
    ELSE "pass"

\* Counted; the throttled report that note_drop() drives is left out.
NoteDrop(d) == drops' = [drops EXCEPT ![d] = @ + 1]

\* Mutant of CheckGeometry: the verdict is not latched.
CheckGeometryForgets(s) ==
    /\ geometry_checked' = (geometry_checked \/ (running /\ ~Filtered(s)))
    /\ first_geo' = IF geometry_checked THEN first_geo ELSE s.geo
    /\ UNCHANGED geometry_ok

\* One-shot geometry check on the first slot that gets that far.
CheckGeometry(s) ==
    LET reached == running /\ ~Filtered(s)
    IN /\ geometry_checked' = (geometry_checked \/ reached)
       /\ first_geo' = IF reached /\ ~geometry_checked THEN s.geo ELSE first_geo
       /\ geometry_ok' = IF reached THEN GeometryOk(s) ELSE geometry_ok

\* One-shot warnings of a session in which nothing can be published.
Warn(v) ==
    /\ truncated_warned' = (truncated_warned \/ v = "RanPublishedNothing")
    /\ writer_mode_warned' = (writer_mode_warned \/ v = "NoIq")
    /\ refused' = (refused \/ v \in {"RanPublishedNothing", "NoIq"})
    /\ warned' = (warned \/ (v = "RanPublishedNothing" /\ ~truncated_warned)
                         \/ (v = "NoIq" /\ ~writer_mode_warned))

\* running_ is a plain bool that start() and stop() write; everything else up
\* to get_subscribers() is the worker's own.
OnSample ==
    /\ worker /\ pc = "idle" /\ arrivals < MaxSlots
    /\ arrivals' = arrivals + 1
    /\ \E s \in Samples :
         /\ CheckGeometry(s)
         /\ Warn(Verdict(s))
         /\ \/ /\ Verdict(s) = "pass"
               /\ slot' = s
               /\ pc' = "subs"
               /\ UNCHANGED drops
            \/ /\ Verdict(s) # "pass"
               /\ NoteDrop(Verdict(s))
               /\ UNCHANGED <<slot, pc>>
    /\ UNCHANGED <<ctlVars, writer_mode, slot_publish_seq, subs, emitted, late>>

\* Mutant of Snapshot: the sequence number is taken before the check.
SnapshotCountsFirst ==
    /\ pc = "subs"
    /\ subs' = subscribers
    /\ slot_publish_seq' = slot_publish_seq + 1
    /\ \/ subscribers = {} /\ NoteDrop("NoSubscribers") /\ pc' = "idle"
       \/ subscribers # {} /\ pc' = "encode" /\ UNCHANGED drops
    /\ UNCHANGED <<ctlVars, warnVars, geometryVars, arrivals, slot,
                   emitted, late>>

\* get_subscribers(), and the slot enters the traced region if there are any.
Snapshot ==
    /\ pc = "subs"
    /\ subs' = subscribers
    /\ \/ /\ subscribers = {}
          /\ NoteDrop("NoSubscribers")
          /\ pc' = "idle"
          /\ UNCHANGED slot_publish_seq
       \/ /\ subscribers # {}
          /\ slot_publish_seq' = slot_publish_seq + 1
          /\ pc' = "encode"
          /\ UNCHANGED drops
    /\ UNCHANGED <<ctlVars, warnVars, geometryVars, arrivals, slot,
                   emitted, late>>

\* The encoders may fail; the slot then ends here.
Encode ==
    /\ pc = "encode"
    /\ \/ pc' = "emit" /\ UNCHANGED drops
       \/ pc' = "idle" /\ NoteDrop("EncodeFailed")
    /\ UNCHANGED <<ctlVars, warnVars, geometryVars, slot_publish_seq,
                   arrivals, slot, subs, emitted, late>>

\* Mutant of Emit: a rejected indication is tried again.
EmitRetries(d) ==
    /\ pc = "emit" /\ d \in subs
    /\ emitted' = emitted + 1
    /\ late' = IF d \in subscribers THEN late ELSE [late EXCEPT ![d] = @ + 1]
    /\ \/ NoteDrop("EmitFailed") /\ UNCHANGED subs
       \/ subs' = subs \ {d} /\ UNCHANGED drops
    /\ UNCHANGED <<ctlVars, warnVars, geometryVars, slot_publish_seq,
                   arrivals, pc, slot>>

\* One indication of the fan-out; libe3 may reject it.
Emit(d) ==
    /\ pc = "emit" /\ d \in subs
    /\ subs' = subs \ {d}
    /\ emitted' = emitted + 1
    /\ late' = IF d \in subscribers THEN late ELSE [late EXCEPT ![d] = @ + 1]
    /\ NoteDrop("EmitFailed") \/ UNCHANGED drops
    /\ UNCHANGED <<ctlVars, warnVars, geometryVars, slot_publish_seq,
                   arrivals, pc, slot>>

EmitTail ==
    /\ pc = "emit" /\ subs = {}
    /\ pc' = "idle"
    /\ UNCHANGED <<ctlVars, warnVars, smVars, slot, subs, emitted, late>>

-----------------------------------------------------------------------------
(* libe3's subscriptions, and the calls they lead to. *)

Subscribe(d) ==
    /\ ctl_pc = "idle" /\ d \notin subscribers
    /\ subscribers # {} \/ sessions < MaxSessions
    /\ subscribers' = subscribers \cup {d}
    /\ late' = [late EXCEPT ![d] = 0]
    /\ ctl_pc' = IF subscribers = {} THEN "start" ELSE "idle"
    /\ UNCHANGED <<running, shm_open, worker, ran_geom, sessions, warnVars,
                   smVars, pc, slot, subs, emitted>>

Unsubscribe(d) ==
    /\ ctl_pc = "idle" /\ d \in subscribers
    /\ subscribers' = subscribers \ {d}
    /\ ctl_pc' = IF subscribers = {d} THEN "stop" ELSE "idle"
    /\ UNCHANGED <<running, shm_open, worker, ran_geom, sessions, warnVars,
                   smVars, sampleVars>>

\* Mutant of Start: the one-shot warnings are not reset.
StartKeepsWarnings ==
    /\ ctl_pc = "start"
    /\ sessions' = sessions + 1
    /\ ctl_pc' = IF running THEN "idle" ELSE "boot"
    /\ IF running THEN UNCHANGED warnVars
       ELSE /\ refused' = FALSE /\ warned' = FALSE
            /\ UNCHANGED <<truncated_warned, writer_mode_warned>>
    /\ UNCHANGED <<running, shm_open, worker, subscribers, ran_geom, smVars,
                   sampleVars>>

\* start() up to pipeline_.start().
Start ==
    /\ ctl_pc = "start"
    /\ sessions' = sessions + 1
    /\ ctl_pc' = IF running THEN "idle" ELSE "boot"
    /\ IF running THEN UNCHANGED warnVars
       ELSE /\ truncated_warned' = FALSE /\ writer_mode_warned' = FALSE
            /\ refused' = FALSE /\ warned' = FALSE
    /\ UNCHANGED <<running, shm_open, worker, subscribers, ran_geom, smVars,
                   sampleVars>>

\* pipeline_.start(): the worker runs before running_ is set.
Boot ==
    /\ ctl_pc = "boot"
    /\ worker' = TRUE
    /\ ctl_pc' = "sm_up"
    /\ UNCHANGED <<running, shm_open, subscribers, ran_geom, sessions,
                   warnVars, smVars, sampleVars>>

\* pipeline_.start() failed: start() returns its error.  What libe3 does with
\* the subscription is its own business.
BootFails ==
    /\ ctl_pc = "boot"
    /\ subscribers' \in {subscribers, {}}
    /\ ctl_pc' = "idle"
    /\ UNCHANGED <<running, shm_open, worker, ran_geom, sessions, warnVars,
                   smVars, sampleVars>>

SmUp ==
    /\ ctl_pc = "sm_up"
    /\ running' = TRUE
    /\ ctl_pc' = "idle"
    /\ UNCHANGED <<shm_open, worker, subscribers, ran_geom, sessions,
                   warnVars, smVars, sampleVars>>

\* stop(): nothing to do, or clear running_ and stop the pipeline.
Stop ==
    /\ ctl_pc = "stop"
    /\ running' = FALSE
    /\ ctl_pc' = IF running THEN "join" ELSE "idle"
    /\ UNCHANGED <<shm_open, worker, subscribers, ran_geom, sessions,
                   warnVars, smVars, sampleVars>>

\* Mutant of JoinWorker: stop() does not wait for a fan-out in progress.
JoinWorkerEarly ==
    /\ \/ ctl_pc \in {"join", "destroy_join"} /\ pc = "idle"
       \/ ctl_pc = "join" /\ pc = "emit"
    /\ worker' = FALSE
    /\ ctl_pc' = IF ctl_pc = "join" THEN "idle" ELSE "close"
    /\ UNCHANGED <<running, shm_open, subscribers, ran_geom, sessions,
                   warnVars, smVars, sampleVars>>

\* pipeline_.stop() returns when the worker has finished its slot.
JoinWorker ==
    /\ ctl_pc \in {"join", "destroy_join"} /\ pc = "idle"
    /\ worker' = FALSE
    /\ ctl_pc' = IF ctl_pc = "join" THEN "idle" ELSE "close"
    /\ UNCHANGED <<running, shm_open, subscribers, ran_geom, sessions,
                   warnVars, smVars, sampleVars>>

\* destroy(): stop(), then close the region.
Destroy ==
    /\ ctl_pc = "idle"
    /\ running' = FALSE
    /\ ctl_pc' = IF running THEN "destroy_join" ELSE "close"
    /\ UNCHANGED <<shm_open, worker, subscribers, ran_geom, sessions,
                   warnVars, smVars, sampleVars>>

Close ==
    /\ ctl_pc = "close"
    /\ shm_open' = FALSE
    /\ ctl_pc' = "destroyed"
    /\ UNCHANGED <<running, worker, subscribers, ran_geom, sessions, warnVars,
                   smVars, sampleVars>>

\* The gNB is restarted, with another cell configuration, between sessions.
GnbRestart ==
    /\ ~worker /\ ctl_pc = "idle"
    /\ ran_geom' \in RanGeoms \ {ran_geom}
    /\ UNCHANGED <<running, shm_open, worker, ctl_pc, subscribers, sessions,
                   warnVars, smVars, sampleVars>>

-----------------------------------------------------------------------------
\* The state init() leaves: region open, consumer registered, nothing running.
Init ==
    /\ running = FALSE /\ writer_mode \in ShmWriters
    /\ geometry_checked = FALSE /\ geometry_ok = TRUE
    /\ truncated_warned = FALSE /\ writer_mode_warned = FALSE
    /\ slot_publish_seq = 0
    /\ drops = [d \in Drop |-> 0]
    /\ shm_open = TRUE
    /\ pc = "idle"
    /\ ran_geom \in RanGeoms
    /\ first_geo = ran_geom
    /\ slot = [slot_id |-> 0, geo |-> ran_geom, iq_size_bytes |-> 0,
               bytes_written |-> 0, truncated |-> FALSE]
    /\ subs = {}
    /\ worker = FALSE
    /\ ctl_pc = "idle"
    /\ subscribers = {}
    /\ sessions = 0
    /\ arrivals = 0
    /\ emitted = 0
    /\ late = [d \in DApps |-> 0]
    /\ refused = FALSE /\ warned = FALSE

Worker == OnSample \/ Snapshot \/ Encode \/ (\E d \in DApps : Emit(d)) \/ EmitTail

Control == Start \/ Boot \/ BootFails \/ SmUp \/ Stop \/ JoinWorker \/ Close

Next ==
    \/ Worker \/ Control \/ Destroy \/ GnbRestart
    \/ \E d \in DApps : Subscribe(d) \/ Unsubscribe(d)

Spec == Init /\ [][Next]_vars

-----------------------------------------------------------------------------
(* Properties. *)

\* Every variable holds a value of its kind.
TypeOK ==
    /\ writer_mode \in ShmWriters
    /\ running \in BOOLEAN /\ worker \in BOOLEAN /\ shm_open \in BOOLEAN
    /\ geometry_checked \in BOOLEAN /\ geometry_ok \in BOOLEAN
    /\ truncated_warned \in BOOLEAN /\ writer_mode_warned \in BOOLEAN
    /\ slot_publish_seq \in Nat
    /\ drops \in [Drop -> Nat]
    /\ pc \in {"idle", "subs", "encode", "emit"}
    /\ slot.geo \in RanGeoms
    /\ subs \subseteq DApps /\ subscribers \subseteq DApps
    /\ ctl_pc \in {"idle", "start", "boot", "sm_up", "stop", "join",
                   "destroy_join", "close", "destroyed"}
    /\ ran_geom \in RanGeoms /\ first_geo \in RanGeoms
    /\ sessions \in Nat /\ arrivals \in Nat /\ emitted \in Nat
    /\ late \in [DApps -> Nat]
    /\ refused \in BOOLEAN /\ warned \in BOOLEAN

\* Slots that ended before they were numbered.
Refusals ==
    drops["NotRunning"] + drops["SlotFiltered"] + drops["GeometryMismatch"]
    + drops["NoIq"] + drops["BlobTooSmall"] + drops["RanPublishedNothing"]
    + drops["NoSubscribers"]

\* Nothing is lost and nothing is counted twice inside on_sample: every slot
\* that arrived was published or refused for one reason, except the slot whose
\* fate is not decided yet; a failed encoding counts under both.
AccountingExact ==
    arrivals = slot_publish_seq + Refusals + (IF pc = "subs" THEN 1 ELSE 0)

\* The subscriber list is a snapshot, so a dApp may be sent a slot after it
\* has left, but never more than the one that was being handled.
AtMostOneLate == \A d \in DApps : late[d] <= 1

\* A geometry mismatch is a latched refusal: nothing is ever published before
\* a slot confirmed the configuration, and nothing at all if the one that is
\* checked, the first, contradicted it.
MismatchRefused ==
    slot_publish_seq > 0 => geometry_checked /\ validate_against_ran(first_geo)

\* "a helper that publishes nothing after a dApp restart must be as visible as
\* it is on the first start": a session that refuses slots for want of a row
\* has said so in this session.
RefusalIsAnnounced == refused => warned

\* A slot that on_sample() has accepted is handled, its indications sent
\* included, before stop() or destroy() returns, and with the region open.
HandledWithinSession ==
    pc # "idle" => /\ running \/ ctl_pc \in {"join", "destroy_join"}
                   /\ shm_open

-----------------------------------------------------------------------------
(* What comments of the code say and the code does not guarantee. *)

\* "emit_failed the one counter which is not mutually exclusive with a
\* successful publish" (e3sm_layer_1.cpp:453-454), and the share of arrivals
\* is "dropped/(published+dropped)" (e3sm_layer_1.cpp:142).
PublishedOrDropped ==
    pc = "idle" => arrivals = slot_publish_seq + Refusals + drops["EncodeFailed"]

\* "E3SMLayer1 validates it against the geometry the RAN reports in each slot"
\* (e3sm_shm_writer.h:38-39): a slot that is published has that geometry.
GeometryCheckedInEachSlot ==
    pc \in {"encode", "emit"} => validate_against_ran(slot.geo)
=============================================================================
