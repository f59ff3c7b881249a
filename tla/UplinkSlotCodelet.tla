------------------------- MODULE UplinkSlotCodelet -------------------------
(***************************************************************************)
(* How the gNB comes to write the controller's region: the slot codelet    *)
(* (codelets/uplink_slot_samples/uplink_slot_collect.c) on the gNB's       *)
(* receive thread, the native helper it calls (outside this repository),   *)
(* and the controller's poll thread, which answers the first descriptors   *)
(* of a load with e3_shm_cfg and e3_slot_sel.  The helper's mapping        *)
(* outlives codelet loads and controllers.                                 *)
(***************************************************************************)
EXTENDS SlotLadder, Sequences, FiniteSets

CONSTANTS
    RowBytes,     \* size of a row of the configured region
    Grids,        \* sizes of the grids a gNB may deliver
    RingSize,     \* descriptors the output map holds (32)
    MaxRegions    \* bound: regions created

ASSUME CodeletAssumption ==
    /\ RowBytes \in Nat /\ Grids \subseteq Nat /\ Grids # {}
    /\ RingSize \in Nat \ {0} /\ MaxRegions \in Nat \ {0}

VARIABLES
    loaded,            \* the codelet is in the gNB and its channels exist
    running,           \* the stream is registered and running_ set
    ctl_pc,            \* where start() / stop() is
    shm_cfg_sent,
    shm_in, sel_in,    \* messages waiting in the control inputs
    sel_state,         \* version of the cached selector
    output_map,        \* descriptors not polled yet
    codelet_pc, fire,  \* the invocation in progress
    poll_pc,
    region,            \* which region has the name /e3_ran_buffers
    attached,          \* what the helper has mapped
    grid,              \* bytes of the gNB's grid
    announced,         \* history: regions and the epochs they were sent with
    rows,              \* history: this load has published a row
    straddled          \* history: this session began while a batch of an
                       \* earlier one was between its sends and the flag

gnbVars == <<sel_state, codelet_pc, fire, attached, rows>>
controllerVars == <<running, ctl_pc, shm_cfg_sent, poll_pc, announced, straddled>>
channelVars == <<shm_in, sel_in, output_map>>
codeletVars == <<gnbVars, controllerVars, channelVars, loaded, region, grid>>

shm_epoch == 1             \* no code assigns it
E3_SLOT_SEL_VERSION == 1

NotAttached == [region |-> 0, epoch |-> 0]
NoFire == [ready |-> FALSE, published |-> 0, region |-> 0]

-----------------------------------------------------------------------------
(* The helper, from the comments on its calls. *)

\* jbpf_e3_attach(): maps the region by its name; "idempotent for the same
\* epoch" (slot_iq_pipeline.cpp:143).
Attach(cfg) ==
    IF attached.epoch = cfg.epoch THEN attached
    ELSE [region |-> region, epoch |-> cfg.epoch]

\* jbpf_e3_publish_slot(): refuses without a mapping, with a selector of
\* another version, and a slot that is larger than a row.
HelperAccepts(len) ==
    /\ attached # NotAttached
    /\ sel_state = E3_SLOT_SEL_VERSION
    /\ len <= RowBytes

-----------------------------------------------------------------------------
(* The codelet, one slot at a time. *)

\* Entry: the region's configuration is passed on if there is one.
Enter ==
    /\ loaded /\ codelet_pc = "idle"
    /\ fire' = [NoFire EXCEPT !.ready = running /\ shm_cfg_sent /\ ~straddled]
    /\ attached' = IF shm_in = <<>> THEN attached ELSE Attach(Head(shm_in))
    /\ shm_in' = <<>>
    /\ codelet_pc' = "select"
    /\ UNCHANGED <<controllerVars, sel_in, sel_state, output_map, loaded,
                   region, grid, rows>>

\* The selector is cached when one arrived.  The only one the controller sends
\* selects every slot, as does the zeroed map, so no slot is filtered here.
Select ==
    /\ codelet_pc = "select"
    /\ sel_state' = IF sel_in = <<>> THEN sel_state ELSE Head(sel_in)
    /\ sel_in' = <<>>
    /\ codelet_pc' = "publish"
    /\ UNCHANGED <<controllerVars, shm_in, output_map, loaded, region, grid,
                   attached, fire, rows>>

\* The ladder; with no rung, or refused by the helper, nothing is published.
Publish ==
    LET len == Rung(grid)
        ok == len # 0 /\ HelperAccepts(len)
    IN /\ codelet_pc = "publish"
       /\ fire' = [fire EXCEPT !.published = IF ok THEN len ELSE 0,
                               !.region = IF ok THEN attached.region ELSE 0]
       /\ rows' = (rows \/ ok)
       /\ codelet_pc' = "output"
       /\ UNCHANGED <<controllerVars, channelVars, sel_state, attached, loaded,
                      region, grid>>

\* Mutant of Output: a refused slot makes no descriptor.
OutputPublished ==
    /\ codelet_pc = "output"
    /\ fire.published # 0 /\ Len(output_map) < RingSize
    /\ output_map' = Append(output_map, fire.published)
    /\ codelet_pc' = "idle" /\ fire' = NoFire
    /\ UNCHANGED <<controllerVars, shm_in, sel_in, sel_state, attached, loaded,
                   region, grid, rows>>

\* A descriptor either way, TRUNCATED when nothing was published.
Output ==
    /\ codelet_pc = "output"
    /\ Len(output_map) < RingSize
    /\ output_map' = Append(output_map, fire.published)
    /\ codelet_pc' = "idle" /\ fire' = NoFire
    /\ UNCHANGED <<controllerVars, shm_in, sel_in, sel_state, attached, loaded,
                   region, grid, rows>>

\* The output map is exhausted, or jbpf_send_output() fails: no descriptor,
\* though the row has been written.
OutputFails ==
    /\ codelet_pc = "output"
    /\ codelet_pc' = "idle" /\ fire' = NoFire
    /\ UNCHANGED <<controllerVars, channelVars, sel_state, attached, loaded,
                   region, grid, rows>>

-----------------------------------------------------------------------------
(* The controller. *)

\* dispatch() hands a batch of the registered stream to a copy of its handler,
\* and gives any other back.
Poll ==
    /\ poll_pc = "idle" /\ output_map # <<>>
    /\ output_map' = <<>>
    /\ poll_pc' = IF running THEN "handler" ELSE "idle"
    /\ UNCHANGED <<gnbVars, running, ctl_pc, shm_cfg_sent, announced, straddled,
                   shm_in, sel_in, loaded, region, grid>>

\* process_buffers(); what becomes of the batch itself is in SlotIqPipeline.
CfgCheck ==
    /\ poll_pc = "handler"
    /\ poll_pc' = IF shm_cfg_sent THEN "idle" ELSE "send_shm"
    /\ UNCHANGED <<gnbVars, running, ctl_pc, shm_cfg_sent, announced, straddled,
                   channelVars, loaded, region, grid>>

\* A message goes to the codelet that is loaded, if there is one.  A control
\* input holds one message; a second one is not accepted.
SendShmCfg ==
    /\ poll_pc = "send_shm" /\ loaded /\ shm_in = <<>>
    /\ shm_in' = <<[epoch |-> shm_epoch]>>
    /\ announced' = announced \cup {[region |-> region, epoch |-> shm_epoch]}
    /\ poll_pc' = "send_sel"
    /\ UNCHANGED <<gnbVars, running, ctl_pc, shm_cfg_sent, straddled, sel_in,
                   output_map, loaded, region, grid>>

SendSlotSel ==
    /\ poll_pc = "send_sel" /\ loaded /\ sel_in = <<>>
    /\ sel_in' = <<E3_SLOT_SEL_VERSION>>
    /\ poll_pc' = "mark_sent"
    /\ UNCHANGED <<gnbVars, running, ctl_pc, shm_cfg_sent, announced, straddled,
                   shm_in, output_map, loaded, region, grid>>

\* Mutant of SendFails: the flag is set all the same.
SendFailsMarks ==
    /\ poll_pc \in {"send_shm", "send_sel"}
    /\ poll_pc' = "idle"
    /\ shm_cfg_sent' = TRUE
    /\ UNCHANGED <<gnbVars, running, ctl_pc, announced, straddled, channelVars,
                   loaded, region, grid>>

\* Either call may fail: both are tried again with the next batch.
SendFails ==
    /\ poll_pc \in {"send_shm", "send_sel"}
    /\ poll_pc' = "idle"
    /\ UNCHANGED <<gnbVars, running, ctl_pc, shm_cfg_sent, announced, straddled,
                   channelVars, loaded, region, grid>>

MarkSent ==
    /\ poll_pc = "mark_sent"
    /\ shm_cfg_sent' = TRUE
    /\ poll_pc' = "idle"
    /\ UNCHANGED <<gnbVars, running, ctl_pc, announced, straddled, channelVars,
                   loaded, region, grid>>

\* load_codelets() succeeds: zeroed maps and empty channels, in place of those
\* of a codelet that could not be unloaded; slots fire from here on.  A load
\* that fails leaves everything as it was.
Load ==
    /\ ctl_pc = "idle" /\ ~running /\ codelet_pc = "idle"
    /\ loaded' = TRUE
    /\ sel_state' = 0 /\ shm_in' = <<>> /\ sel_in' = <<>> /\ output_map' = <<>>
    /\ rows' = FALSE
    /\ ctl_pc' = "boot"
    /\ UNCHANGED <<running, shm_cfg_sent, poll_pc, announced, straddled,
                   codelet_pc, fire, attached, region, grid>>

\* Mutant of Start: the flag of the previous load is kept.
StartKeepsFlag ==
    /\ ctl_pc = "boot"
    /\ running' = TRUE
    /\ straddled' = (poll_pc \in {"send_sel", "mark_sent"})
    /\ ctl_pc' = "idle"
    /\ UNCHANGED <<gnbVars, shm_cfg_sent, poll_pc, announced, channelVars, loaded,
                   region, grid>>

\* The rest of start().  A batch that was handed to the old handler may be
\* anywhere in it.
Start ==
    /\ ctl_pc = "boot"
    /\ shm_cfg_sent' = FALSE
    /\ running' = TRUE
    /\ straddled' = (poll_pc \in {"send_sel", "mark_sent"})
    /\ ctl_pc' = "idle"
    /\ UNCHANGED <<gnbVars, poll_pc, announced, channelVars, loaded, region, grid>>

\* stop() unregisters the stream without waiting for a batch in flight.
Unregister ==
    /\ ctl_pc = "idle" /\ running
    /\ running' = FALSE
    /\ ctl_pc' = "unload"
    /\ UNCHANGED <<gnbVars, shm_cfg_sent, poll_pc, announced, straddled,
                   channelVars, loaded, region, grid>>

\* An unload waits for the codelet to return and takes its channels along.
Unload ==
    /\ ctl_pc = "unload" /\ codelet_pc = "idle"
    /\ loaded' = FALSE
    /\ shm_in' = <<>> /\ sel_in' = <<>> /\ output_map' = <<>>
    /\ ctl_pc' = "idle"
    /\ UNCHANGED <<gnbVars, running, shm_cfg_sent, poll_pc, announced, straddled,
                   region, grid>>

\* A request that fails is logged, and the codelet stays as it is.
UnloadFails ==
    /\ ctl_pc = "unload"
    /\ ctl_pc' = "idle"
    /\ UNCHANGED <<gnbVars, running, shm_cfg_sent, poll_pc, announced, straddled,
                   channelVars, loaded, region, grid>>

\* The controller ends, its poll loop first, and another one starts: close()
\* has unlinked the region, so open() makes a new one, and the new process has
\* sent nothing.
Restart ==
    /\ ctl_pc = "idle" /\ ~running /\ poll_pc = "idle" /\ region < MaxRegions
    /\ region' = region + 1
    /\ shm_cfg_sent' = FALSE
    /\ UNCHANGED <<gnbVars, running, ctl_pc, poll_pc, announced, straddled,
                   channelVars, loaded, grid>>

-----------------------------------------------------------------------------
CodeletInit ==
    /\ loaded = FALSE /\ running = FALSE /\ ctl_pc = "idle"
    /\ shm_cfg_sent = FALSE
    /\ shm_in = <<>> /\ sel_in = <<>> /\ output_map = <<>>
    /\ sel_state = 0
    /\ codelet_pc = "idle" /\ fire = NoFire
    /\ poll_pc = "idle"
    /\ region = 1
    /\ attached = NotAttached
    /\ grid \in Grids
    /\ announced = {}
    /\ rows = FALSE /\ straddled = FALSE

Codelet == Enter \/ Select \/ Publish \/ Output \/ OutputFails
Controller == Poll \/ CfgCheck \/ SendShmCfg \/ SendSlotSel \/ SendFails \/ MarkSent
Lifecycle == Load \/ Start \/ Unregister \/ Unload \/ UnloadFails \/ Restart

CodeletNext == Codelet \/ Controller \/ Lifecycle

\* Uplink slots keep coming and the poll thread runs; start() goes on after a
\* load; a send that is tried over and over succeeds, on either side.
Fairness ==
    /\ WF_codeletVars(Codelet) /\ WF_codeletVars(Controller) /\ WF_codeletVars(Start)
    /\ SF_codeletVars(SendShmCfg) /\ SF_codeletVars(SendSlotSel)
    /\ SF_codeletVars(Output)

CodeletSpec == CodeletInit /\ [][CodeletNext]_codeletVars
FairSpec == CodeletSpec /\ Fairness

-----------------------------------------------------------------------------
(* Properties. *)

\* The slots of this gNB can be published.
Fits == Rung(grid) \in 1 .. RowBytes

\* shm_cfg_sent_ can be relied on in a session that did not begin with a batch
\* of an earlier one between its sends and the flag: a slot whose codelet run
\* begins after the flag was set is never refused for want of a mapping or of a
\* selector, because both messages were sent to this load and are read first.
\* A batch in flight that is not so far yet, a codelet that could not be
\* unloaded and another controller's mapping do no harm.
ReadyMeansPublished ==
    codelet_pc = "output" /\ fire.ready /\ Fits => fire.published # 0

\* A load gets going by itself: the descriptors of refused slots are what makes
\* the controller send the configuration, and rows follow ("visible to the
\* controller instead of looking like a dead hook").  Only the session of a load
\* that a batch of an earlier session has marked as configured never does; the
\* next one does again.
Bootstraps == running /\ Fits ~> rows \/ ~running \/ straddled

-----------------------------------------------------------------------------
(* What comments of the code say and the code does not guarantee. *)

\* "Never publish a prefix" (uplink_slot_collect.c:190): what is published is
\* the whole grid.
NeverAPrefix == codelet_pc = "output" => fire.published \in {0, grid}

\* "Bumped by the controller whenever it recreates the region, so a helper
\* holding a stale mapping refuses rather than writing into it"
\* (slot_iq_pipeline.h:160-161): an epoch stands for one region.
EpochNamesOneRegion ==
    \A a, b \in announced : a.epoch = b.epoch => a.region = b.region
=============================================================================
