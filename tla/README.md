# Verification of E3Controller

TLA+ models of the E3 controller (`src/`), the TLC runs that check them on
small instances, and TLAPS proofs for every instance.

## The system

E3Controller is one process beside a gNB.  Inside the gNB, eBPF *codelets*
run on radio events and put descriptors into the buffers of a jbpf output
channel.  The controller polls the channels, turns each buffer into an E3
indication and sends it, through libe3, to the subscribed dApps.  Bulk IQ does
not cross the channel: it is written as rows of a shared-memory region,
`/e3_ran_buffers`, by the gNB-side helper or by the controller.

Threads and what they share:

| thread | code | touches |
|---|---|---|
| main, the poll thread | poll loop of `e3_controller.cpp`, `JbpfDispatcher::dispatch`, both pipelines' `process_buffers` | handler table (mutex), SPSC queues (producer), `shm_cfg_sent_`, `prb_config_sent_` |
| one worker per pipeline | `worker_loop`, `dispatch_sample`, the service model's `on_sample` | SPSC queue (consumer), the service model's state, libe3's outbound queue |
| libe3 control thread | `start()` / `stop()` of the service models on the first subscription and the last unsubscription | handler table, `running_`, cursors (in `stop()`), codelet load and unload |
| the codelet (external process) | `uplink_slot_collect.c`, `ecpri_iq_collect.c` | the channel's pool and ring, its control inputs, the row ring |

### Inventory

| part | source | state and operations |
|---|---|---|
| dispatcher | `include/jbpf_dispatcher.h` | `handlers_`; register, unregister, poll, dispatch |
| slot pipeline (RF=2) | `src/e3sm/slot_iq_pipeline.*` | ring, cursors, `running_`, `shm_cfg_sent_`, `codelets_loaded_`; start, stop, process_buffers, worker_loop, load, unload |
| IQ pipeline (RF=1) | `src/e3sm/iq_pipeline.*` | the same with copied entries, PRB filter message, BFP decompression |
| service model L1-KPM | `src/e3sm/l1_kpm/e3sm_layer_1.*` | drop counters, publish sequence, geometry check; start, stop, on_sample |
| stage recorder | `src/e3sm/l1_kpm/l1_kpm_trace.h` | per-thread monotone floor, clamp counter |
| service model Spectrum | `src/e3sm/sm_spectrum/*` | running flag, FFT padding, control action |
| shared-memory writer | `src/e3sm/utils/e3sm_shm_writer.*` | row ring cursor, header; open, close, publish |
| BFP decompression | `src/e3sm/utils/bfp_decompress.*` | pure function |
| configuration | `src/e3_config.cpp`, `include/e3_config.h` | validation, geometry derivation, check against the RAN |
| main | `src/e3_controller.cpp` | construction, poll loop, shutdown order |
| slot codelet | `codelets/uplink_slot_samples`, `codelets/include` | control inputs, selection, port ladder, row write, descriptor |
| eCPRI codelet | `codelets/ecpri_iq_samples` | PRB filter, sampling, copy |

Not in the table, because they hold no state of the system: the encoders
(`e3sm_layer1_wrapper.cpp`, `e3sm_layer1_json.cpp`, `e3sm_spect_wrapper.cpp`),
the ASN.1 schemas, the packet header layouts under `codelets/include`, the
verifier command and the benchmarks, and `src/ecpri_iq_handler.cpp`, which is
not built into the controller.

## Modules

```
JbpfDispatcher <-- SlotIqPipeline --implements--> DeferredRelease, PipelineSession
                     ^  MCSlotIqPipeline
                     +- SlotIqPipelineProofs <- SlotIqOwnerProofs
L1KpmTrace     <-- MCL1KpmTrace, L1KpmTraceProofs
SlotLadder     <-- E3SMLayer1 <-- MCE3SMLayer1, E3SMLayer1Proofs
               <-- UplinkSlotCodelet <-- MCUplinkSlotCodelet
                     ^- proved about in L1KpmTraceProofs
RadioGeometry  <-- ShmIqWriter <-- MCShmIqWriter, ShmIqWriterProofs
               <-- E3Config <-- E3Controller <-- MCE3Controller, E3ControllerProofs
                     E3Controller --each pipeline is used as--> PipelineSession
RowLifetime    <-- MCRowLifetime, RowLifetimeProofs
IqPipeline     <-- MCIqPipeline, IqPipelineProofs
                     IqPipeline --implements--> PipelineSession
SampleFormats  <-- MCSampleFormats
                     ^- proved about in RowLifetimeProofs
```

Every state machine is one module whose variables carry the names of the
members they stand for, without the trailing underscore; a `..._pc` variable is
the place of a thread between two steps another thread can see.  Definitions
whose comment begins with "Mutant of" are the wrong versions of the definition
that follows: each shows that a property can fail.  The specifications of
`UplinkSlotCodelet` and `SampleFormats` are called `CodeletSpec` and
`FormatSpec`, so that a module of proofs can extend another component beside
them; the two have no variable in common with it and are proved about on their
own.

| module | models | how |
|---|---|---|
| `JbpfDispatcher` | `JbpfDispatcher`, the jbpf channel | A buffer pointer is a pair of codelet load and buffer, so that a pointer outliving its channel is visible.  `Lookup` copies the handler under the lock; what follows runs outside it. |
| `SlotIqPipeline` | `SlotIqPipeline`, its calls from `E3SMLayer1`, the shutdown in `main` | One action per step of `process_buffers` (configuration, queue check, entry, head), of `worker_loop` (check, load, dispatch, release, tail), of `start` and `stop`.  The ring is a function on `0..QUEUE_CAPACITY-1` with two unbounded cursors. |
| `DeferredRelease` | the contract of `defer_release=true` | Four counters: taken, shown, returned, retired. |
| `PipelineSession` | what `start()` and `stop()` of a pipeline promise | Five variables: the call in progress, codelets, `running_`, worker, stream; one action per step that others can see.  The abstract specification of both pipelines and of what `E3Controller` has of each. |
| `L1KpmTrace` | `l1_kpm_trace.h` in the order `on_sample` calls it | Times are naturals; libe3's own records go into the same ring past the floor. |
| `E3SMLayer1` | `on_sample`, `start`, `stop`, `destroy` | The refusals are one function, `Verdict`; the snapshot of the subscribers, the encoding and each emission are steps of their own. |
| `RadioGeometry` | `RadioGeometry`, the checks of `load_config` | Functions. |
| `ShmIqWriter` | the region: `open`, `close`, both publishes, the gNB's helper | Memory is the set of blocks of bytes that are not zero; a store removes what it overlaps.  Addresses are computed by the writer's formula and read by the dApp's. |
| `UplinkSlotCodelet` | `uplink_slot_collect.c` and `maybe_send_shm_cfg` | The codelet reads its two control inputs in two steps, the controller sends them in two; a handler that `dispatch()` has copied goes on after `stop()`, and an unload may fail. |
| `SlotLadder` | the literal slot sizes | A set and the largest member that fits. |
| `IqPipeline` | `ecpri_iq_collect.c`, `IqPipeline`, `E3SMSpectrum` | A buffer is given back in one step and its place in the queue in the next.  Sections keep direction, width and size, which is what the filters look at.  The queue is a sequence; its cursors are `SlotIqPipeline`'s. |
| `RowLifetime` | the slot path from the helper's row to the indication that names it | A composition: codelet, output map, poll thread, queue, worker, sessions.  A descriptor is the number of its row; the ring holds at each place the row last written there, or none while one is being written. |
| `E3Config` | `load_config` and its defaults | A file is what yaml-cpp makes of it: forms of sections and words for keys.  The checks are predicates, the configuration a record. |
| `E3Controller` | `main` from its arguments to its exit | One action per start-up step with its early return, the poll loop, each step of the shutdown, the destruction of each local; `start()` and `stop()` of a pipeline are steps of the thread that calls them, `main` or libe3's. |
| `SampleFormats` | the conversions of samples | A conversion is an action from an input to its result.  The two writers of float rows are built apart, so each may use the instruction or its own fallback. |

`E3SMLayer1` sees the pipeline as something that calls `on_sample` while its
worker runs; that a worker runs only between `start` and `stop`, that each slot
is shown once and in order, and that nothing is queued after a clean stop is
what `SlotIqPipeline` establishes.  `L1KpmTrace` details the stamps of one
`on_sample`.  `UplinkSlotCodelet` details what `SlotIqPipeline` has as
`ctl_msgs`.  `ShmIqWriter` details the row a slot's indices name.
`RowLifetime` puts the slot path together, with the accesses that only concern
the cursors of the queue taken as one, because `SlotIqPipeline` is about them.
`E3Controller` has of each pipeline what its owner sees: load, worker, stream,
join, unload.  That this is the same pipeline as the detailed ones is what
`PipelineSession` is for: `SlotIqPipeline` and `IqPipeline` implement it, and
what main and libe3's thread make of each pipeline in `E3Controller` is one of
its behaviours.

## Runs

`tlc -config <run>.cfg <module>` in this directory.

| run | distinct states | shows |
|---|---|---|
| `slot_safety` | 845,903 | Two codelet loads and a pool as large as the queue.  Each buffer of the loaded channel is in one place (`OneOwner`); an entry's buffer keeps the descriptor it was queued with (`QueuedSlotStable`); without a batch in flight `stop()` leaves nothing behind (`CleanStop`) and `shm_cfg_sent_` means what it says (`CfgSentToThisLoad`); a slot is dropped on a "full" queue only between the worker's release and its store of the tail (`DropOnlyInReleaseWindow`); the pipeline implements `DeferredRelease`. |
| `slot_liveness` | 181,696 | `stop()` returns; a queued buffer is given back. |
| `trace_ring` | 495,201 | The ring of stage records ascends although slots are recorded late and libe3 writes to it too; A1 is never overstated; an understated slot is counted; records carry the key of their slot. |
| `layer1` | 607,040 | Either writer, a slot filter, gNBs of other geometries.  Drop accounting is exact; a dApp that left gets at most one slot more; a slot is handled before `stop()` returns and with the region open; a mismatch is refused for good; a session that refuses for want of a row says so. |
| `shm_rows` | 661,002 | What `load_config` accepts, `open` can lay out; writes stay in the rows a reader computes; where the size of a buffer fits its `uint32_t`, a row reads back as its slot for a whole ring and a new process shows nothing of the old region. |
| `slot_codelet` | 73,834 | Once `shm_cfg_sent_` is set, a slot that begins is published (`ReadyMeansPublished`); a session gets going by itself (`Bootstraps`).  Excepted from both is a session that began while a batch of an earlier one was inside `maybe_send_shm_cfg()` (`straddled`): `slot_cfg_lost`, below, is what then happens. |
| `iq_sections` | 107,555 | Every path gives its buffer back; the PRB filter reaches every load, with the same exception of a session begun with a batch between its send and the flag; `start()` and `stop()` keep the session contract (`KeepsSession`); a dry pool recovers, except one that lies wholly in the queue of a stopped pipeline whose unload failed, which waits for the next `start()` (`PoolStranded`). |
| `row_lifetime` | 844,905 | An indication lags behind the helper by no more rows than the output map has buffers and descriptors were skipped meanwhile (`LagBounded`); on a ring with more rows than that, the row it names is complete and of its slot (`NamedRowIntact`). |
| `controller` | 7,232 | 24 files, every start-up failure, a signal at any moment, dApps that come and go on both service models.  What the file says is in force or the process does not start (`NothingIgnored`); nobody uses an object that is gone (`UsesLiveObjects`); the teardown meets no other caller and the final report no running worker (`TearsDownAlone`); no way out leaves a worker or a region behind, nor a codelet in the gNB but one whose unload request failed (`ExitLeavesNothing`); a signal ends the process (`SignalEndsProcess`). |
| `conversions` | 67,533 | Samples are rounded to the nearest half (`Int16Nearest`, and `HelperNearest` in every build of the helper); controller and helper agree, in every pair of builds, where nothing is rounded and the half is not subnormal (`ExactProductsAgree`); nine-bit numbers are extracted exactly, and scaled exactly by an exponent in the low nibble of its byte (`BfpExact`); the FFT has the smallest size that holds a section and each subcarrier in its bin (`BinsAreCentred`). |

The type invariants are conjuncts of what is proved about their modules; the
runs do not check them again.

Two runs end in a violation, of what a comment says:

- `slot_cfg_lost` (`SentMeansCurrentLoad`).  `unregister_stream()` does not wait
  for a handler `dispatch()` has copied.  A batch of the old session that is
  inside `maybe_send_shm_cfg()` during `stop()`, unload, load and the reset in
  `start()` sets `shm_cfg_sent_` after the reset, and the new codelet never
  gets its configuration.  `slot_iq_pipeline.cpp:143` takes this to be
  impossible.  (The window is a session's restart inside one call of the poll
  thread.)  `prb_config_sent_` of `IqPipeline` has the same window.
- `slot_prefix` (`NeverAPrefix`).  The ladder of sizes in the codelet is for
  273 PRBs; a grid that is none of the three sizes is published up to the size
  below it.

### Other disagreements

These formulas are at the end of the modules; as the only INVARIANT of the cfg
named they are violated.

| formula | cfg | what happens |
|---|---|---|
| `NothingQueuedAtUnload` | `slot_safety` | the batch in flight of above is queued after the drain of `stop()`, against `slot_iq_pipeline.cpp:189` |
| `AcceptedReachesSm` | `slot_safety` | slots drained by `stop()` reach neither the service model nor a counter; `e3_controller.cpp:441` knows "two places" where a slot is lost |
| `ClampedCountsSlots` | `trace_ring` | the counter counts stamps, two for a slot behind the floor, also when both are moved by as much and its A1 comes out right; `l1_kpm_trace.h:141` calls them slots |
| `PublishedOrDropped` | `layer1` | a failed encoding counts as published and as dropped |
| `GeometryCheckedInEachSlot` | `layer1` | the check is made once per process; `e3sm_shm_writer.h:38` says in each slot |
| `EpochNamesOneRegion` | `slot_codelet` | `shm_epoch` is never bumped, against `slot_iq_pipeline.h:160` |
| `RowsByteIdentical` | `conversions` | in a build without F16C, as any for aarch64, the controller truncates (`e3sm_shm_writer.cpp:111`) where the helper rounds, and makes subnormals zero where the helper's F16C or NEON gives them; NaNs differ too.  `e3_slot_convert.h:5` promises identical bytes |
| `ExponentInUpperNibble` | `conversions` | the whole first byte of a PRB is the shift (`bfp_decompress.cpp:70`), right for the low nibble, where `codelets/include/xran_format.h:152` has the exponent; `bfp_decompress.cpp:7` and `:68` put it in the upper one |
| `BuffersApart` | `shm_rows` | from 8 GiB on, which `load_config` accepts, `fh_buffer_size_` wraps (`e3sm_shm_writer.cpp:187`), and the two buffers of the "double-buffered ring" (`:174`) overlap: rows a dApp may still read are overwritten |

Met while modelling and worth a decision, without a formula:

- `check_keys` looks only into mappings.  A section written as a YAML list
  passes it and is read as absent, so that its settings are ignored in silence,
  which `e3_config.cpp:21` sets out to prevent.  `NothingIgnored` is about the
  words that sections hold as mappings.
- The condition of `NamedRowIntact` is not implied by the configuration:
  `load_config` accepts a ring of two rows, and with no more rows than the
  output map has buffers an indication may name a row that another slot has
  overwritten.  The smallest ring `configs/e3_controller.yaml` mentions, 24 MiB,
  has 34 rows for the map's 32 buffers.  Nothing tells a dApp.
- `main` destroys the agent, which owns the service models, after the
  pipelines they call.  A service model that still ran would call a destroyed
  pipeline from its `destroy()`.  That none runs is owed to libe3's
  `agent.stop()`; `agent_stops_sms` is that assumption, and the part of
  `UsesLiveObjects` about the last step is conditional on it.
- The returns of `main` from a failed `agent.init()` on do not call
  `jbpf_io_stop()`; `ExitLeavesNothing` allows it with exit code 1 only.
- The CSV of drops is written from `note_drop` at most once a second, so the
  last drops of a burst are not in it until another one follows, although
  `e3sm_layer_1.cpp:121` wants it to survive a crash.

### Bounds

- `slot_*`: two buffers and two entries are enough for a full queue, a reused
  place and a batch of several buffers; two loads for a pointer that outlives
  its channel; three slots so that a buffer is used again while an entry of it
  could still be read.  The buffers are symmetric in `slot_safety`: the channel
  does not look at which one it hands out.
- `trace_ring`: two slots, two sessions, up to two subscribers, slots up to
  five ticks old and steps of one tick, so that a slot lies behind the floor,
  across it and after it.
- `layer1`: two dApps, four slots, two sessions; a gNB of the configured
  ports, of fewer and of more; a slot filter that passes and one that does not.
- `shm_rows`: rings of two and four rows, regions one byte short, exact and
  with bytes over, six slots (once round the larger ring and into it again),
  0 to 4 ports on rows of 2 and 3 antennas, two processes.  The wrap of 2^32
  is scaled to 4000, so that a ring of six rows has buffers that overlap.
- `slot_codelet`, `iq_sections`: no bound on slots or sessions; pools of two
  buffers, and in `iq_sections` a queue that holds the whole pool, as the
  code's does (64 and 64).
- `row_lifetime`: two buffers of two rows, two descriptors, six slots: the
  helper goes once round the ring and halfway again.  The ring is larger than
  the map, so that the condition of `NamedRowIntact` holds with one descriptor
  skipped and fails with two.
- `controller`: five files that run and 19 on either side of each check; each
  pipeline may be started and stopped without bound.
- `conversions`: every int16 magnitude to 2100 and around each power of two;
  for the float, both sides of each exponent range and of each rounding case,
  in every pair of builds;
  all 24 positions of a nine-bit value; widths on both sides of a power of two.

### Fairness

Weak fairness of each thread's steps: the poll thread, the workers and libe3's
control thread are ordinary threads that are never blocked by another one but
in the join of `stop()`, which is a guard.  Subscriptions, loads and the
arrival of a stop are not fair.  `Bootstraps` and `FilterSettles` also assume
that slots or packets keep coming and, strongly fair, that a send that is tried
again and again succeeds once: the code retries for ever and a control input
that the codelet empties has room.  For `Bootstraps` the same holds of the
codelet's output, which may fail for one slot and not for all.  Without that they are false, as they should
be.  `Bootstraps` and `FilterSettles` are about a session that goes on: each
allows for `stop()`.  In `iq_sections` libe3's thread, once a call is done, goes
on to the next one, `start()` or `stop()`, without a choice of which.  In
`controller`, `main` and the workers are fair, and so
is a pipeline call that libe3's thread has begun; nothing makes a dApp
subscribe, or the operator send the signal `SignalEndsProcess` starts from.

Deadlock is checked where the system goes on for ever (`slot_codelet`,
`iq_sections`, `row_lifetime`, `slot_*` up to the exit of the process) and not
where a bound or the exit ends the behaviour.

## Proofs

For every value of the constants (sizes of pool and queue, number of loads,
slots, ports, geometries, region sizes below 4 TiB, files, sections, samples),
checked by `tlapm`.  Every invariant and every refinement a passing run checks
is stated by one of these theorems.

| theorem | module | from |
|---|---|---|
| `TypeCorrect` | `SlotIqPipelineProofs` | `IInv` |
| `Refinement`: `Spec => ImplementsContract` | `SlotIqPipelineProofs` | `IInv` |
| `StopIsClean`, `CfgReachesThisLoad` | `SlotIqPipelineProofs` | `CInv` |
| `SlotKeepsSession`: `Spec => KeepsSession` | `SlotIqPipelineProofs` | `CInv`, `StepsInv` |
| `StopMakesProgress` | `SlotIqPipelineProofs` | `IInv` |
| `EveryBufferHasOneOwner`, `QueuedSlotsAreStable`, `DropsOnlyInWindow` | `SlotIqOwnerProofs` | `OInv` |
| `NoSlotUnaccounted`, `SlotsStayInSession`, `GeometryIsLatched`, `LateAtMostOnce`, `RefusalsAreVisible` | `E3SMLayer1Proofs` | `Inv` |
| `MismatchIsForGood`, `CountersAreConsistent` | `E3SMLayer1Proofs` | `Inv`, `VerdictStays`, `CounterInv` |
| `TheFlagCanBeReliedOn`, `TheRungFits` (of `UplinkSlotCodelet`) | `L1KpmTraceProofs` | `UInv` |
| `DescriptorsAreRungs`, `ARungIsNoPrefix` (of `UplinkSlotCodelet`) | `L1KpmTraceProofs` | `UInv`, `RungInv` |
| `IndicationLagBounded`, `IndicationNamesItsRow` | `RowLifetimeProofs` | `IInv` |
| `Int16IsNearest`, `HelperRoundsToEven`, `ExactRowsAgree`, `BlocksAreExact`, `SpectrumIsCentred` (of `SampleFormats`) | `RowLifetimeProofs` | `FormatInv` and a lemma for each function |
| `RingAlwaysAscends`, `A1NeverOverstated` | `L1KpmTraceProofs` | `IInv` |
| `RecordsAreAttributed` | `L1KpmTraceProofs` | `IInv`, `AttributionInv` |
| `UnderstatedSlotsAreCounted`, `UnclampedIsExact` | `L1KpmTraceProofs` | `IInv`, `CountInv` |
| `ClampsAreBounded` | `L1KpmTraceProofs` | `IInv`, `ClampsInv` |
| `IqTypes`, `BuffersAreConserved`, `FilterIsSentToThisLoad`, `NothingIsSentAfterStop` | `IqPipelineProofs` | `IInv` |
| `IqKeepsSession`: `Spec => KeepsSession` | `IqPipelineProofs` | `IInv`, `StepsInv` |
| `TheFileIsInForce`, `NoUseAfterTeardown`, `MainTearsDownAlone` | `E3ControllerProofs` | `IInv` |
| `CodeletsAccounted`, `NothingIsLeft` | `E3ControllerProofs` | `GnbInv`; `IInv` |
| `CallersKeepSession`: `Spec => Session(rf)!Spec` for each pipeline `rf`; `UpOrDown` | `E3ControllerProofs` | `IInv`, `StepsInv` |
| `ProcessWindsDown` | `E3ControllerProofs` | `IInv`, `AgentInv` |
| `AcceptedRegionOpens`, `WritesStayInRows`, `RowsStayIntact`, `NoOldSamples` | `ShmIqWriterProofs` | `IInv` |

*Slot pipeline.*  `IInv` adds to the types where the cursors stand
(`CursorInv`), which threads may be at the queue together (`ThreadInv`), that a
written entry carries the number of its buffer (`EntryInv`) and that the last
buffer shown is not ahead of the one being released (`ShownInv`).  The types
alone are not inductive: that the worker reads no entry that was never written
needs the entries, and those the cursors, and those that `stop()` does not drain
beside a live worker.  That two places of the ring differ is arithmetic modulo
the capacity (`IdxDistinct`).  The refinement maps the counters of the contract
to the head, the last sample shown, the releases and the tail; each action is
one step of the contract or none.

*Clean stop.*  `CInv` adds what a session is (`SessionInv`) and, as long as no
batch was in flight when its stream went away, that the head stands still while
`stop()` drains (`QuietInv`), that what was sent went to this load (`SentInv`)
and that every pointer is of this load (`LiveInv`).  `straddled` is a history
variable that records the exception; `slot_cfg_lost` shows it is needed.

*Owners.*  `OInv` says of each buffer of the channel that it is somewhere,
nowhere twice and not in two kinds of place (`OwnerInv`), which is stated by
places and not by counting, because each step then moves one buffer from one
place to another and leaves the rest alone.  Beside it, no pointer is of a load
still to come (`AgeInv`), between its two stores the poll thread still has the
buffer it has just written (`NextEntryInv`), and an entry that is owned or about
to be carries the descriptor in its buffer (`StableInv`).  None of this needs
`straddled`: a batch that outlives its stream holds pointers of an old load,
which are in no place of the new channel.  That a full queue means a release
under way is then a count: the entries owned are distinct buffers, and one of
the pool is in the poll thread's hands.

*Sessions.*  `PipelineSession` has a pipeline as its callers see it.  Its
`Promise` is that a registered stream has a live worker and that between the
calls a pipeline is all up or all down; codelets come and go only under one
that is down.  The two pipelines implement it with the call in progress read off
`ctl_pc`; `StepsInv` says how far a session has come at each step of `start()`
and `stop()`.  In `E3Controller` the call may be main's or libe3's, and that a
pipeline has one caller at a time, which the contract takes for granted, is what
`CallInv` gives.  `UpOrDown` is the promise, carried over to the process.

*Progress.*  What the prover can say of liveness is that there is no way round
in circles.  `StopMakesProgress`: while `stop()` of the slot pipeline is in
progress, no step of any thread raises the pair of the steps left to it and the
rounds left in its join or drain (a batch in flight adds to the queue, and yet
not to the drain, which has read the head), and each step of its own, or of the
worker it joins, lowers it.  `ProcessWindsDown`: every step of the process
lowers a sum of what main, the calls, the workers, the service models and the
objects have still before them, except the first subscription of a service
model, and there is none of those once `agent.stop()` was called.  That the
threads do take their steps is the fairness under which the runs check
`StopReturns` and `SignalEndsProcess`.

*Service model.*  Each property is carried by what `on_sample` keeps between
its steps: `running_` is clear wherever the control thread is past `stop()`
(`SessionInv`), a slot under way has passed the check, whose verdict does not
change (`GeometryInv`), a dApp of the snapshot was sent nothing since it left
(`LateInv`), and a warning that is spent was given in this session
(`WarningInv`).  That a mismatch is for good (`MismatchIsForGood`) is temporal:
no step takes the verdict back, `start()` included, and under a negative verdict
no slot gets past the check.  A dApp that subscribes after the gNB was put right
is therefore sent nothing until the controller is restarted.

*Rows.*  The descriptors in output map, batch and queue, read from the worker's
end, are each at most as far behind the helper as there are descriptors after them,
descriptors skipped since and a row the codelet is still at (`LagInv`); all of
them are buffers of one pool (`PoolInv`), and a row of the last ring is where it
was put (`RingInv`).
Rows less than a ring apart lie at different places (`PlaceDistinct`), so what
was written since did not meet the one named.

*Stage records.*  The floor bounds the ring, except while libe3 writes to it
(`FloorInv`), and the record a PROCESS_BEGIN will follow is the last one, at
the floor (`SlotInv`).  From the end of the encoding until libe3 is done, the
last record carries the key libe3 will use (`AttributionInv`).
`UnderstatedIsCounted` is not inductive by itself: a slot is clamped at its
RECORD_BEGIN, one step before its PROCESS_BEGIN can come out too close, so
between the two the counter must be ahead by one (`CountInv`).  A counter that
is zero thus means that every A1 is exact (`UnclampedIsExact`).  From above it is
bounded by two for each slot (`ClampsInv` has what a slot may still cost), since
a stamp of the current time is ahead of the floor; in terms of understated slots
there is no bound from above.

*Slot codelet.*  In a session that did not begin with a batch inside
`maybe_send_shm_cfg()`, the flag can be relied on because each message is in one of
two places, the input or what the codelet has made of it (`Mapped`,
`Selected`), from the moment it was sent (`USent`), and the codelet reads each
input before it needs what it says (`UReady`).  A message is lost only with the
load, and then `start()` has cleared the flag.  `RungInv` follows what was
published into the descriptors: each is the rung of the grid or zero.  So the
comment that `slot_prefix` refutes does hold of a gNB whose grid is one of the
three sizes (`ARungIsNoPrefix`).

*IQ pipeline.*  `BuffersConserved` counts, so the proof rests on what appending,
taking and dropping does to the number of live buffers in a sequence; the
other conjuncts say which threads there are at each step of `start()` and
`stop()` and that a buffer whose place is about to be freed has been given back
(`ThreadInv`) and, in a session that did not begin with a batch between its send
and the flag, that a filter marked or about to be marked as sent is there
(`SentInv`).

*Controller.*  `MainInv` has what `main` has constructed at each of its steps,
`CallInv` that at most one thread is inside a pipeline and which one it may be,
`PipeInv` and `PhaseInv` what workers, streams and codelets there are outside
and inside such a call, `SmInv` the service models and the region.  The four
properties are consequences of where `main` is.  What `codelets_loaded_` does
not say, that the gNB is rid of the codelets, is followed apart (`GnbInv`): one
is in the gNB only while it is loaded or after its unload failed
(`CodeletsAccounted`).  That the configuration is the file's (`ConfigInv`) is a
fact about `load_config`, shown key by key.

*Sample formats.*  There is no induction here: a conversion is one step, and
`FormatInv` says that its result is the function's.  The work is in the
functions.  For `int16_to_fp16` the highest bit of the magnitude decides the
exponent; a short sample is represented exactly and a long one lies between two
neighbours, whose distance the rounding halves (`ShortSample`, `LongSample`);
neighbouring halves differ by one in their code, also where the mantissa carries
into the exponent (`HalvesGrow`).  For the nine-bit numbers the shifts are
divisions by powers of two, and the third byte does not reach the result
(`ThirdByte`).  The FFT size is found by its nine possible values.  The three
ways to a half of a float are compared two by two; what the instructions compute
is given (`HardwareHalf`), and that the helper's fallback computes it too, for a
normal half, is `FallbackRounds`.

*Region.*  What is written lies in the ring and in the region in any case
(`BlockInv`).  Where the size of a buffer fits its `uint32_t` (`SizeFits`, below
8 GiB) a region `load_config` accepts is a grid of cells, one per row
and antenna; two cells overlap only if they are the same, so a store and the
clearing of a tail change the cells they are meant to and no other.  The invariant
says where the cursor is (`CursorInv`), that the indices handed out follow each
other round the ring (`ChainInv`), which cell holds what (`CellInv`) and that
the helper, which clears nothing, always fills the same antennas (`TailInv`).
From these a row of the last ring is never the one at the cursor.

Assumptions, all named and evaluated by the runs: `BoundsAssumption` and
`PoolAssumption` (`JbpfDispatcher`; the pool is finite), `LayerAssumption`
(`E3SMLayer1`), `RowAssumption` (`RowLifetime`; sizes are positive),
`CapacityAssumption`, `ConfigAssumption` (`SlotIqPipeline`), `BoundsAssumption` (`L1KpmTrace`),
`WriterAssumption` (geometries and sizes are natural numbers; no region of
4 TiB or more, which `open()` would have to zero), `IqAssumption` (`IqPipeline`; a pool and a queue are not empty,
the filter is 16 bits wide), `CodeletAssumption` (`UplinkSlotCodelet`; sizes are
natural numbers) and `FormatAssumption` (`SampleFormats`; samples, floats, bytes
and exponents have their widths, a section has 1 to 273 PRBs).
`E3ControllerProofs` assumes nothing of the files.

Only model-checked: liveness (`StopReturns`, `QueuedIsReleased`, `Bootstraps`,
`FilterSettles`, `PoolRecovers`, `SignalEndsProcess`), which is out of the
prover's reach; for `StopReturns` and `SignalEndsProcess` the measures above
are proved.  Only proved, because the run of the other pipeline asks the same
question: `KeepsSession` of `SlotIqPipeline`.

## What is assumed of the surroundings

- jbpf: a release of a pointer whose channel is gone has no effect on the pool
  of the next one, and a sample read through such a pointer may be anything
  (`IqPipeline`); a send fails when the channel is gone or full, and may fail
  otherwise; a load may succeed although an unload failed.
- libe3: one control thread; `emit_outbound` does not block; `start()` follows
  the first subscription and `stop()` the last unsubscription.  What becomes of
  a subscription whose `start()` fails is left open.
- The memory model: atomics are sequentially consistent, and the plain flags
  that two threads touch (`shm_cfg_sent_`, `prb_config_sent_`, `running_` of the
  service model) behave as plain loads and stores.
- The gNB restarts only between sessions (`E3SMLayer1`); its helper writes only
  after it has attached to the present region, with one port count
  (`ShmIqWriter`), and an attach succeeds and does nothing for an epoch it has
  (`UplinkSlotCodelet`).
- Each step of the recorder takes at least a nanosecond, and a codelet finishes
  after the gNB's stamp.
- The multiplication by `cbf16_scale` is the hardware's, and F16C and NEON
  convert to the nearest half, ties to even, subnormals included.

## Not modelled

- The option parser and yaml-cpp themselves: `E3Config` begins with what
  yaml-cpp makes of a file.
- The encoders, the ASN.1 definitions and the packet header layouts, which hold
  no state; an encoding may fail.
- Failures of `shm_open`, `ftruncate` and `mmap` inside `open`
  (`E3Controller` has that `init()` fails).
- The slot and frame filters of the slot codelet's selector: the only selector
  the controller sends selects everything, so no state of the program reaches
  them.  The codelet's component is "partly" modelled for that reason.
- `sampling_config` of the eCPRI codelet, which nothing writes.
- An empty `codelet_base_path` in `IqPipeline` and `UplinkSlotCodelet`, which
  have codelet and controller together: somebody else then loads and unloads the
  codelet, at times the controller does not know.  `SlotIqPipeline` and
  `E3Controller` have both cases.
- The texts and throttling of log messages, the aux fields of stage records,
  `sample_id` beyond its 32 bits, thread pinning.
- `src/ecpri_iq_handler.cpp`, which is not built, the verifier command and the
  benchmarks.
