---------------------------- MODULE E3Controller ----------------------------
(***************************************************************************)
(* The controller process: main() (src/e3_controller.cpp) from its         *)
(* arguments to its exit, with the objects it owns.  main constructs the   *)
(* agent, the dispatcher and the two pipelines as locals, hands the two    *)
(* service models to the agent, polls until a signal arrives, and takes    *)
(* everything down again; every return destroys the locals in the reverse  *)
(* order of their construction.  Meanwhile a thread of libe3 starts and    *)
(* stops the service models as dApps come and go.                          *)
(*                                                                         *)
(* A pipeline is here what its start() and stop() do to its owner: load,   *)
(* worker, stream, join, unload.  What happens inside is in SlotIqPipeline *)
(* and IqPipeline.                                                         *)
(***************************************************************************)
EXTENDS E3Config

CONSTANT Files     \* what the file named by --config may hold

RFs == {"iq", "slot"}          \* RF=1 Spectrum, RF=2 Layer1, with their pipelines
Threads == {"main", "ctl"}     \* ctl: the thread of libe3 that serves dApps

VARIABLES
    main_pc, exit_code,
    file, config,
    handlers, g_running,
    io,            \* jbpf IO is initialised
    scope,         \* the locals of main constructed so far
    agent,         \* "new", "initialized", "started", "stopping", "stopped"
    sm,            \* the service models the agent owns
    sm_running,    \* running_ of each service model
    region,        \* the row region is open
    running, worker, registered, loaded,     \* per pipeline; loaded:
                   \* codelets_loaded_
    in_gnb,        \* the codelets that are in the gNB
    refused,       \* history: those whose last unload request failed
    call,          \* per thread, the pipeline call it is in
    agent_stops_sms    \* libe3: agent.stop() stops the service models that run

Idle == [at |-> "none", rf |-> "slot"]

given == <<file, agent_stops_sms>>     \* what no step changes
mainVars == <<main_pc, exit_code, given, config, handlers>>
gnbVars == <<in_gnb, refused>>
pipeVars == <<running, worker, registered, loaded, gnbVars>>
vars == <<mainVars, g_running, io, scope, agent, sm, sm_running, region,
          pipeVars, call>>

Init ==
    /\ main_pc = "args" /\ exit_code = 0
    /\ file \in Files /\ config = Defaults
    /\ handlers = FALSE /\ g_running = TRUE
    /\ io = FALSE /\ scope = << >> /\ agent = "new"
    /\ sm = {} /\ sm_running = {} /\ region = FALSE
    /\ running = {} /\ worker = {} /\ registered = {} /\ loaded = {}
    /\ in_gnb = {} /\ refused = {}
    /\ call = [t \in Threads |-> Idle]
    /\ agent_stops_sms \in BOOLEAN

-----------------------------------------------------------------------------
(* Pipelines: start() and stop() as the thread t goes through them.        *)

LoadsCodelets == config.jbpf.codelet_base_path # << >>

At(t, step) == call[t].at = step
Goes(t, step) == call' = [call EXCEPT ![t].at = step]
Returns(t) == call' = [call EXCEPT ![t] = Idle]

\* SM start(): nothing to do when it runs, else the pipeline's start(), which
\* is itself nothing when the pipeline runs.
LoadCodelets(t) ==
    /\ At(t, "load")
    /\ LET rf == call[t].rf
       IN  IF rf \in running THEN Goes(t, "sm_up") /\ UNCHANGED <<loaded, gnbVars>>
           ELSE IF ~LoadsCodelets
                THEN Goes(t, "boot") /\ UNCHANGED <<loaded, gnbVars>>
           ELSE \/ /\ loaded' = loaded \cup {rf} /\ Goes(t, "boot")
                   /\ in_gnb' = in_gnb \cup {rf} /\ refused' = refused \ {rf}
                \/ Returns(t) /\ UNCHANGED <<loaded, gnbVars>>
    /\ UNCHANGED <<running, worker, registered, sm_running>>

Boot(t) ==
    /\ At(t, "boot")
    /\ running' = running \cup {call[t].rf}
    /\ worker' = worker \cup {call[t].rf}
    /\ Goes(t, "register")
    /\ UNCHANGED <<registered, loaded, gnbVars, sm_running>>

Register(t) ==
    /\ At(t, "register")
    /\ registered' = registered \cup {call[t].rf}
    /\ Goes(t, "sm_up")
    /\ UNCHANGED <<running, worker, loaded, gnbVars, sm_running>>

SmUp(t) ==
    /\ At(t, "sm_up")
    /\ sm_running' = sm_running \cup {call[t].rf}
    /\ Returns(t)
    /\ UNCHANGED pipeVars

\* Pipeline stop(): unregister, clear running_, join, unload.
StopPipeline(t) ==
    /\ At(t, "stop")
    /\ IF call[t].rf \in running
       THEN registered' = registered \ {call[t].rf} /\ Goes(t, "signal")
       ELSE Returns(t) /\ UNCHANGED registered
    /\ UNCHANGED <<running, worker, loaded, gnbVars, sm_running>>

\* Mutant of SignalWorker: the join comes before running_ is cleared.
SignalWorkerAfterJoin(t) ==
    /\ At(t, "signal")
    /\ Goes(t, "join")
    /\ UNCHANGED <<pipeVars, sm_running>>

SignalWorker(t) ==
    /\ At(t, "signal")
    /\ running' = running \ {call[t].rf}
    /\ Goes(t, "join")
    /\ UNCHANGED <<worker, registered, loaded, gnbVars, sm_running>>

\* The join, and the buffers left in the queue released.
Join(t) ==
    /\ At(t, "join")
    /\ call[t].rf \notin worker
    /\ Goes(t, "unload")
    /\ UNCHANGED <<pipeVars, sm_running>>

\* Codelets that were loaded are asked for back.  codelets_loaded_ is cleared
\* whether or not the request succeeds; one that fails is logged.
Unload(t) ==
    /\ At(t, "unload")
    /\ LET rf == call[t].rf
       IN  /\ loaded' = loaded \ {rf}
           /\ \/ rf \notin loaded /\ UNCHANGED gnbVars
              \/ rf \in loaded /\ in_gnb' = in_gnb \ {rf} /\ UNCHANGED refused
              \/ rf \in loaded /\ refused' = refused \cup {rf} /\ UNCHANGED in_gnb
    /\ Returns(t)
    /\ UNCHANGED <<running, worker, registered, sm_running>>

\* worker_loop() returns once it sees running_ cleared.
WorkerExits(rf) ==
    /\ rf \in worker /\ rf \notin running
    /\ worker' = worker \ {rf}
    /\ UNCHANGED <<mainVars, g_running, io, scope, agent, sm, sm_running,
                   region, running, registered, loaded, gnbVars, call>>

PipelineStep(t) ==
    /\ \/ LoadCodelets(t) \/ Boot(t) \/ Register(t) \/ SmUp(t)
       \/ StopPipeline(t) \/ SignalWorker(t) \/ Join(t) \/ Unload(t)
    /\ UNCHANGED <<mainVars, g_running, io, scope, agent, sm, region>>

-----------------------------------------------------------------------------
(* libe3's thread: start() on the first subscription, stop() on the last   *)
(* unsubscription, one at a time, from agent.start() until agent.stop().   *)

SmStarts(rf) ==
    /\ agent = "started" /\ At("ctl", "none")
    /\ rf \in sm \ sm_running
    /\ call' = [call EXCEPT !["ctl"] = [at |-> "load", rf |-> rf]]
    /\ UNCHANGED <<mainVars, g_running, io, scope, agent, sm, sm_running,
                   region, pipeVars>>

\* SM stop(): running_ is cleared before the pipeline is stopped.
SmStop(t, rf) ==
    /\ sm_running' = sm_running \ {rf}
    /\ call' = [call EXCEPT ![t] = [at |-> "stop", rf |-> rf]]

SmStops(rf) ==
    /\ agent = "started" /\ At("ctl", "none")
    /\ rf \in sm_running
    /\ SmStop("ctl", rf)
    /\ UNCHANGED <<mainVars, g_running, io, scope, agent, sm, region, pipeVars>>

-----------------------------------------------------------------------------
(* main *)

\* A step of main outside the pipelines' calls.
MainAt(pc) == main_pc = pc /\ At("main", "none")

\* return code: the locals are destroyed next.
Return(code) == main_pc' = "unwind" /\ exit_code' = code

\* A call that succeeds and moves main on, or fails and makes it return 1.
Proceeds(pc) == main_pc' = pc /\ UNCHANGED exit_code

otherVars == <<sm_running, pipeVars, call>>

\* --help returns 0; anything else than --config <file> returns 1.
ParseArgs ==
    /\ MainAt("args")
    /\ Proceeds("config") \/ Return(0) \/ Return(1)
    /\ UNCHANGED <<given, config, handlers, g_running, io, scope, agent, sm,
                   region, otherVars>>

LoadConfig ==
    /\ MainAt("config")
    /\ \/ Accepts(file) /\ config' = Effective(file) /\ Proceeds("agent")
       \/ ~Accepts(file) /\ Return(1) /\ UNCHANGED config
    /\ UNCHANGED <<given, handlers, g_running, io, scope, agent, sm, region,
                   otherVars>>

\* The agent is the first of the locals that owns anything.
ConstructAgent ==
    /\ MainAt("agent")
    /\ scope' = Append(scope, "agent")
    /\ Proceeds("handlers")
    /\ UNCHANGED <<given, config, handlers, g_running, io, agent, sm, region,
                   otherVars>>

InstallHandlers ==
    /\ MainAt("handlers")
    /\ \/ handlers' = TRUE /\ Proceeds("io_init")
       \/ Return(1) /\ UNCHANGED handlers
    /\ UNCHANGED <<given, config, g_running, io, scope, agent, sm, region,
                   otherVars>>

InitIo ==
    /\ MainAt("io_init")
    /\ \/ io' = TRUE /\ Proceeds("io_thread")
       \/ Return(1) /\ UNCHANGED io
    /\ UNCHANGED <<given, config, handlers, g_running, scope, agent, sm, region,
                   otherVars>>

RegisterIoThread ==
    /\ MainAt("io_thread")
    /\ \/ Proceeds("agent_init") /\ UNCHANGED io
       \/ io' = FALSE /\ Return(1)
    /\ UNCHANGED <<given, config, handlers, g_running, scope, agent, sm, region,
                   otherVars>>

\* From here on a failure returns without jbpf_io_stop().
InitAgent ==
    /\ MainAt("agent_init")
    /\ \/ agent' = "initialized" /\ Proceeds("construct")
       \/ Return(1) /\ UNCHANGED agent
    /\ UNCHANGED <<given, config, handlers, g_running, io, scope, sm, region,
                   otherVars>>

ConstructPipelines ==
    /\ MainAt("construct")
    /\ scope' = scope \o <<"dispatcher", "iq", "slot">>
    /\ Proceeds("register_iq")
    /\ UNCHANGED <<given, config, handlers, g_running, io, agent, sm, region,
                   otherVars>>

\* register_sm() takes the service model over and calls its init().
RegisterSpectrum ==
    /\ MainAt("register_iq")
    /\ \/ sm' = sm \cup {"iq"} /\ Proceeds("register_slot")
       \/ Return(1) /\ UNCHANGED sm
    /\ UNCHANGED <<given, config, handlers, g_running, io, scope, agent, region,
                   otherVars>>

\* init() of Layer1 opens the region, or fails with it.
RegisterLayer1 ==
    /\ MainAt("register_slot")
    /\ \/ sm' = sm \cup {"slot"} /\ region' = TRUE /\ Proceeds("agent_start")
       \/ Return(1) /\ UNCHANGED <<sm, region>>
    /\ UNCHANGED <<given, config, handlers, g_running, io, scope, agent,
                   otherVars>>

StartAgent ==
    /\ MainAt("agent_start")
    /\ \/ agent' = "started" /\ Proceeds("poll")
       \/ Return(1) /\ UNCHANGED agent
    /\ UNCHANGED <<given, config, handlers, g_running, io, scope, sm, region,
                   otherVars>>

\* Mutant of LeavePollLoop: the pipelines are stopped under a running agent.
LeavePollLoopAgentRuns ==
    /\ MainAt("poll") /\ ~g_running
    /\ Proceeds("stop_slot")
    /\ UNCHANGED <<given, config, handlers, g_running, io, scope, agent, sm,
                   region, otherVars>>

\* The loop polls until g_running is cleared; what a poll does is in
\* SlotIqPipeline and IqPipeline.
LeavePollLoop ==
    /\ MainAt("poll") /\ ~g_running
    /\ Proceeds("agent_stop")
    /\ UNCHANGED <<given, config, handlers, g_running, io, scope, agent, sm,
                   region, otherVars>>

\* agent.stop(): no further request is served.
StopAgent ==
    /\ MainAt("agent_stop")
    /\ agent' = "stopping" /\ Proceeds("agent_joins")
    /\ UNCHANGED <<given, config, handlers, g_running, io, scope, sm, region,
                   otherVars>>

\* Its thread has left the service models; those still running are stopped.
AgentStopsSm(rf) ==
    /\ MainAt("agent_joins") /\ At("ctl", "none")
    /\ agent_stops_sms /\ rf \in sm_running
    /\ SmStop("main", rf)
    /\ UNCHANGED <<mainVars, g_running, io, scope, agent, sm, region, pipeVars>>

\* Mutant of AgentStopped: jbpf IO goes before the pipelines, which are left
\* to their destructors.
AgentStoppedIoNext ==
    /\ MainAt("agent_joins") /\ At("ctl", "none")
    /\ agent_stops_sms => sm_running = {}
    /\ agent' = "stopped" /\ Proceeds("io_stop")
    /\ UNCHANGED <<given, config, handlers, g_running, io, scope, sm, region,
                   otherVars>>

AgentStopped ==
    /\ MainAt("agent_joins") /\ At("ctl", "none")
    /\ agent_stops_sms => sm_running = {}
    /\ agent' = "stopped" /\ Proceeds("stop_slot")
    /\ UNCHANGED <<given, config, handlers, g_running, io, scope, sm, region,
                   otherVars>>

\* slot_iq_pipeline.stop(), then iq_pipeline.stop().
StopPipelines ==
    /\ \/ MainAt("stop_slot") /\ Proceeds("stop_iq")
          /\ call' = [call EXCEPT !["main"] = [at |-> "stop", rf |-> "slot"]]
       \/ MainAt("stop_iq") /\ Proceeds("io_stop")
          /\ call' = [call EXCEPT !["main"] = [at |-> "stop", rf |-> "iq"]]
    /\ UNCHANGED <<given, config, handlers, g_running, io, scope, agent, sm,
                   sm_running, region, pipeVars>>

StopIo ==
    /\ MainAt("io_stop")
    /\ io' = FALSE /\ Proceeds("report")
    /\ UNCHANGED <<given, config, handlers, g_running, scope, agent, sm, region,
                   otherVars>>

\* The drop accounting is printed.
Report ==
    /\ MainAt("report")
    /\ Return(0)
    /\ UNCHANGED <<given, config, handlers, g_running, io, scope, agent, sm,
                   region, otherVars>>

-----------------------------------------------------------------------------
(* The destructors *)

Innermost == scope[Len(scope)]

\* A pipeline's destructor calls stop() before the object is gone.
DestroyPipeline ==
    /\ MainAt("unwind") /\ scope # << >> /\ Innermost \in RFs
    /\ \/ /\ Innermost \in running
          /\ call' = [call EXCEPT !["main"] = [at |-> "stop", rf |-> Innermost]]
          /\ UNCHANGED scope
       \/ /\ Innermost \notin running
          /\ scope' = SubSeq(scope, 1, Len(scope) - 1)
          /\ UNCHANGED call
    /\ UNCHANGED <<mainVars, g_running, io, agent, sm, sm_running, region,
                   pipeVars>>

DestroyDispatcher ==
    /\ MainAt("unwind") /\ scope # << >> /\ Innermost = "dispatcher"
    /\ scope' = SubSeq(scope, 1, Len(scope) - 1)
    /\ UNCHANGED <<mainVars, g_running, io, agent, sm, region, otherVars>>

\* Mutant of DestroyAgent: destroy() closes nothing.
DestroyAgentKeepsRegion ==
    /\ MainAt("unwind") /\ scope # << >> /\ Innermost = "agent"
    /\ scope' = SubSeq(scope, 1, Len(scope) - 1) /\ sm' = {}
    /\ UNCHANGED <<mainVars, g_running, io, agent, region, otherVars>>

\* The agent destroys its service models, destroy() stops one that runs and,
\* for Layer1, closes the region.
DestroyAgent ==
    /\ MainAt("unwind") /\ scope # << >> /\ Innermost = "agent"
    /\ \/ \E rf \in sm :
            IF rf \in sm_running
            THEN SmStop("main", rf) /\ UNCHANGED <<sm, region, scope>>
            ELSE /\ sm' = sm \ {rf}
                 /\ region' = (region /\ rf # "slot")
                 /\ UNCHANGED <<scope, sm_running, call>>
       \/ /\ sm = {} /\ scope' = SubSeq(scope, 1, Len(scope) - 1)
          /\ UNCHANGED <<sm, region, sm_running, call>>
    /\ UNCHANGED <<mainVars, g_running, io, agent, pipeVars>>

Exit ==
    /\ MainAt("unwind") /\ scope = << >>
    /\ main_pc' = "exited"
    /\ UNCHANGED <<exit_code, given, config, handlers, g_running, io, scope,
                   agent, sm, region, otherVars>>

-----------------------------------------------------------------------------
\* SIGINT or SIGTERM: before the handlers are installed it ends the process.
Signal ==
    /\ main_pc # "exited"
    /\ \/ handlers /\ g_running /\ g_running' = FALSE /\ UNCHANGED main_pc
       \/ ~handlers /\ main_pc' = "exited" /\ UNCHANGED g_running
    /\ UNCHANGED <<exit_code, given, config, handlers, io, scope, agent, sm,
                   region, otherVars>>

Main ==
    \/ ParseArgs \/ LoadConfig \/ ConstructAgent \/ InstallHandlers \/ InitIo
    \/ RegisterIoThread \/ InitAgent \/ ConstructPipelines \/ RegisterSpectrum
    \/ RegisterLayer1 \/ StartAgent \/ LeavePollLoop \/ StopAgent
    \/ \E rf \in RFs : AgentStopsSm(rf)
    \/ AgentStopped \/ StopPipelines \/ StopIo \/ Report
    \/ DestroyPipeline \/ DestroyDispatcher \/ DestroyAgent \/ Exit
    \/ PipelineStep("main")

LibE3 == PipelineStep("ctl") \/ \E rf \in RFs : SmStarts(rf) \/ SmStops(rf)

Next == Main \/ LibE3 \/ Signal \/ \E rf \in RFs : WorkerExits(rf)

Spec == Init /\ [][Next]_vars

\* main and the workers are scheduled; what libe3's thread has begun it ends,
\* but nothing makes a dApp subscribe or the operator send a signal.
FairSpec ==
    /\ Spec
    /\ WF_vars(Main)
    /\ WF_vars(PipelineStep("ctl"))
    /\ \A rf \in RFs : WF_vars(WorkerExits(rf))

-----------------------------------------------------------------------------
Alive == {scope[i] : i \in DOMAIN scope}

\* The configuration is in force from here on.
Configured == main_pc \notin {"args", "config", "unwind", "exited"}

\* "A typo'd nof_port: that is silently ignored ... Better to refuse to start"
\* (e3_config.cpp:21): once main goes on, every word a section of the file holds
\* is the setting in force, every other setting is its default, the LCM socket
\* is where the gNB puts it under the run path in force unless the file names
\* one, and a row of the configured geometry fits the region.
NothingIgnored ==
    Configured =>
        /\ \A s \in SectionNames :
              LET section == file.sections[s]
              IN  section.form = "map" =>
                    \A key \in DOMAIN section.words :
                        /\ key \in DOMAIN config[s]
                        /\ config[s][key] = ValueOf(key, section.words[key])
        /\ \A s \in SectionNames : \A key \in DOMAIN config[s] :
              \/ Has(file.sections[s], key)
              \/ key = "lcm_socket_path"
                 /\ config[s][key] = config.jbpf.run_path \o <<"jbpf", "jbpf_lcm_ipc">>
              \/ key # "lcm_socket_path" /\ config[s][key] = Defaults[s][key]
        /\ validate(config.radio)
        /\ RegionHoldsARow(config.radio, config.shm.size_bytes)

\* Whoever is inside a pipeline, a worker included, finds the pipeline, the
\* dispatcher, the agent and jbpf IO still there ("Order matters",
\* e3_controller.cpp:427), although main destroys the agent, and with it the
\* service models that call the pipelines, last of all.  That main's last step
\* calls no pipeline is owed to libe3: agent.stop() must have stopped the
\* service models.
UsesLiveObjects ==
    /\ \A rf \in worker \cup registered :
          io /\ {"agent", "dispatcher", rf} \subseteq Alive /\ rf \in sm
    /\ agent_stops_sms =>
          \A t \in Threads : ~At(t, "none") =>
              io /\ {"agent", "dispatcher", call[t].rf} \subseteq Alive

\* From the first pipeline that main stops on it is alone with the pipelines
\* (their start() and stop() are not made for two callers), and the drop
\* accounting is "final and no thread is still incrementing" it
\* (e3_controller.cpp:439).
TearsDownAlone ==
    /\ main_pc \in {"stop_slot", "stop_iq", "io_stop", "report", "unwind"} =>
          At("ctl", "none")
    /\ main_pc = "report" => worker = {} /\ registered = {}

\* However main ends once it handles signals, it leaves no worker and no region
\* behind, and no codelet but one whose unload request failed: that is logged
\* and not tried again (slot_iq_pipeline.cpp:116, :209).  jbpf IO is left
\* initialised only by a return that reports failure.
ExitLeavesNothing ==
    main_pc = "exited" /\ handlers =>
        /\ worker = {} /\ running = {} /\ loaded = {} /\ sm = {}
        /\ in_gnb \subseteq refused
        /\ ~region
        /\ io => exit_code = 1

\* A signal ends the process, whatever start-up step it meets and whatever
\* libe3's thread is doing.
SignalEndsProcess == ~g_running ~> main_pc = "exited"
=============================================================================
