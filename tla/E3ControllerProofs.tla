------------------------- MODULE E3ControllerProofs -------------------------
(***************************************************************************)
(* Proofs about E3Controller for every set of configuration files and      *)
(* every interleaving of main, the thread of libe3, the workers and the    *)
(* signals: the configuration in force is the file's, nobody is inside a   *)
(* pipeline that is gone, and the process leaves nothing behind; each      *)
(* pipeline is used as its session contract has it, and a process that was *)
(* told to stop takes a bounded number of steps.                           *)
(***************************************************************************)
EXTENDS E3Controller, SequenceTheorems, TLAPS

-----------------------------------------------------------------------------
(* The inductive invariant. *)

\* main, by what it has constructed.
Before == {"args", "config", "agent"}
Setup == {"handlers", "io_init", "io_thread", "agent_init", "construct"}
Registering == {"register_iq", "register_slot", "agent_start"}
Serving == {"poll", "agent_stop", "agent_joins"}
Stopping == {"stop_slot", "stop_iq", "io_stop"}
Ending == {"unwind", "exited"}
Active == Serving \cup Stopping
Whole == Registering \cup Active \cup {"report"}
MainSteps == Before \cup Setup \cup Whole \cup Ending

Locals == {"agent", "dispatcher", "iq", "slot"}
Scope0 == << >>
Scope1 == <<"agent">>
Scope2 == <<"agent", "dispatcher">>
Scope3 == <<"agent", "dispatcher", "iq">>
Scope4 == <<"agent", "dispatcher", "iq", "slot">>
Scopes == {Scope0, Scope1, Scope2, Scope3, Scope4}

\* What main has constructed, initialised and handed to the agent where it is.
MainInv ==
    /\ main_pc \in MainSteps
    /\ scope \in Scopes
    /\ main_pc \in Before => scope = Scope0
    /\ main_pc \in Setup => scope = Scope1
    /\ main_pc \in Whole => scope = Scope4
    /\ main_pc = "exited" /\ handlers => scope = Scope0
    /\ main_pc \in Whole \cup (Setup \ {"handlers"}) => handlers
    /\ agent = "started" => main_pc \in {"poll", "agent_stop"}
    /\ main_pc \in Registering \cup Active => io
    /\ main_pc \in {"io_thread", "agent_init", "construct"} => io
    /\ main_pc \in Before \cup {"handlers", "report"} => ~io
    /\ main_pc \in Ending /\ io => exit_code = 1

\* The service models of the agent and the region of Layer1.
SmInv ==
    /\ sm \subseteq RFs
    /\ main_pc = "register_slot" => "iq" \in sm
    /\ main_pc \in Active \cup {"agent_start", "report"} => sm = RFs
    /\ scope = Scope0 => sm = {}
    /\ region => "slot" \in sm

StopSteps == {"stop", "signal", "join", "unload"}
CallSteps == {"none", "load", "boot", "register", "sm_up"} \cup StopSteps

\* Who is inside a pipeline: libe3's thread until the agent has stopped, main
\* to stop one, never both.
CallInv ==
    /\ call \in [Threads -> [at : CallSteps, rf : RFs]]
    /\ call["ctl"].at # "none" => main_pc \in Serving /\ call["main"].at = "none"
    /\ call["main"].at \in StopSteps \cup {"none"}
    /\ call["main"].at # "none" =>
          main_pc \in Ending \cup {"agent_joins", "stop_iq", "io_stop"}
    /\ main_pc = "stop_iq" /\ call["main"].at # "none" => call["main"].rf = "slot"
    /\ main_pc = "io_stop" /\ call["main"].at # "none" => call["main"].rf = "iq"
    /\ main_pc \in Ending => call["main"].at \in {"none", "stop"}
    /\ agent_stops_sms /\ main_pc \notin Serving => sm_running = {}
    /\ agent_stops_sms /\ main_pc \in Ending => call["main"].at = "none"

\* The call in progress, if there is one.
Current == IF call["main"].at = "none" THEN call["ctl"] ELSE call["main"]

\* A pipeline has a worker, a stream and codelets only while it runs or a
\* start() or stop() is on its way.
PipeInv ==
    /\ running \subseteq RFs
    /\ \A rf \in worker : rf \in running \/ (Current.at = "join" /\ Current.rf = rf)
    /\ registered \subseteq running
    /\ \A rf \in loaded :
          \/ rf \in running
          \/ Current.at \in {"boot", "join", "unload"} /\ Current.rf = rf
    /\ Current.at = "signal" => Current.rf \notin registered
    /\ Current.at = "register" => Current.rf \in running
    /\ Current.at \in {"join", "unload"} => Current.rf \notin running

\* Which pipelines may run where main is.
PhaseInv ==
    /\ main_pc \notin Active => running = {}
    /\ main_pc = "stop_iq" /\ call["main"].at = "none" => "slot" \notin running
    /\ main_pc = "io_stop" => "slot" \notin running
    /\ main_pc = "io_stop" /\ call["main"].at = "none" => "iq" \notin running

\* The configuration in force is the one the file stands for.
ConfigInv == Configured => Accepts(file) /\ config = Effective(file)

IInv == MainInv /\ SmInv /\ CallInv /\ PipeInv /\ PhaseInv /\ ConfigInv

-----------------------------------------------------------------------------
(* The configuration. *)

\* The sections of a configuration; only jbpf has a socket path.
LEMMA Sections ==
    /\ "radio" \in SectionNames /\ "shm" \in SectionNames /\ "jbpf" \in SectionNames
    /\ \A s \in SectionNames : "lcm_socket_path" \in DOMAIN Defaults[s] => s = "jbpf"
    /\ "lcm_socket_path" \in DOMAIN Defaults["jbpf"]
    /\ "run_path" \in DOMAIN Defaults["jbpf"]
<1>1. SectionNames = {"radio", "shm", "jbpf", "e3", "threads", "logging"}
  BY DEF SectionNames, Defaults
<1>2. /\ "lcm_socket_path" \in DOMAIN Defaults["jbpf"]
      /\ "run_path" \in DOMAIN Defaults["jbpf"]
  BY DEF Defaults
<1>3. "lcm_socket_path" \notin DOMAIN Defaults["radio"]
  BY DEF Defaults
<1>4. "lcm_socket_path" \notin DOMAIN Defaults["shm"]
  BY DEF Defaults
<1>5. "lcm_socket_path" \notin DOMAIN Defaults["e3"]
  BY DEF Defaults
<1>6. "lcm_socket_path" \notin DOMAIN Defaults["threads"]
  BY DEF Defaults
<1>7. "lcm_socket_path" \notin DOMAIN Defaults["logging"]
  BY DEF Defaults
<1> QED
  BY <1>1, <1>2, <1>3, <1>4, <1>5, <1>6, <1>7, Zenon

\* What load_config() makes of a file, setting by setting.
LEMMA EffectiveSettings ==
    ASSUME NEW f, NEW s \in SectionNames
    PROVE  LET c == Read(f.sections[s], Defaults[s])
               e == Effective(f)[s]
           IN  /\ DOMAIN e = DOMAIN Defaults[s]
               /\ \A key \in DOMAIN Defaults[s] : key # "lcm_socket_path" => e[key] = c[key]
               /\ s # "jbpf" => e = c
               /\ s = "jbpf" => e["lcm_socket_path"] = LcmSocketPath(f, c)
<1> DEFINE r == [q \in SectionNames |-> Read(f.sections[q], Defaults[q])]
           c == Read(f.sections[s], Defaults[s])
           p == LcmSocketPath(f, r["jbpf"])
<1>1. Effective(f) = [r EXCEPT !["jbpf"] = [r["jbpf"] EXCEPT !["lcm_socket_path"] = p]]
  BY Zenon DEF Effective
<1>2. r["jbpf"] = Read(f.sections["jbpf"], Defaults["jbpf"]) /\ r[s] = c
  BY Sections, Zenon
<1>3. DOMAIN c = DOMAIN Defaults[s]
  BY Zenon DEF Read
<1>4. DOMAIN r = SectionNames
  BY Zenon
<1> HIDE DEF r, c, p
<1>5. CASE s = "jbpf"
  <2>1. Effective(f)[s] = [c EXCEPT !["lcm_socket_path"] = LcmSocketPath(f, c)]
    BY <1>1, <1>2, <1>4, <1>5, Zenon DEF p, c
  <2> QED
    BY <1>3, <1>5, <2>1, Sections, Zenon DEF c
<1>6. CASE s # "jbpf"
  <2>1. Effective(f)[s] = c
    BY <1>1, <1>2, <1>4, <1>6, Zenon
  <2> QED
    BY <1>3, <1>6, <2>1, Zenon DEF c
<1> QED
  BY <1>5, <1>6, Zenon

\* Of a file that is accepted nothing is ignored.
LEMMA AcceptedFile == ConfigInv => NothingIgnored
<1> SUFFICES ASSUME Configured, Accepts(file), config = Effective(file)
             PROVE  NothingIgnored
  BY Zenon DEF ConfigInv, NothingIgnored
<1> DEFINE Sec(s) == file.sections[s]
           R(s) == Read(Sec(s), Defaults[s])
<1>1. /\ \A s \in SectionNames : SectionLoads(Sec(s), DOMAIN Defaults[s])
      /\ validate(config.radio)
      /\ RegionHoldsARow(config.radio, config.shm.size_bytes)
  BY Zenon DEF Accepts, Parses, load_config
<1>2. ASSUME NEW s \in SectionNames
      PROVE  /\ DOMAIN config[s] = DOMAIN Defaults[s]
             /\ \A key \in DOMAIN Defaults[s] :
                    key # "lcm_socket_path" => config[s][key] = R(s)[key]
             /\ s # "jbpf" => config[s] = R(s)
             /\ s = "jbpf" => config[s]["lcm_socket_path"] = LcmSocketPath(file, R(s))
  BY EffectiveSettings, Zenon
<1>3. ASSUME NEW s \in SectionNames, NEW key \in DOMAIN Defaults[s]
      PROVE  /\ R(s)[key] = IF Has(Sec(s), key) THEN ValueOf(key, Sec(s).words[key])
                            ELSE Defaults[s][key]
             /\ key = "lcm_socket_path" => s = "jbpf"
  BY Sections, Zenon DEF Read
<1>4. ASSUME NEW s \in SectionNames, Sec(s).form = "map", NEW key \in DOMAIN Sec(s).words
      PROVE  key \in DOMAIN config[s] /\ config[s][key] = ValueOf(key, Sec(s).words[key])
  <2>1. key \in DOMAIN Defaults[s] /\ Has(Sec(s), key)
    BY <1>1, <1>4, Zenon DEF SectionLoads, check_keys, Has
  <2>2. R(s)[key] = ValueOf(key, Sec(s).words[key])
    BY <1>3, <2>1, Zenon
  <2>3. CASE key # "lcm_socket_path"
    BY <1>2, <2>1, <2>2, <2>3, Zenon
  <2>4. CASE key = "lcm_socket_path"
    <3>1. s = "jbpf"
      BY <1>3, <2>1, <2>4, Zenon
    <3>2. LcmSocketPath(file, R(s)) = R(s)[key]
      BY <2>1, <2>4, <3>1, Zenon DEF LcmSocketPath
    <3> QED
      BY <1>2, <2>1, <2>2, <2>4, <3>1, <3>2, Zenon
  <2> QED
    BY <2>3, <2>4, Zenon
<1>5. ASSUME NEW s \in SectionNames, NEW key \in DOMAIN config[s], ~Has(Sec(s), key)
      PROVE  \/ /\ key = "lcm_socket_path"
                /\ config[s][key] = config.jbpf.run_path \o <<"jbpf", "jbpf_lcm_ipc">>
             \/ key # "lcm_socket_path" /\ config[s][key] = Defaults[s][key]
  <2>1. key \in DOMAIN Defaults[s]
    BY <1>2, Zenon
  <2>2. CASE key # "lcm_socket_path"
    BY <1>2, <1>3, <1>5, <2>1, <2>2, Zenon
  <2>3. CASE key = "lcm_socket_path"
    <3>1. s = "jbpf"
      BY <1>3, <2>1, <2>3, Zenon
    <3>2. config.jbpf.run_path = R(s).run_path
      BY <1>2, <3>1, Sections, Zenon
    <3>3. LcmSocketPath(file, R(s)) = R(s).run_path \o <<"jbpf", "jbpf_lcm_ipc">>
      BY <1>5, <2>3, <3>1, Zenon DEF LcmSocketPath
    <3> QED
      BY <1>2, <2>3, <3>1, <3>2, <3>3, Zenon
  <2> QED
    BY <2>2, <2>3, Zenon
<1> QED
  BY <1>1, <1>4, <1>5, Zenon DEF NothingIgnored

-----------------------------------------------------------------------------
(* What the invariant implies. *)

\* Whoever is past the first check of stop(), or inside start(), is there while
\* main has the pipelines; a call of main after that returns at once.
LEMMA WhoIsInside ==
    ASSUME IInv
    PROVE  /\ Current \in [at : CallSteps, rf : RFs]
           /\ Current.at \notin {"none", "stop"} => main_pc \in Active
           /\ agent_stops_sms /\ Current.at # "none" => main_pc \in Active
           /\ main_pc \notin Active => worker = {} /\ registered = {} /\ loaded = {}
           /\ worker \cup registered \cup loaded \subseteq RFs
<1>1. CallInv /\ PipeInv /\ PhaseInv
  BY Zenon DEF IInv
<1>2. call["main"] \in [at : CallSteps, rf : RFs] /\ call["ctl"] \in [at : CallSteps, rf : RFs]
  BY <1>1, Zenon DEF CallInv, Threads
<1>3. Current \in [at : CallSteps, rf : RFs]
  BY <1>2, Zenon DEF Current
<1>4. /\ Current.at \notin {"none", "stop"} => main_pc \in Active
      /\ agent_stops_sms /\ Current.at # "none" => main_pc \in Active
  BY <1>1, Zenon DEF CallInv, Current, Active, Serving, Stopping
<1>5. main_pc \notin Active => worker = {} /\ registered = {} /\ loaded = {}
  BY <1>1, <1>4, Zenon DEF PipeInv, PhaseInv
<1>6. worker \cup registered \cup loaded \subseteq RFs
  BY <1>1, <1>3, Zenon DEF PipeInv
<1> QED
  BY <1>3, <1>4, <1>5, <1>6, Zenon

\* The objects main owns while the pipelines may be in use.
LEMMA AllAlive == ASSUME IInv, main_pc \in Active, NEW rf \in RFs
                  PROVE  io /\ {"agent", "dispatcher", rf} \subseteq Alive /\ rf \in sm
<1>1. io /\ scope = Scope4 /\ sm = RFs
  BY Zenon DEF IInv, MainInv, SmInv, Whole
<1>2. Alive = {"agent", "dispatcher", "iq", "slot"}
  BY <1>1 DEF Alive, Scope4
<1> QED
  BY <1>1, <1>2, Zenon DEF RFs

\* UsesLiveObjects, from where the threads may be.
LEMMA LiveObjects == IInv => UsesLiveObjects
<1> SUFFICES ASSUME IInv PROVE UsesLiveObjects
  BY Zenon
<1>1. \A rf \in worker \cup registered :
          io /\ {"agent", "dispatcher", rf} \subseteq Alive /\ rf \in sm
  <2>1. ASSUME NEW rf \in worker \cup registered PROVE rf \in RFs /\ main_pc \in Active
    BY WhoIsInside, Zenon
  <2> QED
    BY <2>1, AllAlive, Zenon
<1>2. ASSUME agent_stops_sms, NEW t \in Threads, ~At(t, "none")
      PROVE  main_pc \in Active /\ call[t].rf \in RFs
  <2>1. Current = call[t] /\ Current.at # "none"
    BY <1>2 DEF Current, At, Threads, IInv, CallInv
  <2> QED
    BY <1>2, <2>1, WhoIsInside, Zenon
<1> QED
  BY <1>1, <1>2, AllAlive, Zenon DEF UsesLiveObjects

\* TearsDownAlone, likewise.
LEMMA TearsDown == IInv => TearsDownAlone
<1> SUFFICES ASSUME IInv PROVE TearsDownAlone
  BY Zenon
<1>1. main_pc \in {"stop_slot", "stop_iq", "io_stop", "report", "unwind"} => At("ctl", "none")
  BY Zenon DEF IInv, CallInv, Serving, At
<1>2. main_pc = "report" => worker = {} /\ registered = {}
  BY WhoIsInside, Zenon DEF Active, Serving, Stopping
<1> QED
  BY <1>1, <1>2, Zenon DEF TearsDownAlone

\* What is in the gNB, codelets_loaded_ knows of or an unload has left there.
GnbInv == in_gnb \subseteq loaded \cup refused

\* ExitLeavesNothing, from what is left when the locals are gone.
LEMMA LeavesNothing == IInv /\ GnbInv => ExitLeavesNothing
<1> SUFFICES ASSUME IInv, GnbInv, main_pc = "exited", handlers
             PROVE  ExitLeavesNothing
  BY Zenon DEF ExitLeavesNothing
<1>1. main_pc \notin Active /\ main_pc \in Ending
  BY Zenon DEF Active, Serving, Stopping, Ending
<1>2. scope = Scope0 /\ sm = {} /\ ~region /\ (io => exit_code = 1)
  BY <1>1, Zenon DEF IInv, MainInv, SmInv
<1>3. worker = {} /\ loaded = {} /\ running = {}
  BY <1>1, WhoIsInside, Zenon DEF IInv, PhaseInv
<1>4. in_gnb \subseteq refused
  BY <1>3, Zenon DEF GnbInv
<1> QED
  BY <1>2, <1>3, <1>4, Zenon DEF ExitLeavesNothing

-----------------------------------------------------------------------------
(* The steps of main outside the pipelines. *)

\* The initial state.
LEMMA InitIInv == Init => IInv
<1> SUFFICES ASSUME Init PROVE IInv
  BY Zenon
<1>1. Idle \in [at : CallSteps, rf : RFs] /\ Idle.at = "none"
  BY Zenon DEF Idle, CallSteps, StopSteps, RFs
<1>2. call = [t \in Threads |-> Idle] /\ call["main"] = Idle /\ call["ctl"] = Idle
  BY Zenon DEF Init, Threads
<1>3. /\ main_pc = "args" /\ scope = << >> /\ agent = "new" /\ io = FALSE
      /\ sm = {} /\ sm_running = {} /\ region = FALSE
      /\ running = {} /\ worker = {} /\ registered = {} /\ loaded = {}
  BY Zenon DEF Init
<1>4. MainInv
  BY <1>3, Zenon
     DEF MainInv, Before, Setup, Whole, Registering, Active, Serving, Stopping,
         Ending, MainSteps, Scopes, Scope0
<1>5. SmInv
  BY <1>3, Zenon DEF SmInv, Active, Serving, Stopping
<1>6. CallInv
  BY <1>1, <1>2, <1>3, Zenon DEF CallInv, Serving, Ending, StopSteps
<1>7. PipeInv /\ PhaseInv
  BY <1>1, <1>2, <1>3, Zenon DEF PipeInv, PhaseInv, Current
<1>8. ConfigInv
  BY <1>3, Zenon DEF ConfigInv, Configured
<1> QED
  BY <1>4, <1>5, <1>6, <1>7, <1>8, Zenon DEF IInv

\* The invariant in parts.
LEMMA Parts ==
    ASSUME IInv
    PROVE  MainInv /\ SmInv /\ CallInv /\ PipeInv /\ PhaseInv /\ ConfigInv
  BY Zenon DEF IInv

\* A step that leaves main and what it owns alone.
LEMMA MainKept ==
    ASSUME IInv, UNCHANGED <<mainVars, io, scope, agent, sm, region>>
    PROVE  MainInv' /\ SmInv' /\ ConfigInv'
<1>1. /\ main_pc' = main_pc /\ exit_code' = exit_code /\ file' = file
      /\ config' = config /\ handlers' = handlers /\ io' = io /\ scope' = scope
      /\ agent' = agent /\ sm' = sm /\ region' = region
  BY Zenon DEF mainVars, given
<1>2. MainInv'
  BY <1>1, Parts DEF MainInv
<1>3. SmInv'
  BY <1>1, Parts DEF SmInv
<1>4. ConfigInv'
  BY <1>1, Parts, Zenon DEF ConfigInv, Configured
<1> QED
  BY <1>2, <1>3, <1>4, Zenon

\* A step of main that leaves the pipelines and the calls alone: main goes on
\* before they are in use or after, polls, has the agent stopped, or is done
\* with them.
LEMMA CallsKept ==
    ASSUME IInv, At("main", "none"), UNCHANGED otherVars,
           agent_stops_sms' = agent_stops_sms, main_pc' \in MainSteps,
           \/ main_pc \notin Active /\ main_pc' \notin Active \ {"poll"}
           \/ main_pc \in Serving /\ main_pc' \in Serving
           \/ main_pc = "io_stop" /\ main_pc' = "report"
           \/ /\ main_pc = "agent_joins" /\ main_pc' = "stop_slot"
              /\ At("ctl", "none")
              /\ agent_stops_sms => sm_running = {}
    PROVE  CallInv' /\ PipeInv' /\ PhaseInv'
<1>1. /\ call' = call /\ sm_running' = sm_running /\ running' = running
      /\ worker' = worker /\ registered' = registered /\ loaded' = loaded
      /\ call["main"].at = "none" /\ Current' = Current
  BY Zenon DEF otherVars, pipeVars, At, Current
<1>2. PipeInv'
  BY <1>1, Parts, Zenon DEF PipeInv
<1>3. PhaseInv'
  BY <1>1, Parts, Zenon DEF PhaseInv, PipeInv, RFs, Active, Serving, Stopping
<1>4. CallInv'
  BY <1>1, Parts, Zenon DEF CallInv, Active, Serving, Stopping, Ending, At
<1> QED
  BY <1>2, <1>3, <1>4, Zenon

\* All but the last element of a sequence.
LEMMA Prefix ==
    ASSUME NEW S, NEW z \in Seq(S), NEW y \in Seq(S), Len(z) = Len(y) + 1,
           \A i \in 1 .. Len(y) : z[i] = y[i]
    PROVE  SubSeq(z, 1, Len(z) - 1) = y
<1> DEFINE u == SubSeq(z, 1, Len(z) - 1)
<1>1. Len(y) \in Nat /\ Len(z) - 1 = Len(y)
  OBVIOUS
<1>2. u \in Seq(S) /\ Len(u) = Len(y) /\ \A i \in 1 .. Len(y) : u[i] = z[i]
  BY <1>1
<1> HIDE DEF u
<1>3. Len(u) = Len(y) /\ \A i \in 1 .. Len(u) : u[i] = y[i]
  BY <1>2, Zenon
<1>4. u = y
  BY <1>2, <1>3, SeqEqual, Zenon
<1> QED
  BY <1>4, Zenon DEF u

\* The scopes are sequences of locals,
LEMMA ScopeSeqs == \A z \in Scopes : z \in Seq(Locals)
<1>1. "agent" \in Locals /\ "dispatcher" \in Locals /\ "iq" \in Locals /\ "slot" \in Locals
  BY Zenon DEF Locals
<1> HIDE DEF Locals
<1>2. /\ Scope0 \in Seq(Locals) /\ Scope1 \in Seq(Locals) /\ Scope2 \in Seq(Locals)
  BY <1>1 DEF Scope0, Scope1, Scope2
<1>3. /\ Scope3 \in Seq(Locals) /\ Scope4 \in Seq(Locals)
  BY <1>1 DEF Scope3, Scope4
<1> QED
  BY <1>2, <1>3, Zenon DEF Scopes

\* element by element.
LEMMA ScopeElements ==
    /\ Len(Scope0) = 0 /\ Len(Scope1) = 1 /\ Len(Scope2) = 2 /\ Len(Scope3) = 3
    /\ Len(Scope4) = 4
    /\ Scope1[1] = "agent" /\ Scope2[1] = "agent" /\ Scope2[2] = "dispatcher"
    /\ Scope3[1] = "agent" /\ Scope3[2] = "dispatcher" /\ Scope3[3] = "iq"
    /\ Scope4[1] = "agent" /\ Scope4[2] = "dispatcher" /\ Scope4[3] = "iq"
    /\ Scope4[4] = "slot"
  BY Zenon DEF Scope0, Scope1, Scope2, Scope3, Scope4

\* The locals come and go at the end of the scope.
LEMMA ScopeMoves ==
    /\ Append(Scope0, "agent") = Scope1
    /\ Scope1 \o <<"dispatcher", "iq", "slot">> = Scope4
    /\ \A z \in Scopes \ {Scope0} :
          /\ z # << >> /\ SubSeq(z, 1, Len(z) - 1) \in Scopes
          /\ z[Len(z)] \in Locals
          /\ z[Len(z)] = "agent" <=> z = Scope1
          /\ SubSeq(z, 1, Len(z) - 1) = Scope0 => z = Scope1
    /\ Scope0 # Scope1 /\ Scope0 # Scope4
<1>1. Append(Scope0, "agent") = Scope1
  BY DEF Scope0, Scope1
<1>2. Scope1 \o <<"dispatcher", "iq", "slot">> = Scope4
  <2> DEFINE t == <<"dispatcher", "iq", "slot">>
             u == Scope1 \o t
  <2>1. Len(t) = 3 /\ t[1] = "dispatcher" /\ t[2] = "iq" /\ t[3] = "slot"
    BY Zenon
  <2>2. t \in Seq(Locals)
    <3>1. "dispatcher" \in Locals /\ "iq" \in Locals /\ "slot" \in Locals
      BY Zenon DEF Locals
    <3> HIDE DEF Locals
    <3> QED
      BY <3>1
  <2>3. Scope1 \in Seq(Locals) /\ Scope4 \in Seq(Locals)
    BY ScopeSeqs, Zenon DEF Scopes
  <2> HIDE DEF t, u
  <2>4. /\ u \in Seq(Locals) /\ Len(u) = Len(Scope1) + Len(t)
        /\ \A i \in 1 .. Len(Scope1) + Len(t) :
               u[i] = IF i <= Len(Scope1) THEN Scope1[i] ELSE t[i - Len(Scope1)]
    BY <2>2, <2>3, ConcatProperties, Zenon DEF u
  <2>5. Len(u) = Len(Scope4) /\ \A i \in 1 .. Len(u) : u[i] = Scope4[i]
    BY <2>1, <2>4, ScopeElements
  <2>6. u = Scope4
    BY <2>3, <2>4, <2>5, SeqEqual, Zenon
  <2> QED
    BY <2>6, Zenon DEF u, t
<1>3. /\ SubSeq(Scope1, 1, Len(Scope1) - 1) = Scope0
      /\ SubSeq(Scope2, 1, Len(Scope2) - 1) = Scope1
      /\ SubSeq(Scope3, 1, Len(Scope3) - 1) = Scope2
      /\ SubSeq(Scope4, 1, Len(Scope4) - 1) = Scope3
  <2>1. /\ Scope0 \in Seq(Locals) /\ Scope1 \in Seq(Locals) /\ Scope2 \in Seq(Locals)
        /\ Scope3 \in Seq(Locals) /\ Scope4 \in Seq(Locals)
    BY ScopeSeqs, Zenon DEF Scopes
  <2>2. /\ Len(Scope1) = Len(Scope0) + 1 /\ Len(Scope2) = Len(Scope1) + 1
        /\ Len(Scope3) = Len(Scope2) + 1 /\ Len(Scope4) = Len(Scope3) + 1
    BY ScopeElements
  <2>3. /\ \A i \in 1 .. Len(Scope0) : Scope1[i] = Scope0[i]
        /\ \A i \in 1 .. Len(Scope1) : Scope2[i] = Scope1[i]
        /\ \A i \in 1 .. Len(Scope2) : Scope3[i] = Scope2[i]
        /\ \A i \in 1 .. Len(Scope3) : Scope4[i] = Scope3[i]
    BY ScopeElements
  <2> QED
    BY <2>1, <2>2, <2>3, Prefix, Zenon
<1>4. \A z \in Scopes \ {Scope0} : z[Len(z)] \in Locals /\ (z[Len(z)] = "agent" <=> z = Scope1)
  BY ScopeElements, Zenon DEF Scopes, Locals
<1>5. /\ Scope0 # Scope1 /\ Scope0 # Scope2 /\ Scope0 # Scope3 /\ Scope0 # Scope4
      /\ Scope0 = << >>
  <2>1. /\ Len(Scope0) # Len(Scope1) /\ Len(Scope0) # Len(Scope2)
        /\ Len(Scope0) # Len(Scope3) /\ Len(Scope0) # Len(Scope4)
    BY ScopeElements
  <2>2. Scope0 = << >>
    BY Zenon DEF Scope0
  <2> QED
    BY <2>1, <2>2, Zenon
<1>6. ASSUME NEW z \in Scopes \ {Scope0}
      PROVE  /\ z # << >> /\ SubSeq(z, 1, Len(z) - 1) \in Scopes
             /\ SubSeq(z, 1, Len(z) - 1) = Scope0 => z = Scope1
  <2>1. z = Scope1 \/ z = Scope2 \/ z = Scope3 \/ z = Scope4
    BY Zenon DEF Scopes
  <2>2. \/ z = Scope1 /\ SubSeq(z, 1, Len(z) - 1) = Scope0
        \/ z = Scope2 /\ SubSeq(z, 1, Len(z) - 1) = Scope1
        \/ z = Scope3 /\ SubSeq(z, 1, Len(z) - 1) = Scope2
        \/ z = Scope4 /\ SubSeq(z, 1, Len(z) - 1) = Scope3
    BY <1>3, <2>1, Zenon
  <2> QED
    BY <1>5, <2>2, Zenon DEF Scopes
<1> QED
  BY <1>1, <1>2, <1>4, <1>5, <1>6, Zenon

\* main() from its arguments to agent.start().
StartsUp ==
    \/ ParseArgs \/ LoadConfig \/ ConstructAgent \/ InstallHandlers \/ InitIo
    \/ RegisterIoThread \/ InitAgent \/ ConstructPipelines \/ RegisterSpectrum
    \/ RegisterLayer1 \/ StartAgent

\* Each of these steps succeeds, or returns with what it has constructed.
LEMMA StartStep == ASSUME IInv, StartsUp PROVE IInv'
<1>1. /\ At("main", "none") /\ UNCHANGED otherVars
      /\ agent_stops_sms' = agent_stops_sms /\ file' = file
  BY Zenon
     DEF StartsUp, ParseArgs, LoadConfig, ConstructAgent, InstallHandlers,
         InitIo, RegisterIoThread, InitAgent, ConstructPipelines,
         RegisterSpectrum, RegisterLayer1, StartAgent, MainAt, given
<1>2. MainInv /\ SmInv /\ ConfigInv
  BY Parts, Zenon
<1>3. CASE ParseArgs
  <2>1. /\ main_pc \notin Active /\ main_pc' \notin Active \ {"poll"}
        /\ main_pc' \in MainSteps
    BY <1>3, Zenon
       DEF ParseArgs, MainAt, Proceeds, Return, Before, Setup, Whole,
           Registering, Active, Serving, Stopping, Ending, MainSteps
  <2>2. MainInv'
    BY <1>2, <1>3, ScopeMoves, Zenon
       DEF ParseArgs, MainAt, Proceeds, Return, MainInv, Scopes, Before, Setup,
           Whole, Registering, Active, Serving, Stopping, Ending, MainSteps
  <2>3. SmInv'
    BY <1>2, <1>3, ScopeMoves, Zenon
       DEF ParseArgs, MainAt, Proceeds, Return, MainInv, SmInv, RFs, Before,
           Setup, Whole, Registering, Active, Serving, Stopping, Ending
  <2>4. ConfigInv'
    BY <1>1, <1>2, <1>3, Zenon
       DEF ParseArgs, MainAt, Proceeds, Return, ConfigInv, Configured
  <2> QED
    BY <1>1, <2>1, <2>2, <2>3, <2>4, CallsKept, Zenon DEF IInv
<1>4. CASE LoadConfig
  <2>1. /\ main_pc \notin Active /\ main_pc' \notin Active \ {"poll"}
        /\ main_pc' \in MainSteps
    BY <1>4, Zenon
       DEF LoadConfig, MainAt, Proceeds, Return, Before, Setup, Whole,
           Registering, Active, Serving, Stopping, Ending, MainSteps
  <2>2. MainInv'
    BY <1>2, <1>4, ScopeMoves, Zenon
       DEF LoadConfig, MainAt, Proceeds, Return, MainInv, Scopes, Before,
           Setup, Whole, Registering, Active, Serving, Stopping, Ending,
           MainSteps
  <2>3. SmInv'
    BY <1>2, <1>4, ScopeMoves, Zenon
       DEF LoadConfig, MainAt, Proceeds, Return, MainInv, SmInv, RFs, Before,
           Setup, Whole, Registering, Active, Serving, Stopping, Ending
  <2>4. ConfigInv'
    BY <1>1, <1>2, <1>4, Zenon
       DEF LoadConfig, MainAt, Proceeds, Return, ConfigInv, Configured
  <2> QED
    BY <1>1, <2>1, <2>2, <2>3, <2>4, CallsKept, Zenon DEF IInv
<1>5. CASE ConstructAgent
  <2>1. /\ main_pc \notin Active /\ main_pc' \notin Active \ {"poll"}
        /\ main_pc' \in MainSteps
    BY <1>5, Zenon
       DEF ConstructAgent, MainAt, Proceeds, Return, Before, Setup, Whole,
           Registering, Active, Serving, Stopping, Ending, MainSteps
  <2>2. MainInv'
    BY <1>2, <1>5, ScopeMoves, Zenon
       DEF ConstructAgent, MainAt, Proceeds, Return, MainInv, Scopes, Before,
           Setup, Whole, Registering, Active, Serving, Stopping, Ending,
           MainSteps
  <2>3. SmInv'
    BY <1>2, <1>5, ScopeMoves, Zenon
       DEF ConstructAgent, MainAt, Proceeds, Return, MainInv, SmInv, RFs,
           Before, Setup, Whole, Registering, Active, Serving, Stopping, Ending
  <2>4. ConfigInv'
    BY <1>1, <1>2, <1>5, Zenon
       DEF ConstructAgent, MainAt, Proceeds, Return, ConfigInv, Configured
  <2> QED
    BY <1>1, <2>1, <2>2, <2>3, <2>4, CallsKept, Zenon DEF IInv
<1>6. CASE InstallHandlers
  <2>1. /\ main_pc \notin Active /\ main_pc' \notin Active \ {"poll"}
        /\ main_pc' \in MainSteps
    BY <1>6, Zenon
       DEF InstallHandlers, MainAt, Proceeds, Return, Before, Setup, Whole,
           Registering, Active, Serving, Stopping, Ending, MainSteps
  <2>2. MainInv'
    BY <1>2, <1>6, ScopeMoves, Zenon
       DEF InstallHandlers, MainAt, Proceeds, Return, MainInv, Scopes, Before,
           Setup, Whole, Registering, Active, Serving, Stopping, Ending,
           MainSteps
  <2>3. SmInv'
    BY <1>2, <1>6, ScopeMoves, Zenon
       DEF InstallHandlers, MainAt, Proceeds, Return, MainInv, SmInv, RFs,
           Before, Setup, Whole, Registering, Active, Serving, Stopping, Ending
  <2>4. ConfigInv'
    BY <1>1, <1>2, <1>6, Zenon
       DEF InstallHandlers, MainAt, Proceeds, Return, ConfigInv, Configured
  <2> QED
    BY <1>1, <2>1, <2>2, <2>3, <2>4, CallsKept, Zenon DEF IInv
<1>7. CASE InitIo
  <2>1. /\ main_pc \notin Active /\ main_pc' \notin Active \ {"poll"}
        /\ main_pc' \in MainSteps
    BY <1>7, Zenon
       DEF InitIo, MainAt, Proceeds, Return, Before, Setup, Whole, Registering,
           Active, Serving, Stopping, Ending, MainSteps
  <2>2. MainInv'
    BY <1>2, <1>7, ScopeMoves, Zenon
       DEF InitIo, MainAt, Proceeds, Return, MainInv, Scopes, Before, Setup,
           Whole, Registering, Active, Serving, Stopping, Ending, MainSteps
  <2>3. SmInv'
    BY <1>2, <1>7, ScopeMoves, Zenon
       DEF InitIo, MainAt, Proceeds, Return, MainInv, SmInv, RFs, Before,
           Setup, Whole, Registering, Active, Serving, Stopping, Ending
  <2>4. ConfigInv'
    BY <1>1, <1>2, <1>7, Zenon
       DEF InitIo, MainAt, Proceeds, Return, ConfigInv, Configured
  <2> QED
    BY <1>1, <2>1, <2>2, <2>3, <2>4, CallsKept, Zenon DEF IInv
<1>8. CASE RegisterIoThread
  <2>1. /\ main_pc \notin Active /\ main_pc' \notin Active \ {"poll"}
        /\ main_pc' \in MainSteps
    BY <1>8, Zenon
       DEF RegisterIoThread, MainAt, Proceeds, Return, Before, Setup, Whole,
           Registering, Active, Serving, Stopping, Ending, MainSteps
  <2>2. MainInv'
    <3>1. /\ main_pc = "io_thread" /\ io /\ scope = Scope1 /\ handlers
          /\ scope' = scope /\ handlers' = handlers /\ agent' = agent
          /\ agent # "started"
      BY <1>2, <1>8, Zenon DEF RegisterIoThread, MainAt, MainInv, Whole, Setup
    <3>2. CASE main_pc' = "agent_init" /\ io' = io
      BY <3>1, <3>2, Zenon
         DEF MainInv, Scopes, Before, Setup, Whole, Registering, Active,
             Serving, Stopping, Ending, MainSteps
    <3>3. CASE main_pc' = "unwind" /\ io' = FALSE
      BY <3>1, <3>3, Zenon
         DEF MainInv, Scopes, Before, Setup, Whole, Registering, Active,
             Serving, Stopping, Ending, MainSteps
    <3> QED
      BY <1>8, <3>2, <3>3, Zenon DEF RegisterIoThread, Proceeds, Return
  <2>3. SmInv'
    BY <1>2, <1>8, ScopeMoves, Zenon
       DEF RegisterIoThread, MainAt, Proceeds, Return, MainInv, SmInv, RFs,
           Before, Setup, Whole, Registering, Active, Serving, Stopping, Ending
  <2>4. ConfigInv'
    BY <1>1, <1>2, <1>8, Zenon
       DEF RegisterIoThread, MainAt, Proceeds, Return, ConfigInv, Configured
  <2> QED
    BY <1>1, <2>1, <2>2, <2>3, <2>4, CallsKept, Zenon DEF IInv
<1>9. CASE InitAgent
  <2>1. /\ main_pc \notin Active /\ main_pc' \notin Active \ {"poll"}
        /\ main_pc' \in MainSteps
    BY <1>9, Zenon
       DEF InitAgent, MainAt, Proceeds, Return, Before, Setup, Whole,
           Registering, Active, Serving, Stopping, Ending, MainSteps
  <2>2. MainInv'
    BY <1>2, <1>9, ScopeMoves, Zenon
       DEF InitAgent, MainAt, Proceeds, Return, MainInv, Scopes, Before, Setup,
           Whole, Registering, Active, Serving, Stopping, Ending, MainSteps
  <2>3. SmInv'
    BY <1>2, <1>9, ScopeMoves, Zenon
       DEF InitAgent, MainAt, Proceeds, Return, MainInv, SmInv, RFs, Before,
           Setup, Whole, Registering, Active, Serving, Stopping, Ending
  <2>4. ConfigInv'
    BY <1>1, <1>2, <1>9, Zenon
       DEF InitAgent, MainAt, Proceeds, Return, ConfigInv, Configured
  <2> QED
    BY <1>1, <2>1, <2>2, <2>3, <2>4, CallsKept, Zenon DEF IInv
<1>10. CASE ConstructPipelines
  <2>1. /\ main_pc \notin Active /\ main_pc' \notin Active \ {"poll"}
        /\ main_pc' \in MainSteps
    BY <1>10, Zenon
       DEF ConstructPipelines, MainAt, Proceeds, Return, Before, Setup, Whole,
           Registering, Active, Serving, Stopping, Ending, MainSteps
  <2>2. MainInv'
    BY <1>2, <1>10, ScopeMoves, Zenon
       DEF ConstructPipelines, MainAt, Proceeds, Return, MainInv, Scopes,
           Before, Setup, Whole, Registering, Active, Serving, Stopping,
           Ending, MainSteps
  <2>3. SmInv'
    BY <1>2, <1>10, ScopeMoves, Zenon
       DEF ConstructPipelines, MainAt, Proceeds, Return, MainInv, SmInv, RFs,
           Before, Setup, Whole, Registering, Active, Serving, Stopping, Ending
  <2>4. ConfigInv'
    BY <1>1, <1>2, <1>10, Zenon
       DEF ConstructPipelines, MainAt, Proceeds, Return, ConfigInv, Configured
  <2> QED
    BY <1>1, <2>1, <2>2, <2>3, <2>4, CallsKept, Zenon DEF IInv
<1>11. CASE RegisterSpectrum
  <2>1. /\ main_pc \notin Active /\ main_pc' \notin Active \ {"poll"}
        /\ main_pc' \in MainSteps
    BY <1>11, Zenon
       DEF RegisterSpectrum, MainAt, Proceeds, Return, Before, Setup, Whole,
           Registering, Active, Serving, Stopping, Ending, MainSteps
  <2>2. MainInv'
    BY <1>2, <1>11, ScopeMoves, Zenon
       DEF RegisterSpectrum, MainAt, Proceeds, Return, MainInv, Scopes, Before,
           Setup, Whole, Registering, Active, Serving, Stopping, Ending,
           MainSteps
  <2>3. SmInv'
    BY <1>2, <1>11, ScopeMoves, Zenon
       DEF RegisterSpectrum, MainAt, Proceeds, Return, MainInv, SmInv, RFs,
           Before, Setup, Whole, Registering, Active, Serving, Stopping, Ending
  <2>4. ConfigInv'
    BY <1>1, <1>2, <1>11, Zenon
       DEF RegisterSpectrum, MainAt, Proceeds, Return, ConfigInv, Configured
  <2> QED
    BY <1>1, <2>1, <2>2, <2>3, <2>4, CallsKept, Zenon DEF IInv
<1>12. CASE RegisterLayer1
  <2>1. /\ main_pc \notin Active /\ main_pc' \notin Active \ {"poll"}
        /\ main_pc' \in MainSteps
    BY <1>12, Zenon
       DEF RegisterLayer1, MainAt, Proceeds, Return, Before, Setup, Whole,
           Registering, Active, Serving, Stopping, Ending, MainSteps
  <2>2. MainInv'
    BY <1>2, <1>12, ScopeMoves, Zenon
       DEF RegisterLayer1, MainAt, Proceeds, Return, MainInv, Scopes, Before,
           Setup, Whole, Registering, Active, Serving, Stopping, Ending,
           MainSteps
  <2>3. SmInv'
    <3>1. sm \subseteq RFs /\ "iq" \in sm /\ scope = Scope4 /\ scope' = scope
      BY <1>2, <1>12, Zenon
         DEF RegisterLayer1, MainAt, MainInv, SmInv, Whole, Registering
    <3>2. sm \cup {"slot"} = RFs
      BY <3>1, Zenon DEF RFs
    <3>3. CASE sm' = sm \cup {"slot"}
      BY <3>1, <3>2, <3>3, ScopeMoves, Zenon DEF SmInv, RFs
    <3>4. CASE sm' = sm /\ region' = region /\ main_pc' = "unwind"
      BY <1>2, <3>1, <3>4, Zenon DEF SmInv, Active, Serving, Stopping
    <3> QED
      BY <1>12, <3>3, <3>4, Zenon DEF RegisterLayer1, Return
  <2>4. ConfigInv'
    BY <1>1, <1>2, <1>12, Zenon
       DEF RegisterLayer1, MainAt, Proceeds, Return, ConfigInv, Configured
  <2> QED
    BY <1>1, <2>1, <2>2, <2>3, <2>4, CallsKept, Zenon DEF IInv
<1>13. CASE StartAgent
  <2>1. /\ main_pc \notin Active /\ main_pc' \notin Active \ {"poll"}
        /\ main_pc' \in MainSteps
    BY <1>13, Zenon
       DEF StartAgent, MainAt, Proceeds, Return, Before, Setup, Whole,
           Registering, Active, Serving, Stopping, Ending, MainSteps
  <2>2. MainInv'
    BY <1>2, <1>13, ScopeMoves, Zenon
       DEF StartAgent, MainAt, Proceeds, Return, MainInv, Scopes, Before,
           Setup, Whole, Registering, Active, Serving, Stopping, Ending,
           MainSteps
  <2>3. SmInv'
    BY <1>2, <1>13, ScopeMoves, Zenon
       DEF StartAgent, MainAt, Proceeds, Return, MainInv, SmInv, RFs, Before,
           Setup, Whole, Registering, Active, Serving, Stopping, Ending
  <2>4. ConfigInv'
    BY <1>1, <1>2, <1>13, Zenon
       DEF StartAgent, MainAt, Proceeds, Return, ConfigInv, Configured
  <2> QED
    BY <1>1, <2>1, <2>2, <2>3, <2>4, CallsKept, Zenon DEF IInv
<1> QED
  BY <1>3, <1>4, <1>5, <1>6, <1>7, <1>8, <1>9, <1>10, <1>11, <1>12, <1>13,
     Zenon
     DEF StartsUp

\* main() leaves the poll loop, has the agent stopped, stops jbpf IO and reports.
LEMMA WindDownStep ==
    ASSUME IInv, LeavePollLoop \/ StopAgent \/ AgentStopped \/ StopIo \/ Report
    PROVE  IInv'
<1>1. /\ At("main", "none") /\ UNCHANGED otherVars /\ scope' = scope
      /\ agent_stops_sms' = agent_stops_sms /\ file' = file /\ config' = config
      /\ handlers' = handlers /\ sm' = sm /\ region' = region
  BY Zenon
     DEF LeavePollLoop, StopAgent, AgentStopped, StopIo, Report, MainAt, given
<1>2. MainInv /\ SmInv /\ ConfigInv
  BY Parts, Zenon
<1>3. /\ main_pc \in Whole /\ main_pc' \in MainSteps
      /\ \/ main_pc' \in Active /\ io' = io
         \/ main_pc' = "report" /\ io' = FALSE
         \/ main_pc' = "unwind" /\ io' = io /\ main_pc = "report"
      /\ agent' = "started" => main_pc' \in {"poll", "agent_stop"}
  BY <1>2, Zenon
     DEF LeavePollLoop, StopAgent, AgentStopped, StopIo, Report, MainAt,
         Proceeds, Return, MainInv, Whole, Registering, Active, Serving,
         Stopping, Ending, MainSteps
<1>4. scope = Scope4 /\ handlers /\ (main_pc # "report" => io) /\ (main_pc = "report" => ~io)
  BY <1>2, <1>3, Zenon DEF MainInv, Whole
<1>5. MainInv'
  <2>1. CASE main_pc' \in Active /\ io' = io
    <3>1. main_pc # "report"
      BY <2>1, Zenon
         DEF LeavePollLoop, StopAgent, AgentStopped, StopIo, Report, MainAt,
             Proceeds, Return, Active, Serving, Stopping
    <3> QED
      BY <1>1, <1>3, <1>4, <2>1, <3>1, Zenon
         DEF MainInv, Before, Setup, Whole, Registering, Active, Serving,
             Stopping, Ending, MainSteps, Scopes
  <2>2. CASE main_pc' = "report" /\ io' = FALSE
    BY <1>1, <1>3, <1>4, <2>2, Zenon
       DEF MainInv, Before, Setup, Whole, Registering, Active, Serving,
           Stopping, Ending, MainSteps, Scopes
  <2>3. CASE main_pc' = "unwind" /\ io' = io /\ main_pc = "report"
    BY <1>1, <1>3, <1>4, <2>3, Zenon
       DEF MainInv, Before, Setup, Whole, Registering, Active, Serving,
           Stopping, Ending, MainSteps, Scopes
  <2> QED
    BY <1>3, <2>1, <2>2, <2>3, Zenon
<1>6. SmInv'
  <2>1. sm = RFs
    BY <1>2, Zenon
       DEF SmInv, LeavePollLoop, StopAgent, AgentStopped, StopIo, Report,
           MainAt, Active, Serving, Stopping
  <2> QED
    BY <1>1, <1>4, <2>1, ScopeMoves, Zenon DEF SmInv, RFs
<1>7. ConfigInv'
  <2>1. Configured
    BY Zenon
       DEF Configured, LeavePollLoop, StopAgent, AgentStopped, StopIo, Report,
           MainAt
  <2> QED
    BY <1>1, <1>2, <2>1, Zenon DEF ConfigInv
<1>8. \/ main_pc \notin Active /\ main_pc' \notin Active \ {"poll"}
      \/ main_pc \in Serving /\ main_pc' \in Serving
      \/ main_pc = "io_stop" /\ main_pc' = "report"
      \/ /\ main_pc = "agent_joins" /\ main_pc' = "stop_slot"
         /\ At("ctl", "none")
         /\ agent_stops_sms => sm_running = {}
  BY Zenon
     DEF LeavePollLoop, StopAgent, AgentStopped, StopIo, Report, MainAt,
         Proceeds, Return, Active, Serving, Stopping
<1> QED
  BY <1>1, <1>3, <1>5, <1>6, <1>7, <1>8, CallsKept, Zenon DEF IInv

\* main enters the stop() of a pipeline while nobody is inside one.
LEMMA MainEnters ==
    ASSUME IInv, call["main"].at = "none", call["ctl"].at = "none", NEW r \in RFs,
           call' = [call EXCEPT !["main"] = [at |-> "stop", rf |-> r]],
           UNCHANGED pipeVars
    PROVE  /\ call' \in [Threads -> [at : CallSteps, rf : RFs]]
           /\ call'["main"].at = "stop" /\ call'["main"].rf = r
           /\ call'["ctl"] = call["ctl"]
           /\ PipeInv' /\ running' = running
<1>1. /\ call \in [Threads -> [at : CallSteps, rf : RFs]]
      /\ "main" \in Threads /\ "ctl" \in Threads /\ "main" # "ctl"
  BY Parts, Zenon DEF CallInv, Threads
<1>2. [at |-> "stop", rf |-> r] \in [at : CallSteps, rf : RFs]
  BY Zenon DEF CallSteps, StopSteps
<1>3. /\ call' \in [Threads -> [at : CallSteps, rf : RFs]]
      /\ call'["main"] = [at |-> "stop", rf |-> r]
      /\ call'["ctl"] = call["ctl"]
  BY <1>1, <1>2, Zenon
<1>4. /\ running' = running /\ worker' = worker /\ registered' = registered
      /\ loaded' = loaded
  BY Zenon DEF pipeVars
<1>5. Current.at = "none" /\ Current'.at = "stop" /\ Current'.rf = r
  BY <1>3 DEF Current
<1>6. PipeInv'
  BY <1>4, <1>5, Parts, Zenon DEF PipeInv
<1> QED
  BY <1>3, <1>4, <1>6

\* slot_iq_pipeline.stop() and iq_pipeline.stop() of main().
LEMMA StopPipelinesStep == ASSUME IInv, StopPipelines PROVE IInv'
<1>1. /\ MainInv /\ SmInv /\ CallInv /\ PhaseInv /\ ConfigInv
  BY Parts, Zenon
<1>2. /\ call["main"].at = "none" /\ main_pc \in {"stop_slot", "stop_iq"}
      /\ exit_code' = exit_code /\ file' = file /\ config' = config
      /\ agent_stops_sms' = agent_stops_sms /\ handlers' = handlers /\ io' = io
      /\ scope' = scope /\ agent' = agent /\ sm' = sm /\ region' = region
      /\ sm_running' = sm_running /\ UNCHANGED pipeVars
  BY Zenon DEF StopPipelines, MainAt, At, Proceeds, given
<1>3. call["ctl"].at = "none"
  BY <1>1, <1>2, Zenon DEF CallInv, Serving
<1>4. PICK r \in RFs :
          /\ call' = [call EXCEPT !["main"] = [at |-> "stop", rf |-> r]]
          /\ \/ main_pc = "stop_slot" /\ main_pc' = "stop_iq" /\ r = "slot"
             \/ main_pc = "stop_iq" /\ main_pc' = "io_stop" /\ r = "iq"
  BY Zenon DEF StopPipelines, MainAt, Proceeds, RFs
<1>5. /\ call' \in [Threads -> [at : CallSteps, rf : RFs]]
      /\ call'["main"].at = "stop" /\ call'["main"].rf = r
      /\ call'["ctl"] = call["ctl"] /\ PipeInv' /\ running' = running
  BY <1>2, <1>3, <1>4, MainEnters, Zenon
<1>6. MainInv'
  BY <1>1, <1>2, <1>4, Zenon
     DEF MainInv, Before, Setup, Whole, Registering, Active, Serving, Stopping,
         Ending, MainSteps
<1>7. SmInv'
  BY <1>1, <1>2, <1>4, Zenon DEF SmInv, Active, Serving, Stopping
<1>8. CallInv'
  BY <1>1, <1>2, <1>3, <1>4, <1>5, Zenon
     DEF CallInv, StopSteps, Serving, Ending
<1>9. PhaseInv'
  BY <1>1, <1>2, <1>4, <1>5, Zenon DEF PhaseInv, Active, Serving, Stopping
<1>10. ConfigInv'
  <2>1. Configured
    BY <1>2, Zenon DEF Configured
  <2> QED
    BY <1>1, <1>2, <2>1, Zenon DEF ConfigInv
<1> QED
  BY <1>5, <1>6, <1>7, <1>8, <1>9, <1>10, Zenon DEF IInv

\* agent.stop() stops a service model that runs.
LEMMA AgentStopsStep == ASSUME IInv, NEW r \in RFs, AgentStopsSm(r) PROVE IInv'
<1>1. CallInv /\ PhaseInv
  BY Parts, Zenon
<1>2. /\ call["main"].at = "none" /\ call["ctl"].at = "none"
      /\ main_pc = "agent_joins" /\ main_pc' = main_pc
      /\ agent_stops_sms' = agent_stops_sms /\ UNCHANGED pipeVars
      /\ UNCHANGED <<mainVars, io, scope, agent, sm, region>>
      /\ call' = [call EXCEPT !["main"] = [at |-> "stop", rf |-> r]]
  BY Zenon DEF AgentStopsSm, MainAt, At, SmStop, mainVars, given
<1>3. /\ call' \in [Threads -> [at : CallSteps, rf : RFs]]
      /\ call'["main"].at = "stop" /\ call'["main"].rf = r
      /\ call'["ctl"] = call["ctl"] /\ PipeInv' /\ running' = running
  BY <1>2, MainEnters, Zenon
<1>4. MainInv' /\ SmInv' /\ ConfigInv'
  BY <1>2, MainKept, Zenon
<1>5. CallInv'
  BY <1>1, <1>2, <1>3, Zenon DEF CallInv, StopSteps, Serving, Ending
<1>6. PhaseInv'
  BY <1>1, <1>2, <1>3, Zenon DEF PhaseInv, Active, Serving, Stopping
<1> QED
  BY <1>3, <1>4, <1>5, <1>6, Zenon DEF IInv

-----------------------------------------------------------------------------
(* The destructors and the signals. *)

\* While main unwinds no pipeline runs, and between two of its steps nobody is
\* inside one.
LEMMA Unwinding ==
    ASSUME IInv, MainAt("unwind")
    PROVE  /\ running = {} /\ call["main"].at = "none" /\ call["ctl"].at = "none"
           /\ main_pc \notin Active /\ main_pc \in MainSteps
           /\ agent_stops_sms => sm_running = {}
  BY Parts, Zenon
     DEF MainAt, At, PhaseInv, CallInv, Active, Serving, Stopping, MainSteps,
         Ending

\* A local at the end of the scope is destroyed.
LEMMA ScopeShrinks ==
    ASSUME IInv, MainAt("unwind"), scope # << >>,
           scope' = SubSeq(scope, 1, Len(scope) - 1),
           Innermost = "agent" => sm = {},
           UNCHANGED <<mainVars, io, agent, sm, region, otherVars>>
    PROVE  IInv'
<1>1. MainInv /\ SmInv /\ ConfigInv
  BY Parts, Zenon
<1>2. /\ main_pc' = "unwind" /\ main_pc = "unwind" /\ exit_code' = exit_code
      /\ file' = file /\ config' = config /\ handlers' = handlers /\ io' = io
      /\ agent' = agent /\ sm' = sm /\ region' = region
      /\ agent_stops_sms' = agent_stops_sms /\ UNCHANGED otherVars
  BY Zenon DEF mainVars, given, MainAt
<1>3. /\ scope \in Scopes \ {Scope0} /\ scope' \in Scopes
      /\ scope' = Scope0 => Innermost = "agent"
  <2>1. scope \in Scopes \ {Scope0}
    BY <1>1, Zenon DEF MainInv, Scope0
  <2> QED
    BY <2>1, ScopeMoves, Zenon DEF Innermost
<1>4. MainInv'
  BY <1>1, <1>2, <1>3 DEF MainInv, Before, Setup, Whole, Registering, Active,
     Serving, Stopping, Ending, MainSteps
<1>5. SmInv'
  BY <1>1, <1>2, <1>3 DEF SmInv, Active, Serving, Stopping
<1>6. ConfigInv'
  BY <1>2, Zenon DEF ConfigInv, Configured
<1>7. CallInv' /\ PipeInv' /\ PhaseInv'
  BY <1>2, Unwinding, CallsKept, Zenon DEF MainAt
<1> QED
  BY <1>4, <1>5, <1>6, <1>7, Zenon DEF IInv

\* The pipelines and the dispatcher: no pipeline runs any more, so that its
\* destructor has nothing to stop.
LEMMA DestroyLocalStep == ASSUME IInv, DestroyPipeline \/ DestroyDispatcher PROVE IInv'
<1>1. CASE DestroyPipeline
  <2>1. /\ MainAt("unwind") /\ scope # << >> /\ Innermost \in RFs
        /\ UNCHANGED <<mainVars, io, agent, sm, region>>
    BY <1>1, Zenon DEF DestroyPipeline
  <2>2. /\ scope' = SubSeq(scope, 1, Len(scope) - 1) /\ UNCHANGED otherVars
    BY <1>1, <2>1, Unwinding, Zenon DEF DestroyPipeline, otherVars
  <2>3. Innermost # "agent"
    BY <2>1, Zenon DEF RFs
  <2> QED
    BY <2>1, <2>2, <2>3, ScopeShrinks, Zenon
<1>2. CASE DestroyDispatcher
  <2>1. /\ MainAt("unwind") /\ scope # << >> /\ Innermost = "dispatcher"
        /\ scope' = SubSeq(scope, 1, Len(scope) - 1)
        /\ UNCHANGED <<mainVars, io, agent, sm, region, otherVars>>
    BY <1>2, Zenon DEF DestroyDispatcher
  <2> QED
    BY <2>1, ScopeShrinks, Zenon
<1> QED
  BY <1>1, <1>2, Zenon

\* The agent: a service model that runs is stopped, one that does not is
\* destroyed, and then the agent itself.
LEMMA DestroyAgentStep == ASSUME IInv, DestroyAgent PROVE IInv'
<1>1. /\ MainInv /\ SmInv /\ CallInv /\ PhaseInv /\ ConfigInv
  BY Parts, Zenon
<1>2. /\ MainAt("unwind") /\ scope # << >> /\ Innermost = "agent"
      /\ main_pc = "unwind" /\ UNCHANGED <<mainVars, io, agent, pipeVars>>
  BY Zenon DEF DestroyAgent, MainAt
<1>3. /\ main_pc' = "unwind" /\ exit_code' = exit_code /\ file' = file
      /\ config' = config /\ handlers' = handlers /\ io' = io /\ agent' = agent
      /\ agent_stops_sms' = agent_stops_sms /\ UNCHANGED pipeVars
  BY <1>2, Zenon DEF mainVars, given
<1>4. /\ call["main"].at = "none" /\ call["ctl"].at = "none" /\ running = {}
      /\ agent_stops_sms => sm_running = {}
  BY <1>2, Unwinding, Zenon
<1>5. scope # Scope0
  BY <1>2, Zenon DEF Scope0
<1>6. CASE \E r \in sm :
              /\ r \in sm_running
              /\ SmStop("main", r) /\ UNCHANGED <<sm, region, scope>>
  <2>1. PICK r \in sm :
              /\ r \in sm_running
              /\ SmStop("main", r) /\ UNCHANGED <<sm, region, scope>>
    BY <1>6, Zenon
  <2>2. r \in RFs /\ ~agent_stops_sms
    BY <1>1, <1>4, <2>1, Zenon DEF SmInv
  <2>3. call' = [call EXCEPT !["main"] = [at |-> "stop", rf |-> r]]
    BY <2>1, Zenon DEF SmStop
  <2>4. /\ call' \in [Threads -> [at : CallSteps, rf : RFs]]
        /\ call'["main"].at = "stop" /\ call'["main"].rf = r
        /\ call'["ctl"] = call["ctl"] /\ PipeInv' /\ running' = running
    BY <1>3, <1>4, <2>2, <2>3, MainEnters, Zenon
  <2>5. MainInv' /\ SmInv' /\ ConfigInv'
    BY <1>2, <2>1, MainKept, Zenon
  <2>6. CallInv'
    BY <1>1, <1>2, <1>3, <1>4, <2>2, <2>4, Zenon
       DEF CallInv, StopSteps, Serving, Ending
  <2>7. PhaseInv'
    BY <1>3, <1>4, <2>4, Zenon DEF PhaseInv
  <2> QED
    BY <2>4, <2>5, <2>6, <2>7, Zenon DEF IInv
<1>7. CASE \E r \in sm :
              /\ sm' = sm \ {r}
              /\ region' = (region /\ r # "slot")
              /\ UNCHANGED <<scope, sm_running, call>>
  <2>1. PICK r \in sm :
              /\ sm' = sm \ {r}
              /\ region' = (region /\ r # "slot")
              /\ UNCHANGED <<scope, sm_running, call>>
    BY <1>7, Zenon
  <2>2. UNCHANGED otherVars /\ scope' = scope
    BY <1>3, <2>1, Zenon DEF otherVars
  <2>3. MainInv'
    BY <1>1, <1>2, <1>3, <2>2 DEF MainInv
  <2>4. SmInv'
    BY <1>1, <1>3, <1>5, <2>1, <2>2, Zenon DEF SmInv, Active, Serving, Stopping
  <2>5. ConfigInv'
    BY <1>3, Zenon DEF ConfigInv, Configured
  <2>6. CallInv' /\ PipeInv' /\ PhaseInv'
    BY <1>2, <1>3, <2>2, Unwinding, CallsKept, Zenon DEF MainAt
  <2> QED
    BY <2>3, <2>4, <2>5, <2>6, Zenon DEF IInv
<1>8. CASE /\ sm = {} /\ scope' = SubSeq(scope, 1, Len(scope) - 1)
           /\ UNCHANGED <<sm, region, sm_running, call>>
  <2>1. UNCHANGED <<mainVars, io, agent, sm, region, otherVars>>
    BY <1>2, <1>8, Zenon DEF otherVars
  <2> QED
    BY <1>2, <1>8, <2>1, ScopeShrinks, Zenon
<1> QED
  BY <1>6, <1>7, <1>8, Zenon DEF DestroyAgent

\* The process ends, by main or by a signal before the handlers are there.
LEMMA EndStep == ASSUME IInv, Exit \/ Signal PROVE IInv'
<1>1. /\ MainInv /\ SmInv /\ CallInv /\ PipeInv /\ PhaseInv /\ ConfigInv
  BY Parts, Zenon
<1>2. /\ exit_code' = exit_code /\ file' = file /\ config' = config
      /\ handlers' = handlers /\ io' = io /\ agent' = agent /\ scope' = scope
      /\ sm' = sm /\ region' = region /\ agent_stops_sms' = agent_stops_sms
      /\ sm_running' = sm_running /\ call' = call /\ running' = running
      /\ worker' = worker /\ registered' = registered /\ loaded' = loaded
      /\ Current' = Current
  BY Zenon DEF Exit, Signal, given, otherVars, pipeVars, Current
<1>3. \/ main_pc' = main_pc
      \/ /\ main_pc' = "exited"
         /\ \/ ~handlers
            \/ main_pc = "unwind" /\ scope = << >>
  BY Zenon DEF Exit, Signal, MainAt
<1>4. CASE main_pc' = main_pc
  <2>1. MainInv' /\ SmInv' /\ ConfigInv'
    BY <1>2, <1>4, MainKept, Zenon DEF mainVars, given
  <2>2. PipeInv' /\ PhaseInv'
    BY <1>1, <1>2, <1>4, Zenon DEF PipeInv, PhaseInv
  <2>3. CallInv'
    BY <1>1, <1>2, <1>4, Zenon DEF CallInv
  <2> QED
    BY <2>1, <2>2, <2>3, Zenon DEF IInv
<1>5. CASE /\ main_pc' = "exited"
           /\ \/ ~handlers
              \/ main_pc = "unwind" /\ scope = << >>
  <2>1. /\ main_pc \in Before \cup {"handlers"} \cup Ending /\ main_pc \notin Active
        /\ handlers => scope = Scope0
    BY <1>1, <1>5, Zenon
       DEF MainInv, MainSteps, Setup, Whole, Before, Ending, Registering,
           Active, Serving, Stopping, Scope0
  <2>2. io => exit_code = 1 /\ main_pc \in Ending
    BY <1>1, <2>1, Zenon DEF MainInv
  <2>3. MainInv'
    BY <1>1, <1>2, <1>5, <2>1, <2>2, Zenon
       DEF MainInv, MainSteps, Setup, Whole, Before, Ending, Registering,
           Active, Serving, Stopping
  <2>4. SmInv'
    BY <1>1, <1>2, <1>5, Zenon DEF SmInv, Active, Serving, Stopping
  <2>5. ConfigInv'
    BY <1>5, Zenon DEF ConfigInv, Configured
  <2>6. PipeInv'
    BY <1>1, <1>2, Zenon DEF PipeInv
  <2>7. PhaseInv'
    BY <1>1, <1>2, <1>5, <2>1, Zenon DEF PhaseInv
  <2>8. CallInv'
    BY <1>1, <1>2, <1>5, <2>1, Zenon DEF CallInv, Serving, Ending, Before
  <2> QED
    BY <2>3, <2>4, <2>5, <2>6, <2>7, <2>8, Zenon DEF IInv
<1> QED
  BY <1>3, <1>4, <1>5, Zenon

-----------------------------------------------------------------------------
(* Inside the pipelines. *)

\* The thread inside a pipeline is the one whose call is in progress.
LEMMA OnlyCaller ==
    ASSUME IInv, NEW t \in Threads, call[t].at # "none"
    PROVE  /\ Current = call[t] /\ call[t] \in [at : CallSteps, rf : RFs]
           /\ \A u \in Threads \ {t} : call[u].at = "none"
           /\ t = "ctl" => main_pc \in Serving
           /\ t = "main" => call[t].at \in StopSteps
<1>1. CallInv
  BY Parts, Zenon
<1>2. t = "main" \/ t = "ctl"
  BY Zenon DEF Threads
<1>3. call[t] \in [at : CallSteps, rf : RFs]
  BY <1>1, Zenon DEF CallInv
<1> QED
  BY <1>1, <1>2, <1>3, Zenon DEF Current, CallInv, Threads

\* It goes on to its next step.
LEMMA GoesOn ==
    ASSUME IInv, NEW t \in Threads, call[t].at # "none", NEW x \in CallSteps \ {"none"},
           Goes(t, x), t = "main" => x \in StopSteps /\ main_pc \notin Ending,
           UNCHANGED <<mainVars, sm_running>>
    PROVE  /\ CallInv' /\ Current'.at = x /\ Current'.rf = Current.rf
           /\ call'["main"].at = "none" <=> call["main"].at = "none"
<1>1. CallInv
  BY Parts, Zenon
<1>2. /\ main_pc' = main_pc /\ agent_stops_sms' = agent_stops_sms
      /\ sm_running' = sm_running
  BY Zenon DEF mainVars, given
<1>3. /\ Current = call[t] /\ call[t] \in [at : CallSteps, rf : RFs]
      /\ \A u \in Threads \ {t} : call[u].at = "none"
      /\ t = "ctl" => main_pc \in Serving
  BY OnlyCaller, Zenon
<1>4. /\ call' \in [Threads -> [at : CallSteps, rf : RFs]]
      /\ call'[t].at = x /\ call'[t].rf = call[t].rf
      /\ \A u \in Threads \ {t} : call'[u] = call[u]
  BY <1>1, <1>3, Zenon DEF CallInv, Goes
<1>5. CASE t = "main"
  <2>1. call'["ctl"] = call["ctl"] /\ call["ctl"].at = "none"
    BY <1>3, <1>4, <1>5, Zenon DEF Threads
  <2>2. Current'.at = x /\ Current'.rf = Current.rf
    BY <1>3, <1>4, <1>5, Zenon DEF Current
  <2>3. CallInv'
    BY <1>1, <1>2, <1>4, <1>5, <2>1, Zenon DEF CallInv, StopSteps
  <2> QED
    BY <1>4, <1>5, <2>2, <2>3, Zenon
<1>6. CASE t = "ctl"
  <2>1. call'["main"] = call["main"] /\ call["main"].at = "none"
    BY <1>3, <1>4, <1>6, Zenon DEF Threads
  <2>2. Current'.at = x /\ Current'.rf = Current.rf
    BY <1>3, <1>4, <1>6, <2>1, Zenon DEF Current
  <2>3. CallInv'
    BY <1>1, <1>2, <1>3, <1>4, <1>6, <2>1, Zenon DEF CallInv, StopSteps
  <2> QED
    BY <2>1, <2>2, <2>3, Zenon
<1> QED
  BY <1>5, <1>6, Zenon DEF Threads

\* It returns; only libe3's thread leaves a service model running.
LEMMA ReturnsFrom ==
    ASSUME IInv, NEW t \in Threads, call[t].at # "none", Returns(t),
           UNCHANGED mainVars, sm_running' = sm_running \/ t = "ctl"
    PROVE  CallInv' /\ Current'.at = "none" /\ call'["main"].at = "none"
<1>1. CallInv
  BY Parts, Zenon
<1>2. main_pc' = main_pc /\ agent_stops_sms' = agent_stops_sms
  BY Zenon DEF mainVars, given
<1>3. /\ \A u \in Threads \ {t} : call[u].at = "none"
      /\ t = "ctl" => main_pc \in Serving
  BY OnlyCaller, Zenon
<1>4. Idle \in [at : CallSteps, rf : RFs] /\ Idle.at = "none"
  BY Zenon DEF Idle, CallSteps, RFs
<1>5. /\ call' \in [Threads -> [at : CallSteps, rf : RFs]]
      /\ call'[t].at = "none"
      /\ \A u \in Threads \ {t} : call'[u] = call[u]
  BY <1>1, <1>4, Zenon DEF CallInv, Returns
<1>6. call'["main"].at = "none" /\ call'["ctl"].at = "none"
  BY <1>3, <1>5, Zenon DEF Threads
<1>7. Current'.at = "none"
  BY <1>6, Zenon DEF Current
<1>8. CallInv'
  BY <1>1, <1>2, <1>3, <1>5, <1>6, Zenon DEF CallInv
<1> QED
  BY <1>6, <1>7, <1>8, Zenon

\* start() of a pipeline, which only libe3's thread calls.
LEMMA PipelineStarts ==
    ASSUME IInv, NEW t \in Threads, UNCHANGED mainVars,
           LoadCodelets(t) \/ Boot(t) \/ Register(t) \/ SmUp(t)
    PROVE  CallInv' /\ PipeInv' /\ PhaseInv'
<1>1. PipeInv /\ PhaseInv
  BY Parts, Zenon
<1>2. call[t].at \in {"load", "boot", "register", "sm_up"} /\ main_pc' = main_pc
  BY Zenon DEF LoadCodelets, Boot, Register, SmUp, At, mainVars
<1>3. call[t].at # "none" /\ call[t].at \notin StopSteps
  BY <1>2, Zenon DEF StopSteps
<1>4. t = "ctl" /\ main_pc \in Serving
  BY <1>3, OnlyCaller, Zenon DEF Threads
<1>5. /\ Current = call[t] /\ Current.rf \in RFs
  BY <1>3, OnlyCaller, Zenon
<1>6. {"boot", "register", "sm_up"} \subseteq CallSteps \ {"none"} /\ t # "main"
  BY <1>4, Zenon DEF CallSteps
<1>7. PhaseInv'
  BY <1>2, <1>4, Zenon DEF PhaseInv, Serving, Active
<1>8. CASE LoadCodelets(t)
  <2>1. /\ running' = running /\ worker' = worker /\ registered' = registered
        /\ sm_running' = sm_running /\ call[t].at = "load"
    BY <1>8, Zenon DEF LoadCodelets, At
  <2>2. CASE Goes(t, "sm_up") /\ loaded' = loaded
    <3>1. CallInv' /\ Current'.at = "sm_up"
      BY <1>3, <1>6, <2>1, <2>2, GoesOn, Zenon
    <3> QED
      BY <1>1, <1>5, <1>7, <2>1, <2>2, <3>1, Zenon DEF PipeInv
  <2>3. CASE Goes(t, "boot") /\ (loaded' = loaded \/ loaded' = loaded \cup {call[t].rf})
    <3>1. CallInv' /\ Current'.at = "boot" /\ Current'.rf = Current.rf
      BY <1>3, <1>6, <2>1, <2>3, GoesOn, Zenon
    <3> QED
      BY <1>1, <1>5, <1>7, <2>1, <2>3, <3>1, Zenon DEF PipeInv
  <2>4. CASE Returns(t) /\ loaded' = loaded
    <3>1. CallInv' /\ Current'.at = "none"
      BY <1>3, <2>1, <2>4, ReturnsFrom, Zenon
    <3> QED
      BY <1>1, <1>5, <1>7, <2>1, <2>4, <3>1, Zenon DEF PipeInv
  <2> QED
    BY <1>8, <2>2, <2>3, <2>4, Zenon DEF LoadCodelets
<1>9. CASE Boot(t)
  <2>1. /\ running' = running \cup {Current.rf} /\ worker' = worker \cup {Current.rf}
        /\ registered' = registered /\ loaded' = loaded
        /\ sm_running' = sm_running /\ Current.at = "boot" /\ Goes(t, "register")
    BY <1>5, <1>9, Zenon DEF Boot, At
  <2>2. CallInv' /\ Current'.at = "register" /\ Current'.rf = Current.rf
    BY <1>3, <1>6, <2>1, GoesOn, Zenon
  <2> QED
    BY <1>1, <1>5, <1>7, <2>1, <2>2, Zenon DEF PipeInv
<1>10. CASE Register(t)
  <2>1. /\ running' = running /\ worker' = worker /\ loaded' = loaded
        /\ registered' = registered \cup {Current.rf}
        /\ sm_running' = sm_running /\ Current.at = "register" /\ Goes(t, "sm_up")
    BY <1>5, <1>10, Zenon DEF Register, At
  <2>2. CallInv' /\ Current'.at = "sm_up" /\ Current'.rf = Current.rf
    BY <1>3, <1>6, <2>1, GoesOn, Zenon
  <2> QED
    BY <1>1, <1>5, <1>7, <2>1, <2>2, Zenon DEF PipeInv
<1>11. CASE SmUp(t)
  <2>1. /\ running' = running /\ worker' = worker /\ loaded' = loaded
        /\ registered' = registered /\ Current.at = "sm_up" /\ Returns(t)
    BY <1>5, <1>11, Zenon DEF SmUp, At, pipeVars
  <2>2. CallInv' /\ Current'.at = "none"
    BY <1>3, <1>4, <2>1, ReturnsFrom, Zenon
  <2> QED
    BY <1>1, <1>5, <1>7, <2>1, <2>2, Zenon DEF PipeInv
<1> QED
  BY <1>8, <1>9, <1>10, <1>11, Zenon

\* stop() of a pipeline, by libe3's thread or by main.
LEMMA PipelineStops ==
    ASSUME IInv, NEW t \in Threads, UNCHANGED mainVars,
           StopPipeline(t) \/ SignalWorker(t) \/ Join(t) \/ Unload(t)
    PROVE  CallInv' /\ PipeInv' /\ PhaseInv'
<1>1. CallInv /\ PipeInv /\ PhaseInv
  BY Parts, Zenon
<1>2. /\ call[t].at \in StopSteps /\ call[t].at # "none" /\ main_pc' = main_pc
      /\ sm_running' = sm_running
  BY Zenon
     DEF StopPipeline, SignalWorker, Join, Unload, At, mainVars, StopSteps
<1>3. Current = call[t] /\ Current.rf \in RFs /\ (t = "ctl" => main_pc \in Serving)
  BY <1>2, OnlyCaller, Zenon
<1>4. {"signal", "join", "unload"} \subseteq (CallSteps \ {"none"}) \cap StopSteps
  BY Zenon DEF CallSteps, StopSteps
<1>5. t = "main" /\ main_pc = "stop_iq" => Current.rf = "slot"
  BY <1>1, <1>2, <1>3, Zenon DEF CallInv
<1>6. t = "main" /\ main_pc = "io_stop" => Current.rf = "iq"
  BY <1>1, <1>2, <1>3, Zenon DEF CallInv
<1>7. main_pc \in Ending => running = {} /\ (t = "main" => Current.at = "stop")
  BY <1>1, <1>2, <1>3, Zenon
     DEF CallInv, PhaseInv, Ending, Active, Serving, Stopping
<1>8. t = "main" \/ t = "ctl"
  BY Zenon DEF Threads
<1>9. ASSUME call'["main"].at = "none" <=> call["main"].at = "none",
             running' \subseteq running
      PROVE  PhaseInv'
  BY <1>1, <1>2, <1>9, Zenon DEF PhaseInv
<1>10. ASSUME call'["main"].at = "none", running' = running, Current.rf \notin running
       PROVE  PhaseInv'
  <2>1. CASE t = "ctl"
    BY <1>2, <1>3, <2>1, Zenon DEF PhaseInv, Serving, Active
  <2>2. CASE t = "main"
    BY <1>1, <1>2, <1>5, <1>6, <1>10, <2>2, Zenon DEF PhaseInv
  <2> QED
    BY <1>8, <2>1, <2>2, Zenon
<1>11. CASE StopPipeline(t)
  <2>1. /\ running' = running /\ worker' = worker /\ loaded' = loaded
        /\ Current.at = "stop"
    BY <1>3, <1>11, Zenon DEF StopPipeline, At
  <2>2. CASE /\ Current.rf \in running
             /\ registered' = registered \ {Current.rf} /\ Goes(t, "signal")
    <3>1. main_pc \notin Ending
      BY <1>7, <2>2, Zenon
    <3>2. /\ CallInv' /\ Current'.at = "signal" /\ Current'.rf = Current.rf
          /\ call'["main"].at = "none" <=> call["main"].at = "none"
      BY <1>2, <1>4, <2>2, <3>1, GoesOn, Zenon
    <3> QED
      BY <1>1, <1>3, <1>9, <2>1, <2>2, <3>2, Zenon DEF PipeInv
  <2>3. CASE Current.rf \notin running /\ Returns(t) /\ registered' = registered
    <3>1. CallInv' /\ Current'.at = "none" /\ call'["main"].at = "none"
      BY <1>2, <2>3, ReturnsFrom, Zenon
    <3> QED
      BY <1>1, <1>3, <1>10, <2>1, <2>3, <3>1, Zenon DEF PipeInv
  <2> QED
    BY <1>3, <1>11, <2>2, <2>3, Zenon DEF StopPipeline
<1>12. CASE SignalWorker(t)
  <2>1. /\ running' = running \ {Current.rf} /\ worker' = worker /\ loaded' = loaded
        /\ registered' = registered /\ Current.at = "signal" /\ Goes(t, "join")
    BY <1>3, <1>12, Zenon DEF SignalWorker, At
  <2>2. t = "main" => main_pc \notin Ending
    BY <1>7, <2>1, Zenon
  <2>3. /\ CallInv' /\ Current'.at = "join" /\ Current'.rf = Current.rf
        /\ call'["main"].at = "none" <=> call["main"].at = "none"
    BY <1>2, <1>4, <2>1, <2>2, GoesOn, Zenon
  <2> QED
    BY <1>1, <1>3, <1>9, <2>1, <2>3, Zenon DEF PipeInv
<1>13. CASE Join(t)
  <2>1. /\ running' = running /\ worker' = worker /\ loaded' = loaded
        /\ registered' = registered /\ Current.at = "join" /\ Goes(t, "unload")
        /\ Current.rf \notin worker
    BY <1>3, <1>13, Zenon DEF Join, At, pipeVars
  <2>2. t = "main" => main_pc \notin Ending
    BY <1>7, <2>1, Zenon
  <2>3. /\ CallInv' /\ Current'.at = "unload" /\ Current'.rf = Current.rf
        /\ call'["main"].at = "none" <=> call["main"].at = "none"
    BY <1>2, <1>4, <2>1, <2>2, GoesOn, Zenon
  <2> QED
    BY <1>1, <1>3, <1>9, <2>1, <2>3, Zenon DEF PipeInv
<1>14. CASE Unload(t)
  <2>1. /\ running' = running /\ worker' = worker /\ loaded' = loaded \ {Current.rf}
        /\ registered' = registered /\ Current.at = "unload" /\ Returns(t)
    BY <1>3, <1>14, Zenon DEF Unload, At
  <2>2. CallInv' /\ Current'.at = "none" /\ call'["main"].at = "none"
    BY <1>2, <2>1, ReturnsFrom, Zenon
  <2>3. Current.rf \notin running
    BY <1>1, <2>1, Zenon DEF PipeInv
  <2> QED
    BY <1>1, <1>3, <1>10, <2>1, <2>2, <2>3, Zenon DEF PipeInv
<1> QED
  BY <1>11, <1>12, <1>13, <1>14, Zenon

\* A step of start() or stop().
LEMMA InsideStep == ASSUME IInv, NEW t \in Threads, PipelineStep(t) PROVE IInv'
<1>1. /\ UNCHANGED mainVars /\ UNCHANGED <<mainVars, io, scope, agent, sm, region>>
      /\ \/ LoadCodelets(t) \/ Boot(t) \/ Register(t) \/ SmUp(t)
         \/ StopPipeline(t) \/ SignalWorker(t) \/ Join(t) \/ Unload(t)
  BY Zenon DEF PipelineStep
<1>2. MainInv' /\ SmInv' /\ ConfigInv'
  BY <1>1, MainKept, Zenon
<1>3. CallInv' /\ PipeInv' /\ PhaseInv'
  BY <1>1, PipelineStarts, PipelineStops, Zenon
<1> QED
  BY <1>2, <1>3, Zenon DEF IInv

\* libe3's thread starts or stops a service model while the agent is started.
LEMMA LibE3Enters == ASSUME IInv, NEW r \in RFs, SmStarts(r) \/ SmStops(r) PROVE IInv'
<1>1. MainInv /\ CallInv /\ PipeInv /\ PhaseInv
  BY Parts, Zenon
<1>2. /\ UNCHANGED <<mainVars, io, scope, agent, sm, region>>
      /\ main_pc' = main_pc /\ agent_stops_sms' = agent_stops_sms
      /\ running' = running /\ worker' = worker /\ registered' = registered
      /\ loaded' = loaded /\ agent = "started" /\ call["ctl"].at = "none"
  BY Zenon DEF SmStarts, SmStops, At, mainVars, given, pipeVars
<1>3. main_pc \in {"poll", "agent_stop"}
  BY <1>1, <1>2, Zenon DEF MainInv
<1>4. PICK x \in {"load", "stop"} :
          call' = [call EXCEPT !["ctl"] = [at |-> x, rf |-> r]]
  BY Zenon DEF SmStarts, SmStops, SmStop
<1>5. call["main"].at = "none" /\ main_pc \in Serving
  BY <1>1, <1>3, Zenon DEF CallInv, Ending, Serving
<1>6. "main" \in Threads /\ "ctl" \in Threads /\ "main" # "ctl"
  BY Zenon DEF Threads
<1>7. [at |-> x, rf |-> r] \in [at : CallSteps, rf : RFs]
  BY Zenon DEF CallSteps, StopSteps
<1>8. /\ call' \in [Threads -> [at : CallSteps, rf : RFs]]
      /\ call'["ctl"] = [at |-> x, rf |-> r] /\ call'["main"] = call["main"]
  BY <1>1, <1>4, <1>6, <1>7, Zenon DEF CallInv
<1>9. Current.at = "none" /\ Current'.at = x /\ Current'.rf = r
  BY <1>2, <1>5, <1>8 DEF Current
<1>10. CallInv'
  BY <1>2, <1>3, <1>5, <1>8, Zenon DEF CallInv, Serving, Ending
<1>11. PipeInv'
  BY <1>1, <1>2, <1>9, Zenon DEF PipeInv
<1>12. PhaseInv'
  BY <1>2, <1>3, Zenon DEF PhaseInv, Active, Serving
<1>13. MainInv' /\ SmInv' /\ ConfigInv'
  BY <1>2, MainKept, Zenon
<1> QED
  BY <1>10, <1>11, <1>12, <1>13, Zenon DEF IInv

\* A worker ends.
LEMMA WorkerStep == ASSUME IInv, NEW r \in RFs, WorkerExits(r) PROVE IInv'
<1>1. CallInv /\ PipeInv /\ PhaseInv
  BY Parts, Zenon
<1>2. /\ UNCHANGED <<mainVars, io, scope, agent, sm, region>>
      /\ main_pc' = main_pc /\ agent_stops_sms' = agent_stops_sms
      /\ running' = running /\ worker' = worker \ {r} /\ registered' = registered
      /\ loaded' = loaded /\ call' = call /\ sm_running' = sm_running
      /\ Current' = Current
  BY Zenon DEF WorkerExits, mainVars, given, Current
<1>3. PipeInv'
  BY <1>1, <1>2, Zenon DEF PipeInv
<1>4. PhaseInv'
  BY <1>1, <1>2, Zenon DEF PhaseInv
<1>5. CallInv'
  BY <1>1, <1>2, Zenon DEF CallInv
<1>6. MainInv' /\ SmInv' /\ ConfigInv'
  BY <1>2, MainKept, Zenon
<1> QED
  BY <1>3, <1>4, <1>5, <1>6, Zenon DEF IInv

\* A step that changes nothing.
LEMMA StutterStep == ASSUME IInv, UNCHANGED vars PROVE IInv'
<1>1. CallInv /\ PipeInv /\ PhaseInv
  BY Parts, Zenon
<1>2. /\ UNCHANGED <<mainVars, io, scope, agent, sm, region>>
      /\ main_pc' = main_pc /\ agent_stops_sms' = agent_stops_sms
      /\ running' = running /\ worker' = worker /\ registered' = registered
      /\ loaded' = loaded /\ call' = call /\ sm_running' = sm_running
      /\ Current' = Current
  BY Zenon DEF vars, mainVars, given, pipeVars, Current
<1>3. PipeInv' /\ PhaseInv'
  BY <1>1, <1>2, Zenon DEF PipeInv, PhaseInv
<1>4. CallInv'
  BY <1>1, <1>2, Zenon DEF CallInv
<1>5. MainInv' /\ SmInv' /\ ConfigInv'
  BY <1>2, MainKept, Zenon
<1> QED
  BY <1>3, <1>4, <1>5, Zenon DEF IInv

\* Every step of main, of libe3's thread, of a worker and every signal keeps
\* the invariant.
THEOREM ControllerInductive == Spec => []IInv
<1>1. IInv /\ [Next]_vars => IInv'
  <2> SUFFICES ASSUME IInv, [Next]_vars PROVE IInv'
    BY Zenon
  <2>1. "main" \in Threads /\ "ctl" \in Threads
    BY Zenon DEF Threads
  <2>2. CASE Main
    BY <2>1, <2>2, StartStep, WindDownStep, StopPipelinesStep, AgentStopsStep,
       DestroyLocalStep, DestroyAgentStep, EndStep, InsideStep, Zenon
       DEF Main, StartsUp
  <2>3. CASE LibE3
    BY <2>1, <2>3, InsideStep, LibE3Enters, Zenon DEF LibE3
  <2>4. CASE Signal
    BY <2>4, EndStep, Zenon
  <2>5. CASE \E rf \in RFs : WorkerExits(rf)
    BY <2>5, WorkerStep, Zenon
  <2>6. CASE UNCHANGED vars
    BY <2>6, StutterStep, Zenon
  <2> QED
    BY <2>2, <2>3, <2>4, <2>5, <2>6, Zenon DEF Next
<1> QED
  BY <1>1, InitIInv, PTL DEF Spec

-----------------------------------------------------------------------------
(* What follows. *)

\* While main runs with a configuration, every word of an accepted file is in
\* force and every other setting is its default, whatever the file: load_config()
\* ignores nothing.
THEOREM TheFileIsInForce == Spec => []NothingIgnored
<1>1. IInv => NothingIgnored
  BY AcceptedFile, Zenon DEF IInv
<1> QED
  BY <1>1, ControllerInductive, PTL

\* A worker, a registered stream and a thread inside a pipeline find the
\* pipeline, the dispatcher, the agent and jbpf IO alive.
THEOREM NoUseAfterTeardown == Spec => []UsesLiveObjects
<1> QED
  BY LiveObjects, ControllerInductive, PTL

\* When main() stops the pipelines it is alone with them, and the drop counters
\* it reports are final.
THEOREM MainTearsDownAlone == Spec => []TearsDownAlone
<1> QED
  BY TearsDown, ControllerInductive, PTL

\* A load puts codelets into the gNB and into codelets_loaded_; an unload takes
\* them out of both, or out of codelets_loaded_ alone when its request fails.
THEOREM CodeletsAccounted == Spec => []GnbInv
<1>1. Init => GnbInv
  BY Zenon DEF Init, GnbInv
<1>2. ASSUME GnbInv, [Next]_vars PROVE GnbInv'
  <2>1. ASSUME NEW t, LoadCodelets(t) PROVE GnbInv'
    BY <1>2, <2>1 DEF LoadCodelets, GnbInv, gnbVars
  <2>2. ASSUME NEW t, Unload(t) PROVE GnbInv'
    BY <1>2, <2>2 DEF Unload, GnbInv, gnbVars
  <2>3. ASSUME UNCHANGED <<loaded, gnbVars>> PROVE GnbInv'
    BY <1>2, <2>3, Zenon DEF GnbInv, gnbVars
  <2>4. ASSUME NEW t, PipelineStep(t) PROVE GnbInv'
    BY <2>1, <2>2, <2>3, <2>4, Zenon
       DEF PipelineStep, Boot, Register, SmUp, StopPipeline, SignalWorker, Join,
           pipeVars
  <2>5. CASE StartsUp \/ LeavePollLoop \/ StopAgent \/ AgentStopped \/ StopIo
                 \/ Report \/ DestroyDispatcher \/ Exit \/ Signal
    BY <2>3, <2>5, Zenon
       DEF StartsUp, ParseArgs, LoadConfig, ConstructAgent, InstallHandlers, InitIo,
           RegisterIoThread, InitAgent, ConstructPipelines, RegisterSpectrum,
           RegisterLayer1, StartAgent, LeavePollLoop, StopAgent, AgentStopped,
           StopIo, Report, DestroyDispatcher, Exit, Signal, otherVars, pipeVars
  <2>6. CASE StopPipelines \/ DestroyPipeline \/ DestroyAgent
                 \/ \E rf \in RFs : \/ AgentStopsSm(rf) \/ SmStarts(rf) \/ SmStops(rf)
                                     \/ WorkerExits(rf)
    BY <2>3, <2>6, Zenon
       DEF StopPipelines, DestroyPipeline, DestroyAgent, AgentStopsSm, SmStarts,
           SmStops, WorkerExits, pipeVars
  <2>7. CASE UNCHANGED vars
    BY <2>3, <2>7, Zenon DEF vars, pipeVars
  <2> QED
    BY <1>2, <2>4, <2>5, <2>6, <2>7, Zenon DEF Next, Main, LibE3, StartsUp
<1> QED
  BY <1>1, <1>2, PTL DEF Spec

\* A process that handles signals leaves no worker, no service model and no
\* region behind, a codelet only when the gNB has failed its unload, and jbpf IO
\* only when it reports failure.
THEOREM NothingIsLeft == Spec => []ExitLeavesNothing
<1> QED
  BY LeavesNothing, ControllerInductive, CodeletsAccounted, PTL

-----------------------------------------------------------------------------
(* The pipelines as main and libe3 see them. *)

\* The call of start() or stop() that somebody is in, for one pipeline.
Inside(rf) ==
    IF Current.rf = rf /\ Current.at \in {"load", "boot", "register"} THEN "start"
    ELSE IF Current.rf = rf /\ Current.at \in StopSteps THEN "stop"
    ELSE "none"

Session(rf) == INSTANCE PipelineSession WITH
    inside     <- Inside(rf),
    codelets   <- rf \in loaded,
    running    <- rf \in running,
    worker     <- rf \in worker,
    registered <- rf \in registered

sessionVars(rf) ==
    <<Inside(rf), rf \in loaded, rf \in running, rf \in worker, rf \in registered>>

\* How far a session has come.
StepsInv(rf) ==
    /\ rf \in running => rf \in worker
    /\ rf \in running =>
          rf \in registered \/ (Current.rf = rf /\ Current.at \in {"register", "signal"})
    /\ Current.rf = rf /\ Current.at = "boot" => rf \notin running
    /\ Current.rf = rf /\ Current.at = "unload" => rf \notin worker

SessionStep(rf) == [Session(rf)!Next]_(sessionVars(rf)) /\ StepsInv(rf)'

\* A step that leaves the pipelines and the calls alone.
LEMMA SessionRests ==
    ASSUME NEW rf \in RFs, StepsInv(rf), UNCHANGED pipeVars, call' = call
    PROVE  SessionStep(rf)
<1>1. /\ Current' = Current /\ running' = running /\ worker' = worker
      /\ registered' = registered /\ loaded' = loaded
  BY Zenon DEF Current, pipeVars
<1> QED
  BY <1>1, Zenon DEF SessionStep, StepsInv, sessionVars, Inside

\* A call that begins while nobody is inside a pipeline.
LEMMA SessionBegins ==
    ASSUME IInv, NEW rf \in RFs, StepsInv(rf), UNCHANGED pipeVars,
           Current.at = "none", Current'.at \in {"load", "stop"}
    PROVE  SessionStep(rf)
<1>1. /\ running' = running /\ worker' = worker
      /\ registered' = registered /\ loaded' = loaded
  BY Zenon DEF pipeVars
<1>2. StepsInv(rf)'
  BY <1>1, Zenon DEF StepsInv
<1>3. Inside(rf) = "none"
  BY Zenon DEF Inside, StopSteps
<1>4. CASE Current'.rf = rf /\ Current'.at = "load"
  <2>1. Inside(rf)' = "start"
    BY <1>4, Zenon DEF Inside
  <2>2. Session(rf)!StartCalled
    BY <1>1, <1>3, <2>1, Zenon DEF Session!StartCalled
  <2> QED
    BY <1>2, <2>2, Zenon DEF SessionStep, Session!Next
<1>5. CASE Current'.rf = rf /\ Current'.at = "stop"
  <2>1. Inside(rf)' = "stop"
    BY <1>5, Zenon DEF Inside, StopSteps
  <2>2. Session(rf)!StopCalled
    BY <1>1, <1>3, <2>1, Zenon DEF Session!StopCalled
  <2> QED
    BY <1>2, <2>2, Zenon DEF SessionStep, Session!Next
<1>6. CASE Current'.rf # rf
  <2>1. Inside(rf)' = "none"
    BY <1>6, Zenon DEF Inside
  <2> QED
    BY <1>1, <1>2, <1>3, <2>1, Zenon DEF SessionStep, sessionVars
<1> QED
  BY <1>4, <1>5, <1>6, Zenon

\* Where the call in progress goes.
LEMMA CallMoves ==
    ASSUME IInv, NEW t \in Threads, call[t].at # "none"
    PROVE  /\ \A x : x # "none" /\ Goes(t, x) => Current'.at = x /\ Current'.rf = Current.rf
           /\ Returns(t) => Current'.at = "none"
<1>1. /\ "main" \in Threads /\ "ctl" \in Threads /\ "main" # "ctl"
      /\ t = "main" \/ t = "ctl"
  BY Zenon DEF Threads
<1>2. /\ Current = call[t] /\ call[t] \in [at : CallSteps, rf : RFs]
      /\ \A u \in Threads \ {t} : call[u].at = "none"
      /\ call \in [Threads -> [at : CallSteps, rf : RFs]]
  BY OnlyCaller, Parts, Zenon DEF CallInv
<1>3. ASSUME NEW x, x # "none", Goes(t, x)
      PROVE  Current'.at = x /\ Current'.rf = Current.rf
  <2>1. /\ call'[t].at = x /\ call'[t].rf = call[t].rf
        /\ \A u \in Threads \ {t} : call'[u] = call[u]
    BY <1>2, <1>3, Zenon DEF Goes
  <2>2. Current' = call'[t]
    BY <1>1, <1>2, <1>3, <2>1, Zenon DEF Current
  <2> QED
    BY <1>2, <2>1, <2>2, Zenon
<1>4. ASSUME Returns(t) PROVE Current'.at = "none"
  <2>1. /\ call'[t].at = "none"
        /\ \A u \in Threads \ {t} : call'[u] = call[u]
    BY <1>2, <1>4, Zenon DEF Returns, Idle
  <2> QED
    BY <1>1, <1>2, <2>1, Zenon DEF Current
<1> QED
  BY <1>3, <1>4, Zenon

\* A step of the call in progress, for its own pipeline.
LEMMA SessionMoves ==
    ASSUME IInv, NEW t \in Threads, PipelineStep(t), call[t].at # "none",
           NEW rf \in RFs, call[t].rf = rf, StepsInv(rf)
    PROVE  SessionStep(rf)
<1>1. Current = call[t] /\ Current.rf = rf /\ PipeInv
  BY OnlyCaller, Parts, Zenon
<1>2. /\ \A x : x # "none" /\ Goes(t, x) => Current'.at = x /\ Current'.rf = rf
      /\ Returns(t) => Current'.at = "none"
  BY <1>1, CallMoves, Zenon
<1>3. StepsInv(rf)
  OBVIOUS
<1>a. /\ Current.at \in {"load", "boot", "register"} => Inside(rf) = "start"
      /\ Current.at \in {"stop", "signal", "join", "unload"} => Inside(rf) = "stop"
      /\ Current.at \in {"none", "sm_up"} => Inside(rf) = "none"
  BY <1>1, Zenon DEF Inside, StopSteps
<1>b. /\ Current'.rf = rf /\ Current'.at \in {"boot", "register"} =>
            Inside(rf)' = "start"
      /\ Current'.rf = rf /\ Current'.at \in {"signal", "join", "unload"} =>
            Inside(rf)' = "stop"
      /\ Current'.at \in {"none", "sm_up"} => Inside(rf)' = "none"
  BY Zenon DEF Inside, StopSteps
<1> USE DEF At
<1>4. ASSUME LoadCodelets(t) PROVE SessionStep(rf)
  <2>1. /\ running' = running /\ worker' = worker /\ registered' = registered
        /\ Current.at = "load" /\ Inside(rf) = "start"
    BY <1>1, <1>a, <1>4, Zenon DEF LoadCodelets
  <2>2. CASE rf \in running
    <3>1. loaded' = loaded /\ Current'.at = "sm_up" /\ Current'.rf = rf
      BY <1>2, <1>4, <2>2, Zenon DEF LoadCodelets
    <3>2. rf \in worker /\ rf \in registered /\ Inside(rf)' = "none"
      BY <1>1, <1>3, <1>b, <2>1, <2>2, <3>1, Zenon DEF StepsInv
    <3>3. Session(rf)!StartReturns
      BY <2>1, <2>2, <3>1, <3>2, Zenon DEF Session!StartReturns, Session!Up
    <3> QED
      BY <2>1, <3>1, <3>2, <3>3, Zenon DEF SessionStep, StepsInv, Session!Next
  <2>3. CASE rf \notin running
    <3>1. rf \notin worker /\ rf \notin registered
      BY <1>1, <2>1, <2>3, Zenon DEF PipeInv
    <3>2. CASE loaded' = loaded /\ Goes(t, "boot")
      <4>1. Current'.at = "boot" /\ Current'.rf = rf /\ Inside(rf)' = "start"
        BY <1>2, <1>b, <3>2, Zenon
      <4> QED
        BY <2>1, <2>3, <3>1, <3>2, <4>1, Zenon DEF SessionStep, StepsInv, sessionVars
    <3>3. CASE loaded' = loaded \cup {rf} /\ Goes(t, "boot")
      <4>1. Current'.at = "boot" /\ Current'.rf = rf /\ Inside(rf)' = "start"
        BY <1>2, <1>b, <3>3, Zenon
      <4>2. Session(rf)!Load
        BY <2>1, <2>3, <3>1, <3>3, <4>1, Zenon DEF Session!Load, Session!Down
      <4> QED
        BY <2>1, <2>3, <3>1, <4>1, <4>2, Zenon DEF SessionStep, StepsInv, Session!Next
    <3>4. CASE loaded' = loaded /\ Returns(t)
      <4>1. Current'.at = "none" /\ Inside(rf)' = "none"
        BY <1>2, <1>b, <3>4, Zenon
      <4>2. Session(rf)!StartReturns
        BY <2>1, <2>3, <3>1, <3>4, <4>1, Zenon
           DEF Session!StartReturns, Session!Down
      <4> QED
        BY <2>1, <2>3, <3>1, <4>1, <4>2, Zenon DEF SessionStep, StepsInv, Session!Next
    <3> QED
      BY <1>4, <2>3, <3>2, <3>3, <3>4, Zenon DEF LoadCodelets
  <2> QED
    BY <2>2, <2>3, Zenon
<1>5. ASSUME Boot(t) PROVE SessionStep(rf)
  <2>1. /\ running' = running \cup {rf} /\ worker' = worker \cup {rf}
        /\ registered' = registered /\ loaded' = loaded /\ Current.at = "boot"
        /\ Current'.at = "register" /\ Current'.rf = rf
    BY <1>1, <1>2, <1>5, Zenon DEF Boot
  <2>2. rf \notin running /\ rf \notin worker /\ rf \notin registered
    BY <1>1, <1>3, <2>1, Zenon DEF PipeInv, StepsInv
  <2>3. Inside(rf) = "start" /\ Inside(rf)' = "start"
    BY <1>a, <1>b, <2>1, Zenon
  <2>4. Session(rf)!Boot
    BY <2>1, <2>2, <2>3, Zenon DEF Session!Boot, Session!Down
  <2> QED
    BY <2>1, <2>4, Zenon DEF SessionStep, StepsInv, Session!Next
<1>6. ASSUME Register(t) PROVE SessionStep(rf)
  <2>1. /\ running' = running /\ worker' = worker /\ loaded' = loaded
        /\ registered' = registered \cup {rf} /\ Current.at = "register"
        /\ Current'.at = "sm_up" /\ Current'.rf = rf
    BY <1>1, <1>2, <1>6, Zenon DEF Register
  <2>2. rf \in running /\ rf \in worker
    BY <1>1, <1>3, <2>1, Zenon DEF PipeInv, StepsInv
  <2>3. Inside(rf) = "start" /\ Inside(rf)' = "none"
    BY <1>a, <1>b, <2>1, Zenon
  <2>4. CASE rf \notin registered
    <3>1. Session(rf)!Register
      BY <2>1, <2>2, <2>3, <2>4, Zenon DEF Session!Register
    <3> QED
      BY <2>1, <2>2, <3>1, Zenon DEF SessionStep, StepsInv, Session!Next
  <2>5. CASE rf \in registered
    <3>1. Session(rf)!StartReturns
      BY <2>1, <2>2, <2>3, <2>5, Zenon DEF Session!StartReturns, Session!Up
    <3> QED
      BY <2>1, <2>2, <3>1, Zenon DEF SessionStep, StepsInv, Session!Next
  <2> QED
    BY <2>4, <2>5, Zenon
<1>7. ASSUME SmUp(t) PROVE SessionStep(rf)
  <2>1. /\ running' = running /\ worker' = worker /\ loaded' = loaded
        /\ registered' = registered /\ Current.at = "sm_up" /\ Current'.at = "none"
    BY <1>1, <1>2, <1>7, Zenon DEF SmUp, pipeVars
  <2>2. Inside(rf) = "none" /\ Inside(rf)' = "none"
    BY <1>a, <1>b, <2>1, Zenon
  <2> QED
    BY <1>1, <1>3, <2>1, <2>2, Zenon DEF SessionStep, StepsInv, sessionVars
<1>8. ASSUME StopPipeline(t) PROVE SessionStep(rf)
  <2>1. /\ running' = running /\ worker' = worker /\ loaded' = loaded
        /\ Current.at = "stop" /\ Inside(rf) = "stop"
    BY <1>1, <1>a, <1>8, Zenon DEF StopPipeline
  <2>2. CASE rf \in running
    <3>1. /\ registered' = registered \ {rf} /\ Current'.at = "signal"
          /\ Current'.rf = rf
      BY <1>2, <1>8, <2>2, Zenon DEF StopPipeline
    <3>2. rf \in worker /\ rf \in registered /\ Inside(rf)' = "stop"
      BY <1>1, <1>3, <1>b, <2>1, <2>2, <3>1, Zenon DEF StepsInv
    <3>3. Session(rf)!Unregister
      BY <2>1, <2>2, <3>1, <3>2, Zenon DEF Session!Unregister, Session!Up
    <3> QED
      BY <2>1, <3>1, <3>2, <3>3, Zenon DEF SessionStep, StepsInv, Session!Next
  <2>3. CASE rf \notin running
    <3>1. registered' = registered /\ Current'.at = "none" /\ Inside(rf)' = "none"
      BY <1>2, <1>b, <1>8, <2>3, Zenon DEF StopPipeline
    <3>2. rf \notin worker /\ rf \notin registered
      BY <1>1, <2>1, <2>3, Zenon DEF PipeInv
    <3>3. Session(rf)!StopReturns
      BY <2>1, <2>3, <3>1, <3>2, Zenon DEF Session!StopReturns, Session!Down
    <3> QED
      BY <2>1, <2>3, <3>1, <3>3, Zenon DEF SessionStep, StepsInv, Session!Next
  <2> QED
    BY <2>2, <2>3, Zenon
<1>9. ASSUME SignalWorker(t) PROVE SessionStep(rf)
  <2>1. /\ running' = running \ {rf} /\ worker' = worker /\ loaded' = loaded
        /\ registered' = registered /\ Current.at = "signal"
        /\ Current'.at = "join" /\ Current'.rf = rf
    BY <1>1, <1>2, <1>9, Zenon DEF SignalWorker
  <2>2. rf \notin registered /\ Inside(rf) = "stop" /\ Inside(rf)' = "stop"
    BY <1>1, <1>a, <1>b, <2>1, Zenon DEF PipeInv
  <2>3. Session(rf)!SignalWorker \/ UNCHANGED sessionVars(rf)
    BY <2>1, <2>2, Zenon DEF Session!SignalWorker, sessionVars
  <2> QED
    BY <2>1, <2>3, Zenon DEF SessionStep, StepsInv, Session!Next
<1>10. ASSUME Join(t) PROVE SessionStep(rf)
  <2>1. /\ running' = running /\ worker' = worker /\ loaded' = loaded
        /\ registered' = registered /\ Current.at = "join" /\ rf \notin worker
        /\ Current'.at = "unload" /\ Current'.rf = rf
    BY <1>1, <1>2, <1>10, Zenon DEF Join, pipeVars
  <2>2. Inside(rf) = "stop" /\ Inside(rf)' = "stop" /\ rf \notin running
    BY <1>1, <1>a, <1>b, <2>1, Zenon DEF PipeInv
  <2> QED
    BY <2>1, <2>2, Zenon DEF SessionStep, StepsInv, sessionVars
<1>11. ASSUME Unload(t) PROVE SessionStep(rf)
  <2>1. /\ running' = running /\ worker' = worker /\ loaded' = loaded \ {rf}
        /\ registered' = registered /\ Current.at = "unload" /\ Current'.at = "none"
    BY <1>1, <1>2, <1>11, Zenon DEF Unload
  <2>2. rf \notin running /\ rf \notin worker /\ rf \notin registered
    BY <1>1, <1>3, <2>1, Zenon DEF PipeInv, StepsInv
  <2>3. Inside(rf) = "stop" /\ Inside(rf)' = "none"
    BY <1>a, <1>b, <2>1, Zenon
  <2>4. Session(rf)!StopReturns
    BY <2>1, <2>2, <2>3, Zenon DEF Session!StopReturns, Session!Down
  <2> QED
    BY <2>1, <2>2, <2>4, Zenon DEF SessionStep, StepsInv, Session!Next
<1> QED
  BY <1>4, <1>5, <1>6, <1>7, <1>8, <1>9, <1>10, <1>11, Zenon DEF PipelineStep

\* A step of the call in progress, for the other pipeline.
LEMMA SessionApart ==
    ASSUME IInv, NEW t \in Threads, PipelineStep(t), call[t].at # "none",
           NEW rf \in RFs, call[t].rf # rf, StepsInv(rf)
    PROVE  SessionStep(rf)
<1>1. Current = call[t] /\ Current.rf # rf
  BY OnlyCaller, Zenon
<1>2. /\ \A x : x # "none" /\ Goes(t, x) => Current'.rf # rf
      /\ Returns(t) => Current'.at = "none"
  BY <1>1, CallMoves, Zenon
<1>3. Returns(t) \/ \E x : x # "none" /\ Goes(t, x)
  BY Zenon DEF PipelineStep, LoadCodelets, Boot, Register, SmUp, StopPipeline,
               SignalWorker, Join, Unload
<1>4. Current'.rf # rf \/ Current'.at = "none"
  BY <1>2, <1>3, Zenon
<1> DEFINE q == call[t].rf
           Kept(S, T) == T = S \/ T = S \cup {q} \/ T = S \ {q}
<1>5. /\ Kept(running, running') /\ Kept(worker, worker')
      /\ Kept(registered, registered') /\ Kept(loaded, loaded')
  BY Zenon DEF PipelineStep, LoadCodelets, Boot, Register, SmUp, StopPipeline,
               SignalWorker, Join, Unload, pipeVars
<1>7. ASSUME NEW S, NEW T, Kept(S, T) PROVE (rf \in T) = (rf \in S)
  BY <1>7
<1> HIDE DEF q, Kept
<1>8. /\ (rf \in running') = (rf \in running)
      /\ (rf \in worker') = (rf \in worker)
      /\ (rf \in registered') = (rf \in registered)
      /\ (rf \in loaded') = (rf \in loaded)
  BY <1>5, <1>7, Zenon
<1>6. Inside(rf) = "none" /\ Inside(rf)' = "none"
  BY <1>1, <1>4, Zenon DEF Inside, StopSteps
<1> QED
  BY <1>1, <1>4, <1>8, <1>6, Zenon DEF SessionStep, StepsInv, sessionVars

\* A thread enters a pipeline that nobody is in.
LEMMA CallBegins ==
    ASSUME IInv, NEW t \in Threads, NEW x, x # "none", NEW r,
           call["main"].at = "none", call["ctl"].at = "none",
           call' = [call EXCEPT ![t] = [at |-> x, rf |-> r]]
    PROVE  Current.at = "none" /\ Current'.at = x /\ Current'.rf = r
<1>1. /\ "main" \in Threads /\ "ctl" \in Threads /\ "main" # "ctl"
      /\ t = "main" \/ t = "ctl"
      /\ call \in [Threads -> [at : CallSteps, rf : RFs]]
  BY Parts, Zenon DEF Threads, CallInv
<1>2. /\ call'[t].at = x /\ call'[t].rf = r
      /\ \A u \in Threads \ {t} : call'[u] = call[u]
  BY <1>1, Zenon
<1> QED
  BY <1>1, <1>2, Zenon DEF Current

\* The steps of main() and of libe3's thread outside the pipelines: they leave
\* the calls alone, or begin one.
LEMMA SessionOutside ==
    ASSUME IInv, NEW rf \in RFs, StepsInv(rf),
           \/ StartsUp \/ LeavePollLoop \/ StopAgent \/ AgentStopped \/ StopPipelines
           \/ StopIo \/ Report \/ DestroyPipeline \/ DestroyDispatcher \/ DestroyAgent
           \/ Exit \/ Signal \/ UNCHANGED vars
           \/ \E r \in RFs : AgentStopsSm(r) \/ SmStarts(r) \/ SmStops(r)
    PROVE  SessionStep(rf)
<1>0. "main" \in Threads /\ "ctl" \in Threads /\ CallInv /\ MainInv
  BY Parts, Zenon DEF Threads
<1>1. ASSUME StartsUp PROVE call' = call /\ UNCHANGED pipeVars
  BY <1>1, Zenon
     DEF StartsUp, ParseArgs, LoadConfig, ConstructAgent, InstallHandlers, InitIo,
         RegisterIoThread, InitAgent, ConstructPipelines, RegisterSpectrum,
         RegisterLayer1, StartAgent, otherVars
<1>2. ASSUME \/ LeavePollLoop \/ StopAgent \/ AgentStopped \/ StopIo \/ Report
             \/ DestroyDispatcher \/ Exit \/ Signal \/ UNCHANGED vars
      PROVE  call' = call /\ UNCHANGED pipeVars
  BY <1>2, Zenon
     DEF LeavePollLoop, StopAgent, AgentStopped, StopIo, Report, DestroyDispatcher,
         Exit, Signal, otherVars, vars
<1>3. ASSUME DestroyPipeline PROVE call' = call /\ UNCHANGED pipeVars
  <2>1. running = {}
    BY <1>3, Unwinding, Zenon DEF DestroyPipeline
  <2> QED
    BY <1>3, <2>1, Zenon DEF DestroyPipeline
<1>4. ASSUME StopPipelines
      PROVE  UNCHANGED pipeVars /\ Current.at = "none" /\ Current'.at = "stop"
  <2>1. /\ UNCHANGED pipeVars /\ call["main"].at = "none"
        /\ main_pc \in {"stop_slot", "stop_iq"}
    BY <1>4, Zenon DEF StopPipelines, MainAt, At
  <2>2. call["ctl"].at = "none"
    BY <1>0, <2>1, Zenon DEF CallInv, Serving
  <2>3. PICK r \in RFs : call' = [call EXCEPT !["main"] = [at |-> "stop", rf |-> r]]
    BY <1>4, Zenon DEF StopPipelines, RFs
  <2>4. "stop" # "none"
    BY Zenon
  <2> QED
    BY <1>0, <2>1, <2>2, <2>3, <2>4, CallBegins, Zenon
<1>5. ASSUME NEW r \in RFs, AgentStopsSm(r)
      PROVE  UNCHANGED pipeVars /\ Current.at = "none" /\ Current'.at = "stop"
  <2>1. /\ UNCHANGED pipeVars /\ call["main"].at = "none" /\ call["ctl"].at = "none"
        /\ call' = [call EXCEPT !["main"] = [at |-> "stop", rf |-> r]]
        /\ "stop" # "none"
    BY <1>5, Zenon DEF AgentStopsSm, MainAt, At, SmStop
  <2> QED
    BY <1>0, <2>1, CallBegins, Zenon
<1>6. ASSUME NEW r \in RFs, SmStarts(r) \/ SmStops(r)
      PROVE  UNCHANGED pipeVars /\ Current.at = "none" /\ Current'.at \in {"load", "stop"}
  <2>1. /\ UNCHANGED pipeVars /\ call["ctl"].at = "none" /\ agent = "started"
    BY <1>6, Zenon DEF SmStarts, SmStops, At
  <2>2. call["main"].at = "none"
    BY <1>0, <2>1, Zenon DEF CallInv, MainInv, Ending
  <2>3. PICK x \in {"load", "stop"} :
            call' = [call EXCEPT !["ctl"] = [at |-> x, rf |-> r]]
    BY <1>6, Zenon DEF SmStarts, SmStops, SmStop
  <2>4. x # "none"
    BY <2>3, Zenon
  <2> QED
    BY <1>0, <2>1, <2>2, <2>3, <2>4, CallBegins, Zenon
<1>7. ASSUME DestroyAgent
      PROVE  /\ UNCHANGED pipeVars
             /\ call' = call \/ (Current.at = "none" /\ Current'.at = "stop")
  <2>1. UNCHANGED pipeVars /\ call["main"].at = "none" /\ call["ctl"].at = "none"
    BY <1>7, Unwinding, Zenon DEF DestroyAgent
  <2>2. CASE \E r \in sm : SmStop("main", r)
    <3>1. PICK r \in sm : call' = [call EXCEPT !["main"] = [at |-> "stop", rf |-> r]]
      BY <2>2, Zenon DEF SmStop
    <3>2. "stop" # "none"
      BY Zenon
    <3> QED
      BY <1>0, <2>1, <3>1, <3>2, CallBegins, Zenon
  <2>3. CASE call' = call
    BY <2>1, <2>3, Zenon
  <2> QED
    BY <1>7, <2>2, <2>3, Zenon DEF DestroyAgent
<1>8. \/ UNCHANGED pipeVars /\ call' = call
      \/ UNCHANGED pipeVars /\ Current.at = "none" /\ Current'.at \in {"load", "stop"}
  BY <1>1, <1>2, <1>3, <1>4, <1>5, <1>6, <1>7, Zenon
<1> QED
  BY <1>8, SessionRests, SessionBegins, Zenon

\* A worker ends, inside the stop() of its pipeline.
LEMMA SessionWorker ==
    ASSUME IInv, NEW rf \in RFs, StepsInv(rf), NEW r \in RFs, WorkerExits(r)
    PROVE  SessionStep(rf)
<1>1. /\ running' = running /\ registered' = registered /\ loaded' = loaded
      /\ worker' = worker \ {r} /\ Current' = Current /\ r \in worker
      /\ r \notin running
  BY Zenon DEF WorkerExits, Current
<1>2. StepsInv(rf)' /\ Inside(rf)' = Inside(rf)
  BY <1>1, Zenon DEF StepsInv, Inside
<1>3. CASE r = rf
  <2>1. Current.at = "join" /\ Current.rf = rf
    BY <1>1, <1>3, Parts, Zenon DEF PipeInv
  <2>2. Inside(rf) = "stop"
    BY <2>1, Zenon DEF Inside, StopSteps
  <2>3. Session(rf)!WorkerExits
    BY <1>1, <1>2, <1>3, <2>2, Zenon DEF Session!WorkerExits
  <2> QED
    BY <1>2, <2>3, Zenon DEF SessionStep, Session!Next
<1>4. CASE r # rf
  <2>1. (rf \in worker') = (rf \in worker)
    BY <1>1, <1>4
  <2> QED
    BY <1>1, <1>2, <2>1, Zenon DEF SessionStep, sessionVars
<1> QED
  BY <1>3, <1>4, Zenon

\* The constructors and every step keep the session contract.
LEMMA SessionInductive ==
    ASSUME NEW rf \in RFs
    PROVE  /\ Init => Session(rf)!Init /\ StepsInv(rf)
           /\ IInv /\ StepsInv(rf) /\ [Next]_vars =>
                 [Session(rf)!Next]_(sessionVars(rf)) /\ StepsInv(rf)'
<1>1. Init => Session(rf)!Init /\ StepsInv(rf)
  <2> SUFFICES ASSUME Init PROVE Session(rf)!Init /\ StepsInv(rf)
    OBVIOUS
  <2>1. /\ running = {} /\ worker = {} /\ registered = {} /\ loaded = {}
        /\ Current.at = "none"
    BY Zenon DEF Init, Current, Idle, Threads
  <2>2. Inside(rf) = "none"
    BY <2>1, Zenon DEF Inside, StopSteps
  <2> QED
    BY <2>1, <2>2, Zenon DEF StepsInv, Session!Init, Session!Down
<1>2. ASSUME IInv, StepsInv(rf), [Next]_vars PROVE SessionStep(rf)
  <2>0. "main" \in Threads /\ "ctl" \in Threads
    BY Zenon DEF Threads
  <2>1. ASSUME NEW t \in Threads, PipelineStep(t) PROVE SessionStep(rf)
    <3>1. call[t].at # "none"
      BY <2>1, Zenon
         DEF PipelineStep, LoadCodelets, Boot, Register, SmUp, StopPipeline,
             SignalWorker, Join, Unload, At
    <3> QED
      BY <1>2, <2>1, <3>1, SessionMoves, SessionApart, Zenon
  <2>2. CASE Main
    BY <1>2, <2>0, <2>1, <2>2, SessionOutside, Zenon DEF Main, StartsUp
  <2>3. CASE LibE3
    BY <1>2, <2>0, <2>1, <2>3, SessionOutside, Zenon DEF LibE3
  <2>4. CASE Signal \/ UNCHANGED vars
    BY <1>2, <2>4, SessionOutside, Zenon
  <2>5. CASE \E r \in RFs : WorkerExits(r)
    BY <1>2, <2>5, SessionWorker, Zenon
  <2> QED
    BY <1>2, <2>2, <2>3, <2>4, <2>5, Zenon DEF Next
<1>3. ASSUME IInv, StepsInv(rf), [Next]_vars
      PROVE  [Session(rf)!Next]_(sessionVars(rf)) /\ StepsInv(rf)'
  BY <1>2, <1>3, Zenon DEF SessionStep
<1> QED
  BY <1>1, <1>3, Zenon

\* Both pipelines are used as the session contract says, whoever calls start()
\* and stop(), libe3's thread, agent.stop(), main or a destructor: each finds
\* the pipeline all up or all down.  It is the contract IqPipeline and
\* SlotIqPipeline are shown to keep.
THEOREM CallersKeepSession == \A rf \in RFs : Spec => Session(rf)!Spec
<1> SUFFICES ASSUME NEW rf \in RFs PROVE Spec => Session(rf)!Spec
  OBVIOUS
<1>1. Init => Session(rf)!Init /\ StepsInv(rf)
  BY SessionInductive, Zenon
<1>2. IInv /\ StepsInv(rf) /\ [Next]_vars =>
          [Session(rf)!Next]_(sessionVars(rf)) /\ StepsInv(rf)'
  BY SessionInductive, Zenon
<1> QED
  BY <1>1, <1>2, ControllerInductive, PTL
  DEF Spec, Session!Spec, Session!sessionVars, sessionVars

\* Between the calls of start() and stop() each pipeline is all up or all down,
\* a stream is registered only over a live worker, and codelets come and go
\* only under a pipeline that is down.
THEOREM UpOrDown ==
    \A rf \in RFs : Spec => []Session(rf)!Promise /\ Session(rf)!CodeletsStay
<1> SUFFICES ASSUME NEW rf \in RFs
             PROVE  Spec => []Session(rf)!Promise /\ Session(rf)!CodeletsStay
  OBVIOUS
<1>1. Init => StepsInv(rf)
  BY SessionInductive, Zenon
<1>2. IInv /\ StepsInv(rf) /\ [Next]_vars =>
          [Session(rf)!Next]_(sessionVars(rf)) /\ StepsInv(rf)'
  BY SessionInductive, Zenon
<1>3. ASSUME IInv, StepsInv(rf) PROVE Session(rf)!Promise
  <2>1. rf \in registered => rf \in running /\ rf \in worker
    BY <1>3, Parts, Zenon DEF PipeInv, StepsInv
  <2>2. ASSUME Inside(rf) = "none", rf \in running
        PROVE  rf \in worker /\ rf \in registered
    BY <1>3, <2>2, Zenon DEF Inside, StopSteps, StepsInv
  <2>3. ASSUME Inside(rf) = "none", rf \notin running
        PROVE  rf \notin worker /\ rf \notin registered
    BY <1>3, <2>3, Parts, Zenon DEF Inside, StopSteps, PipeInv
  <2> QED
    BY <2>1, <2>2, <2>3, Zenon DEF Session!Promise, Session!Up, Session!Down
<1> DEFINE Stays == (rf \in loaded)' # (rf \in loaded) =>
                        Session(rf)!Down /\ Session(rf)!Down'
<1>4. [Session(rf)!Next]_(sessionVars(rf)) => [Stays]_(sessionVars(rf))
  <2> SUFFICES ASSUME Session(rf)!Next PROVE Stays
    OBVIOUS
  <2>1. CASE Session(rf)!StartCalled
    BY <2>1, Zenon DEF Session!StartCalled, Session!Down
  <2>2. CASE Session(rf)!Load
    BY <2>2, Zenon DEF Session!Load, Session!Down
  <2>3. CASE Session(rf)!StopReturns
    BY <2>3, Zenon DEF Session!StopReturns, Session!Down
  <2>4. CASE \/ Session(rf)!Boot \/ Session(rf)!Register \/ Session(rf)!StartReturns
             \/ Session(rf)!StopCalled \/ Session(rf)!Unregister
             \/ Session(rf)!SignalWorker \/ Session(rf)!WorkerExits
    BY <2>4, Zenon
       DEF Session!Boot, Session!Register, Session!StartReturns, Session!StopCalled,
           Session!Unregister, Session!SignalWorker, Session!WorkerExits
  <2> QED
    BY <2>1, <2>2, <2>3, <2>4, Zenon DEF Session!Next
<1> QED
  BY <1>1, <1>2, <1>3, <1>4, ControllerInductive, PTL
  DEF Spec, Session!CodeletsStay, Session!sessionVars, sessionVars

-----------------------------------------------------------------------------
(* Progress: what every step brings nearer. *)

\* The steps main() has before it, and those of the call in progress.
MainRank ==
    [args |-> 20, config |-> 19, agent |-> 18, handlers |-> 17, io_init |-> 16,
     io_thread |-> 15, agent_init |-> 14, construct |-> 13, register_iq |-> 12,
     register_slot |-> 11, agent_start |-> 10, poll |-> 9, agent_stop |-> 8,
     agent_joins |-> 7, stop_slot |-> 6, stop_iq |-> 5, io_stop |-> 4,
     report |-> 3, unwind |-> 2, exited |-> 1]
CallRank ==
    [load |-> 15, boot |-> 14, register |-> 12, sm_up |-> 11, stop |-> 4,
     signal |-> 3, join |-> 2, unload |-> 1, none |-> 0]

Count(S) == (IF "iq" \in S THEN 1 ELSE 0) + (IF "slot" \in S THEN 1 ELSE 0)

mainLeft == MainRank[main_pc]
callLeft == CallRank[Current.at]
owned == Len(scope) + Count(sm)
running_sms == Count(sm_running)
workers == Count(worker)
signals == IF g_running THEN 1 ELSE 0

\* A step of main() outweighs what it constructs and the call it makes, a
\* service model that runs outweighs the call that stops it.
Steps == 16 * mainLeft + owned + 8 * running_sms + workers + callLeft + signals

Stopped == {"stopping", "stopped"}

\* Every step of main, of libe3's thread, of a worker and every signal uses up
\* one of the steps left, except that a dApp's first subscription brings new
\* ones, and an agent that was stopped takes no more of those.
Winds ==
    [][/\ Steps' < Steps \/ \E rf \in RFs : SmStarts(rf)
       /\ agent \in Stopped =>
             agent' \in Stopped /\ ~\E rf \in RFs : SmStarts(rf)]_vars

\* The ranks, one by one.
LEMMA Ranks ==
    /\ MainRank["args"] = 20 /\ MainRank["config"] = 19 /\ MainRank["agent"] = 18
    /\ MainRank["handlers"] = 17 /\ MainRank["io_init"] = 16
    /\ MainRank["io_thread"] = 15 /\ MainRank["agent_init"] = 14
    /\ MainRank["construct"] = 13 /\ MainRank["register_iq"] = 12
    /\ MainRank["register_slot"] = 11 /\ MainRank["agent_start"] = 10
    /\ MainRank["poll"] = 9 /\ MainRank["agent_stop"] = 8
    /\ MainRank["agent_joins"] = 7 /\ MainRank["stop_slot"] = 6
    /\ MainRank["stop_iq"] = 5 /\ MainRank["io_stop"] = 4 /\ MainRank["report"] = 3
    /\ MainRank["unwind"] = 2 /\ MainRank["exited"] = 1
    /\ CallRank["load"] = 15 /\ CallRank["boot"] = 14 /\ CallRank["register"] = 12
    /\ CallRank["sm_up"] = 11 /\ CallRank["stop"] = 4 /\ CallRank["signal"] = 3
    /\ CallRank["join"] = 2 /\ CallRank["unload"] = 1 /\ CallRank["none"] = 0
  BY Zenon DEF MainRank, CallRank

\* How many of two.
LEMMA Counts ==
    ASSUME NEW S
    PROVE  /\ Count(S) \in 0 .. 2
           /\ \A r \in S \cap RFs : Count(S \ {r}) = Count(S) - 1
           /\ \A r \in RFs : Count(S \cup {r}) <= Count(S) + 1
  BY DEF Count, RFs

Measured ==
    /\ mainLeft \in Nat /\ callLeft \in Nat /\ owned \in 0 .. 6
    /\ running_sms \in 0 .. 2 /\ workers \in 0 .. 2 /\ signals \in 0 .. 1
    /\ main_pc # "exited" => mainLeft > 1

\* The addends of the measure.
LEMMA StepsMeasured == IInv => Measured
<1> SUFFICES ASSUME IInv PROVE Measured
  BY Zenon
<1>1. /\ main_pc \in MainSteps /\ scope \in Scopes /\ Current.at \in CallSteps
  BY Parts, WhoIsInside, Zenon DEF MainInv
<1>2. mainLeft \in Nat /\ (main_pc # "exited" => mainLeft > 1)
  BY <1>1, Ranks
     DEF mainLeft, MainSteps, Before, Setup, Whole, Registering, Active, Serving,
         Stopping, Ending
<1>3. callLeft \in Nat
  BY <1>1, Ranks DEF callLeft, CallSteps, StopSteps
<1>4. Len(scope) \in 0 .. 4
  BY <1>1, ScopeElements DEF Scopes
<1>5. Count(sm) \in 0 .. 2 /\ running_sms \in 0 .. 2 /\ workers \in 0 .. 2
  BY Counts, Zenon DEF running_sms, workers
<1>6. owned \in 0 .. 6
  <2> DEFINE l == Len(scope)  s == Count(sm)
  <2>1. l \in 0 .. 4 /\ s \in 0 .. 2 /\ owned = l + s
    BY <1>4, <1>5, Zenon DEF owned
  <2> HIDE DEF l, s
  <2> QED
    BY <2>1
<1>7. signals \in 0 .. 1
  BY DEF signals
<1> QED
  BY <1>2, <1>3, <1>5, <1>6, <1>7, Zenon DEF Measured

\* What makes the measure fall.
LEMMA Falls ==
    ASSUME IInv, IInv',
           \/ /\ mainLeft' < mainLeft /\ callLeft' <= callLeft + 4
              /\ UNCHANGED <<running_sms, workers, signals>>
           \/ owned' < owned /\ UNCHANGED <<mainLeft, callLeft, running_sms, workers, signals>>
           \/ /\ running_sms' = running_sms - 1 /\ callLeft' = callLeft + 4
              /\ UNCHANGED <<mainLeft, owned, workers, signals>>
           \/ /\ UNCHANGED <<mainLeft, owned, signals>>
              /\ \/ callLeft' < callLeft /\ UNCHANGED <<running_sms, workers>>
                 \/ callLeft' <= callLeft - 2 /\ workers' <= workers + 1
                    /\ UNCHANGED running_sms
                 \/ callLeft' <= callLeft - 11 /\ running_sms' <= running_sms + 1
                    /\ UNCHANGED workers
           \/ /\ workers' = workers - 1
              /\ UNCHANGED <<mainLeft, owned, callLeft, running_sms, signals>>
           \/ signals' < signals /\ UNCHANGED <<mainLeft, owned, callLeft, running_sms, workers>>
    PROVE  Steps' < Steps
<1> DEFINE M == mainLeft  C == callLeft  O == owned
           R == running_sms  W == workers  S == signals
           M2 == mainLeft'  C2 == callLeft'  O2 == owned'
           R2 == running_sms'  W2 == workers'  S2 == signals'
<1>1. Measured'
  BY StepsMeasured, PTL
<1>2. /\ M \in Nat /\ C \in Nat /\ O \in 0 .. 6 /\ R \in 0 .. 2 /\ W \in 0 .. 2
      /\ S \in 0 .. 1
      /\ M2 \in Nat /\ C2 \in Nat /\ O2 \in 0 .. 6 /\ R2 \in 0 .. 2 /\ W2 \in 0 .. 2
      /\ S2 \in 0 .. 1
  BY <1>1, StepsMeasured, Zenon DEF Measured
<1>3. /\ Steps = 16 * M + O + 8 * R + W + C + S
      /\ Steps' = 16 * M2 + O2 + 8 * R2 + W2 + C2 + S2
  BY Zenon DEF Steps
<1>4. \/ M2 < M /\ C2 <= C + 4 /\ R2 = R /\ W2 = W /\ S2 = S
      \/ O2 < O /\ M2 = M /\ C2 = C /\ R2 = R /\ W2 = W /\ S2 = S
      \/ R2 = R - 1 /\ C2 = C + 4 /\ M2 = M /\ O2 = O /\ W2 = W /\ S2 = S
      \/ M2 = M /\ O2 = O /\ S2 = S /\ C2 < C /\ R2 = R /\ W2 = W
      \/ M2 = M /\ O2 = O /\ S2 = S /\ C2 <= C - 2 /\ W2 <= W + 1 /\ R2 = R
      \/ M2 = M /\ O2 = O /\ S2 = S /\ C2 <= C - 11 /\ R2 <= R + 1 /\ W2 = W
      \/ W2 = W - 1 /\ M2 = M /\ O2 = O /\ C2 = C /\ R2 = R /\ S2 = S
      \/ S2 < S /\ M2 = M /\ O2 = O /\ C2 = C /\ R2 = R /\ W2 = W
  BY Zenon
<1> HIDE DEF M, C, O, R, W, S, M2, C2, O2, R2, W2, S2
<1>5. 16 * M2 + O2 + 8 * R2 + W2 + C2 + S2 < 16 * M + O + 8 * R + W + C + S
  BY <1>2, <1>4
<1> QED
  BY <1>3, <1>5, Zenon

\* main() goes on.
LEMMA MainFalls ==
    ASSUME IInv, IInv',
           \/ StartsUp \/ LeavePollLoop \/ StopAgent \/ AgentStopped \/ StopPipelines
           \/ StopIo \/ Report \/ Exit \/ (Signal /\ main_pc' = "exited")
    PROVE  Steps' < Steps
<1> DEFINE
      Early ==
      \/ main_pc = "args" /\ main_pc' \in {"config", "unwind"}
      \/ main_pc = "config" /\ main_pc' \in {"agent", "unwind"}
      \/ main_pc = "agent" /\ main_pc' = "handlers"
      \/ main_pc = "handlers" /\ main_pc' \in {"io_init", "unwind"}
      \/ main_pc = "io_init" /\ main_pc' \in {"io_thread", "unwind"}
      \/ main_pc = "io_thread" /\ main_pc' \in {"agent_init", "unwind"}
      \/ main_pc = "agent_init" /\ main_pc' \in {"construct", "unwind"}
      \/ main_pc = "construct" /\ main_pc' = "register_iq"
      \/ main_pc = "register_iq" /\ main_pc' \in {"register_slot", "unwind"}
      \/ main_pc = "register_slot" /\ main_pc' \in {"agent_start", "unwind"}
      \/ main_pc = "agent_start" /\ main_pc' \in {"poll", "unwind"}
      Late ==
      \/ main_pc = "poll" /\ main_pc' = "agent_stop"
      \/ main_pc = "agent_stop" /\ main_pc' = "agent_joins"
      \/ main_pc = "agent_joins" /\ main_pc' = "stop_slot"
      \/ main_pc = "stop_slot" /\ main_pc' = "stop_iq"
      \/ main_pc = "stop_iq" /\ main_pc' = "io_stop"
      \/ main_pc = "io_stop" /\ main_pc' = "report"
      \/ main_pc = "report" /\ main_pc' = "unwind"
      \/ main_pc # "exited" /\ main_pc' = "exited"
<1>0. StartsUp => Early
  BY Zenon
     DEF StartsUp, ParseArgs, LoadConfig, ConstructAgent, InstallHandlers, InitIo,
         RegisterIoThread, InitAgent, ConstructPipelines, RegisterSpectrum,
         RegisterLayer1, StartAgent, MainAt, Proceeds, Return
<1>6. ~StartsUp => Late
  BY Zenon
     DEF LeavePollLoop, StopAgent, AgentStopped, StopPipelines, StopIo, Report, Exit,
         Signal, MainAt, Proceeds, Return
<1>1. Early \/ Late
  BY <1>0, <1>6, Zenon
<1>2. mainLeft' < mainLeft
  <2>1. main_pc # "exited" => mainLeft > 1
    BY StepsMeasured, Zenon DEF Measured
  <2>2. main_pc' = "exited" => mainLeft' = 1
    BY Ranks, Zenon DEF mainLeft
  <2>3. CASE main_pc # "exited" /\ main_pc' = "exited"
    BY <2>1, <2>2, <2>3
  <2>4. CASE main_pc \in Before \cup Setup
    BY <1>1, <2>3, <2>4, Ranks DEF mainLeft, Before, Setup
  <2>5. CASE main_pc \in Registering \cup Serving
    BY <1>1, <2>3, <2>5, Ranks DEF mainLeft, Registering, Serving
  <2>6. CASE main_pc \in Stopping \cup {"report"}
    BY <1>1, <2>3, <2>6, Ranks DEF mainLeft, Stopping
  <2> QED
    BY <1>1, <2>3, <2>4, <2>5, <2>6, Zenon
       DEF Before, Setup, Registering, Serving, Stopping
<1>3. sm_running' = sm_running /\ worker' = worker /\ g_running' = g_running
  BY <1>1, Zenon
     DEF StartsUp, ParseArgs, LoadConfig, ConstructAgent, InstallHandlers, InitIo,
         RegisterIoThread, InitAgent, ConstructPipelines, RegisterSpectrum,
         RegisterLayer1, StartAgent, LeavePollLoop, StopAgent, AgentStopped,
         StopPipelines, StopIo, Report, Exit, Signal, otherVars, pipeVars
<1>4. callLeft' <= callLeft + 4
  <2>1. CASE call' = call
    <3>1. callLeft' = callLeft /\ callLeft \in Nat
      BY <2>1, StepsMeasured, Zenon DEF callLeft, Current, Measured
    <3> QED
      BY <3>1
  <2>2. CASE StopPipelines
    <3>1. call["main"].at = "none" /\ main_pc \in {"stop_slot", "stop_iq"}
      BY <2>2, Zenon DEF StopPipelines, MainAt, At
    <3>2. call["ctl"].at = "none"
      BY <3>1, Parts, Zenon DEF CallInv, Serving
    <3>3. PICK r \in RFs : call' = [call EXCEPT !["main"] = [at |-> "stop", rf |-> r]]
      BY <2>2, Zenon DEF StopPipelines, RFs
    <3>4. "main" \in Threads /\ "stop" # "none"
      BY Zenon DEF Threads
    <3>5. Current.at = "none" /\ Current'.at = "stop"
      BY <3>1, <3>2, <3>3, <3>4, CallBegins, Zenon
    <3>6. callLeft = 0 /\ callLeft' = 4
      BY <3>5, Ranks, Zenon DEF callLeft
    <3> QED
      BY <3>6
  <2> QED
    BY <2>1, <2>2, Zenon
       DEF StartsUp, ParseArgs, LoadConfig, ConstructAgent, InstallHandlers, InitIo,
           RegisterIoThread, InitAgent, ConstructPipelines, RegisterSpectrum,
           RegisterLayer1, StartAgent, LeavePollLoop, StopAgent, AgentStopped,
           StopIo, Report, Exit, Signal, otherVars
<1>5. UNCHANGED <<running_sms, workers, signals>>
  BY <1>3, Zenon DEF running_sms, workers, signals
<1> QED
  BY <1>2, <1>4, <1>5, Falls, Zenon

\* A stop() begins that takes a running service model away.
LEMMA StopBegins ==
    ASSUME IInv, IInv', NEW t \in Threads, NEW r \in RFs, r \in sm_running, SmStop(t, r),
           call["main"].at = "none", call["ctl"].at = "none",
           UNCHANGED <<mainVars, g_running, scope, sm, pipeVars>>
    PROVE  Steps' < Steps
<1>1. /\ sm_running' = sm_running \ {r} /\ "stop" # "none"
      /\ call' = [call EXCEPT ![t] = [at |-> "stop", rf |-> r]]
  BY Zenon DEF SmStop
<1>2. Current.at = "none" /\ Current'.at = "stop"
  BY <1>1, CallBegins, Zenon
<1>3. callLeft = 0 /\ callLeft' = 4
  BY <1>2, Ranks, Zenon DEF callLeft
<1>4. running_sms' = running_sms - 1
  BY <1>1, Counts, Zenon DEF running_sms
<1>5. UNCHANGED <<mainLeft, owned, workers, signals>>
  BY Zenon DEF mainLeft, owned, workers, signals, mainVars, pipeVars
<1>6. callLeft' = callLeft + 4
  BY <1>3
<1> QED
  BY <1>4, <1>5, <1>6, Falls, Zenon

\* A sequence without its last element.
LEMMA Shorter ==
    ASSUME NEW S, NEW z \in Seq(S), Len(z) \in Nat \ {0}
    PROVE  Len(SubSeq(z, 1, Len(z) - 1)) = Len(z) - 1
<1> DEFINE n == Len(z) - 1
<1>1. n \in Nat /\ n <= Len(z)
  OBVIOUS
<1> HIDE DEF n
<1>2. Len(SubSeq(z, 1, n)) = n
  BY <1>1
<1> QED
  BY <1>2, Zenon DEF n

\* A destructor.
LEMMA DestructorFalls ==
    ASSUME IInv, IInv', DestroyPipeline \/ DestroyDispatcher \/ DestroyAgent
    PROVE  Steps' < Steps
<1>1. /\ MainAt("unwind") /\ scope # << >> /\ UNCHANGED <<mainVars, g_running, pipeVars>>
  BY Zenon DEF DestroyPipeline, DestroyDispatcher, DestroyAgent, otherVars
<1>2. running = {} /\ call["main"].at = "none" /\ call["ctl"].at = "none"
  BY <1>1, Unwinding, Zenon
<1>3. /\ scope \in Scopes \ {Scope0} /\ Len(scope) \in Nat \ {0}
      /\ Count(sm) \in 0 .. 2
  <2>1. scope \in Scopes \ {Scope0}
    BY <1>1, Parts, Zenon DEF MainInv, Scope0
  <2>2. scope = Scope1 \/ scope = Scope2 \/ scope = Scope3 \/ scope = Scope4
    BY <2>1, Zenon DEF Scopes
  <2>3. Len(scope) \in {1, 2, 3, 4}
    BY <2>2, ScopeElements, Zenon
  <2>4. Len(scope) \in Nat \ {0}
    BY <2>3
  <2> QED
    BY <2>1, <2>4, Counts, Zenon
<1>4. ASSUME scope' = SubSeq(scope, 1, Len(scope) - 1), sm' = sm, call' = call,
             sm_running' = sm_running
      PROVE  Steps' < Steps
  <2>1. Len(scope') = Len(scope) - 1
    BY <1>3, <1>4, ScopeSeqs, Shorter, Zenon
  <2>2. owned' < owned
    <3> DEFINE l == Len(scope)  l2 == Len(scope')  s == Count(sm)
    <3>1. /\ owned = l + s /\ owned' = l2 + s /\ l2 = l - 1 /\ l \in Nat \ {0}
          /\ s \in 0 .. 2
      BY <1>3, <1>4, <2>1, Zenon DEF owned
    <3> HIDE DEF l, l2, s
    <3> QED
      BY <3>1
  <2>3. UNCHANGED <<mainLeft, callLeft, running_sms, workers, signals>>
    BY <1>1, <1>4, Zenon
       DEF mainLeft, callLeft, Current, running_sms, workers, signals, mainVars,
           pipeVars
  <2> QED
    BY <2>2, <2>3, Falls, Zenon
<1>5. ASSUME NEW r \in sm, sm' = sm \ {r}, scope' = scope, call' = call,
             sm_running' = sm_running
      PROVE  Steps' < Steps
  <2>1. r \in sm \cap RFs
    BY Parts, Zenon DEF SmInv
  <2>2. Count(sm') = Count(sm) - 1
    BY <1>5, <2>1, Counts, Zenon
  <2>3. owned' < owned
    <3> DEFINE l == Len(scope)  s == Count(sm)  s2 == Count(sm')
    <3>1. /\ owned = l + s /\ owned' = l + s2 /\ s2 = s - 1 /\ l \in Nat \ {0}
          /\ s \in 0 .. 2
      BY <1>3, <1>5, <2>2, Zenon DEF owned
    <3> HIDE DEF l, s, s2
    <3> QED
      BY <3>1
  <2>4. UNCHANGED <<mainLeft, callLeft, running_sms, workers, signals>>
    BY <1>1, <1>5, Zenon
       DEF mainLeft, callLeft, Current, running_sms, workers, signals, mainVars,
           pipeVars
  <2> QED
    BY <2>3, <2>4, Falls, Zenon
<1>6. CASE DestroyPipeline
  BY <1>2, <1>4, <1>6, Zenon DEF DestroyPipeline
<1>7. CASE DestroyDispatcher
  BY <1>4, <1>7, Zenon DEF DestroyDispatcher, otherVars
<1>8. CASE DestroyAgent
  <2>1. CASE \E r \in sm : /\ r \in sm_running /\ SmStop("main", r)
                           /\ UNCHANGED <<sm, region, scope>>
    <3>1. PICK r \in sm : /\ r \in sm_running /\ SmStop("main", r)
                          /\ UNCHANGED <<sm, region, scope>>
      BY <2>1, Zenon
    <3>2. r \in RFs /\ "main" \in Threads
      BY Parts, Zenon DEF SmInv, Threads
    <3> QED
      BY <1>1, <1>2, <3>1, <3>2, StopBegins, Zenon
  <2>2. CASE \E r \in sm : /\ sm' = sm \ {r}
                           /\ UNCHANGED <<scope, sm_running, call>>
    BY <1>5, <2>2, Zenon
  <2>3. CASE /\ sm = {} /\ scope' = SubSeq(scope, 1, Len(scope) - 1)
             /\ UNCHANGED <<sm, region, sm_running, call>>
    BY <1>4, <2>3, Zenon
  <2> QED
    BY <1>8, <2>1, <2>2, <2>3, Zenon DEF DestroyAgent
<1> QED
  BY <1>6, <1>7, <1>8, Zenon

\* A step of the call in progress.
LEMMA CallFalls ==
    ASSUME IInv, IInv', NEW t \in Threads, PipelineStep(t)
    PROVE  Steps' < Steps
<1>1. call[t].at # "none"
  BY Zenon DEF PipelineStep, LoadCodelets, Boot, Register, SmUp, StopPipeline,
               SignalWorker, Join, Unload, At
<1>2. Current = call[t] /\ call[t].rf \in RFs
  BY <1>1, OnlyCaller, Zenon
<1>3. /\ \A x : x # "none" /\ Goes(t, x) => Current'.at = x
      /\ Returns(t) => Current'.at = "none"
  BY <1>1, CallMoves, Zenon
<1>4. UNCHANGED <<mainLeft, owned, signals>>
  BY Zenon DEF PipelineStep, mainLeft, owned, signals, mainVars
<1>5. CASE Boot(t)
  <2>1. Current.at = "boot" /\ Current'.at = "register"
    BY <1>2, <1>3, <1>5, Zenon DEF Boot, At
  <2>2. callLeft' <= callLeft - 2
    BY <2>1, Ranks DEF callLeft
  <2>3. workers' <= workers + 1
    BY <1>2, <1>5, Counts, Zenon DEF Boot, workers
  <2>4. UNCHANGED running_sms
    BY <1>5, Zenon DEF Boot, running_sms
  <2> QED
    BY <1>4, <2>2, <2>3, <2>4, Falls, Zenon
<1>6. CASE SmUp(t)
  <2>1. Current.at = "sm_up" /\ Current'.at = "none"
    BY <1>2, <1>3, <1>6, Zenon DEF SmUp, At
  <2>2. callLeft' <= callLeft - 11
    BY <2>1, Ranks DEF callLeft
  <2>3. running_sms' <= running_sms + 1
    BY <1>2, <1>6, Counts, Zenon DEF SmUp, running_sms
  <2>4. UNCHANGED workers
    BY <1>6, Zenon DEF SmUp, workers, pipeVars
  <2> QED
    BY <1>4, <2>2, <2>3, <2>4, Falls, Zenon
<1>7. CASE \/ LoadCodelets(t) \/ Register(t) \/ StopPipeline(t) \/ SignalWorker(t)
           \/ Join(t) \/ Unload(t)
  <2>1. \/ Current.at = "load" /\ Current'.at \in {"sm_up", "boot", "none"}
        \/ Current.at = "register" /\ Current'.at = "sm_up"
        \/ Current.at = "stop" /\ Current'.at \in {"signal", "none"}
        \/ Current.at = "signal" /\ Current'.at = "join"
        \/ Current.at = "join" /\ Current'.at = "unload"
        \/ Current.at = "unload" /\ Current'.at = "none"
    BY <1>2, <1>3, <1>7, Zenon
       DEF LoadCodelets, Register, StopPipeline, SignalWorker, Join, Unload, At
  <2>2. callLeft' < callLeft
    BY <2>1, Ranks DEF callLeft
  <2>3. UNCHANGED <<running_sms, workers>>
    BY <1>7, Zenon
       DEF LoadCodelets, Register, StopPipeline, SignalWorker, Join, Unload,
           running_sms, workers, pipeVars
  <2> QED
    BY <1>4, <2>2, <2>3, Falls, Zenon
<1> QED
  BY <1>5, <1>6, <1>7, Zenon DEF PipelineStep

\* An agent that was stopped belongs to a main() past its poll loop,
AgentInv ==
    agent \in Stopped =>
        main_pc \notin Before \cup Setup \cup Registering \cup {"poll", "agent_stop"}

\* and stays stopped.
LEMMA AgentStays ==
    ASSUME AgentInv, [Next]_vars
    PROVE  /\ AgentInv'
           /\ agent \in Stopped => agent' \in Stopped /\ ~\E rf \in RFs : SmStarts(rf)
<1> DEFINE Until == Before \cup Setup \cup Registering \cup {"poll", "agent_stop"}
<1>1. CASE StartsUp
  <2>1. main_pc \in Until
    BY <1>1, Zenon
       DEF StartsUp, ParseArgs, LoadConfig, ConstructAgent, InstallHandlers, InitIo,
           RegisterIoThread, InitAgent, ConstructPipelines, RegisterSpectrum,
           RegisterLayer1, StartAgent, MainAt, Before, Setup, Registering
  <2>2. agent \notin Stopped
    BY <2>1, Zenon DEF AgentInv
  <2>3. agent' = agent \/ agent' \in {"initialized", "started"}
    BY <1>1, Zenon
       DEF StartsUp, ParseArgs, LoadConfig, ConstructAgent, InstallHandlers, InitIo,
           RegisterIoThread, InitAgent, ConstructPipelines, RegisterSpectrum,
           RegisterLayer1, StartAgent
  <2>4. agent' \notin Stopped
    BY <2>2, <2>3, Zenon DEF Stopped
  <2> QED
    BY <2>2, <2>4, Zenon DEF AgentInv
<1>2. CASE UNCHANGED <<agent, main_pc>>
  BY <1>2, Zenon DEF AgentInv, SmStarts, Stopped
<1>3. CASE ~StartsUp /\ ~UNCHANGED <<agent, main_pc>>
  <2>1. \/ LeavePollLoop \/ StopAgent \/ AgentStopped \/ StopPipelines \/ StopIo
        \/ Report \/ Exit \/ Signal
    <3>1. ~UNCHANGED vars /\ ~LibE3 /\ ~\E r \in RFs : WorkerExits(r)
      BY <1>3, Zenon
         DEF vars, LibE3, PipelineStep, SmStarts, SmStops, WorkerExits, mainVars
    <3>2. /\ ~PipelineStep("main") /\ ~\E r \in RFs : AgentStopsSm(r)
          /\ ~DestroyPipeline /\ ~DestroyDispatcher /\ ~DestroyAgent
      BY <1>3, Zenon
         DEF PipelineStep, AgentStopsSm, DestroyPipeline, DestroyDispatcher,
             DestroyAgent, mainVars
    <3> QED
      BY <1>3, <3>1, <3>2, Zenon DEF Next, Main, StartsUp
  <2>2. \/ agent' = agent /\ main_pc' \notin Until
        \/ agent' = agent /\ main_pc = "poll"
        \/ agent' \in Stopped /\ main_pc' \notin Until
        \/ agent' = agent /\ main_pc' = main_pc
    BY <2>1, Zenon
       DEF LeavePollLoop, StopAgent, AgentStopped, StopPipelines, StopIo, Report,
           Exit, Signal, MainAt, Proceeds, Return, Stopped, Before, Setup, Registering
  <2>3. main_pc = "poll" => agent \notin Stopped
    BY Zenon DEF AgentInv
  <2>4. agent \in Stopped => ~\E rf \in RFs : SmStarts(rf)
    BY Zenon DEF SmStarts, Stopped
  <2> QED
    BY <2>2, <2>3, <2>4, Zenon DEF AgentInv
<1> QED
  BY <1>1, <1>2, <1>3, Zenon

\* The process cannot go round in circles: every step but a dApp's first
\* subscription is one of finitely many, whatever the order of main, libe3's
\* thread, the workers and the signals, and once agent.stop() is called there
\* are no more of the others.  So from agent.stop() on at most Steps steps are
\* left; that main takes them is what the run under fairness adds
\* (SignalEndsProcess).
THEOREM ProcessWindsDown == Spec => Winds /\ [](Steps \in Nat)
<1>1. ASSUME IInv, IInv', [Next]_vars
      PROVE  Steps' < Steps \/ (\E rf \in RFs : SmStarts(rf)) \/ UNCHANGED vars
  <2>0. "main" \in Threads /\ "ctl" \in Threads
    BY Zenon DEF Threads
  <2>1. ASSUME NEW r \in RFs, AgentStopsSm(r) PROVE Steps' < Steps
    <3>1. /\ r \in sm_running /\ SmStop("main", r)
          /\ call["main"].at = "none" /\ call["ctl"].at = "none"
          /\ UNCHANGED <<mainVars, g_running, scope, sm, pipeVars>>
      BY <2>1, Zenon DEF AgentStopsSm, MainAt, At
    <3> QED
      BY <1>1, <2>0, <3>1, StopBegins, Zenon
  <2>2. ASSUME NEW r \in RFs, SmStops(r) PROVE Steps' < Steps
    <3>1. /\ r \in sm_running /\ SmStop("ctl", r) /\ agent = "started"
          /\ call["ctl"].at = "none"
          /\ UNCHANGED <<mainVars, g_running, scope, sm, pipeVars>>
      BY <2>2, Zenon DEF SmStops, At
    <3>2. call["main"].at = "none"
      BY <1>1, <3>1, Parts, Zenon DEF CallInv, MainInv, Ending
    <3> QED
      BY <1>1, <2>0, <3>1, <3>2, StopBegins, Zenon
  <2>3. ASSUME NEW r \in RFs, WorkerExits(r) PROVE Steps' < Steps
    <3>1. workers' = workers - 1
      BY <2>3, Counts, Zenon DEF WorkerExits, workers
    <3>2. UNCHANGED <<mainLeft, owned, callLeft, running_sms, signals>>
      BY <2>3, Zenon
         DEF WorkerExits, mainLeft, owned, callLeft, Current, running_sms, signals,
             mainVars
    <3> QED
      BY <1>1, <3>1, <3>2, Falls, Zenon
  <2>4. ASSUME Signal PROVE Steps' < Steps
    <3>1. CASE main_pc' = "exited"
      BY <1>1, <2>4, <3>1, MainFalls, Zenon
    <3>2. CASE g_running /\ g_running' = FALSE /\ UNCHANGED main_pc
      <4>1. signals' < signals
        BY <3>2 DEF signals
      <4>2. UNCHANGED <<mainLeft, owned, callLeft, running_sms, workers>>
        BY <2>4, <3>2, Zenon
           DEF Signal, mainLeft, owned, callLeft, Current, running_sms, workers,
               otherVars, pipeVars
      <4> QED
        BY <1>1, <4>1, <4>2, Falls, Zenon
    <3> QED
      BY <2>4, <3>1, <3>2, Zenon DEF Signal
  <2>5. CASE Main
    BY <1>1, <2>0, <2>1, <2>5, MainFalls, DestructorFalls, CallFalls, Zenon
       DEF Main, StartsUp
  <2>6. CASE LibE3
    BY <1>1, <2>0, <2>2, <2>6, CallFalls, Zenon DEF LibE3
  <2> QED
    BY <1>1, <2>3, <2>4, <2>5, <2>6, Zenon DEF Next
<1>2. Init => AgentInv
  BY Zenon DEF Init, AgentInv, Stopped
<1>3. ASSUME AgentInv, [Next]_vars
      PROVE  /\ AgentInv'
             /\ agent \in Stopped => agent' \in Stopped /\ ~\E rf \in RFs : SmStarts(rf)
  BY <1>3, AgentStays, Zenon
<1>4. IInv => Steps \in Nat
  <2> SUFFICES ASSUME IInv PROVE Steps \in Nat
    BY Zenon
  <2>1. Measured
    BY StepsMeasured, Zenon
  <2> QED
    BY <2>1 DEF Measured, Steps
<1> QED
  BY <1>1, <1>2, <1>3, <1>4, ControllerInductive, PTL DEF Spec, Winds
=============================================================================
