-------------------------- MODULE PipelineSession ---------------------------
(***************************************************************************)
(* What start() and stop() of a pipeline promise those around it: libe3's  *)
(* thread and main, who call them, the dispatcher, which delivers buffers  *)
(* to a registered stream, and the gNB, whose codelets they load.  The     *)
(* codelets come first, then the worker, and the stream "LAST so we only   *)
(* start receiving once the worker is alive" (iq_pipeline.cpp:173); stop() *)
(* goes the same way back.  A pipeline has one caller at a time.           *)
(***************************************************************************)

VARIABLES
    inside,        \* the call in progress: "none", "start" or "stop"
    codelets,      \* the codelets are loaded, as codelets_loaded_ or the gNB has it
    running,       \* running_
    worker,        \* the worker thread exists
    registered     \* the dispatcher has the stream's handler

sessionVars == <<inside, codelets, running, worker, registered>>

Down == ~running /\ ~worker /\ ~registered
Up == running /\ worker /\ registered

Init == inside = "none" /\ ~codelets /\ Down

\* start() is called; a load it asks for may have succeeded already.
StartCalled ==
    /\ inside = "none" /\ inside' = "start"
    /\ \/ codelets' = codelets
       \/ Down /\ codelets'
    /\ UNCHANGED <<running, worker, registered>>

Load ==
    /\ inside = "start" /\ Down
    /\ codelets'
    /\ UNCHANGED <<inside, running, worker, registered>>

Boot ==
    /\ inside = "start" /\ Down
    /\ running' /\ worker'
    /\ UNCHANGED <<inside, codelets, registered>>

\* The last step of start().
Register ==
    /\ inside = "start" /\ running /\ worker /\ ~registered
    /\ registered'
    /\ inside' = "none"
    /\ UNCHANGED <<codelets, running, worker>>

\* start() found the pipeline running, or the load failed.
StartReturns ==
    /\ inside = "start" /\ (Up \/ Down)
    /\ inside' = "none"
    /\ UNCHANGED <<codelets, running, worker, registered>>

StopCalled ==
    /\ inside = "none" /\ inside' = "stop"
    /\ UNCHANGED <<codelets, running, worker, registered>>

Unregister ==
    /\ inside = "stop" /\ Up
    /\ ~registered'
    /\ UNCHANGED <<inside, codelets, running, worker>>

SignalWorker ==
    /\ inside = "stop" /\ running /\ ~registered
    /\ ~running'
    /\ UNCHANGED <<inside, codelets, worker, registered>>

\* The worker ends in no other place than inside stop().
WorkerExits ==
    /\ inside = "stop" /\ worker /\ ~running
    /\ ~worker'
    /\ UNCHANGED <<inside, codelets, running, registered>>

\* stop() returns, once it has asked for its codelets to be unloaded; the
\* request may fail.
StopReturns ==
    /\ inside = "stop" /\ Down
    /\ inside' = "none"
    /\ codelets' => codelets
    /\ UNCHANGED <<running, worker, registered>>

Next ==
    \/ StartCalled \/ Load \/ Boot \/ Register \/ StartReturns
    \/ StopCalled \/ Unregister \/ SignalWorker \/ WorkerExits \/ StopReturns

Spec == Init /\ [][Next]_sessionVars

-----------------------------------------------------------------------------
\* What is delivered has a worker to take it; between the calls a pipeline is
\* all up or all down.
Promise ==
    /\ registered => running /\ worker
    /\ inside = "none" => Up \/ Down

\* The codelets come and go only under a pipeline that is down.
CodeletsStay == [][(codelets' # codelets) => Down /\ Down']_sessionVars
=============================================================================
