-------------------------- MODULE E3SMLayer1Proofs --------------------------
(***************************************************************************)
(* The safety of the L1-KPM service model for every set of dApps, every    *)
(* configured geometry and every geometry a gNB may report, and any number *)
(* of slots and sessions.                                                  *)
(*                                                                         *)
(* Each property is carried by what the code keeps between the calls:      *)
(* running_ is clear wherever the control thread is past stop(); a slot    *)
(* under way has passed the geometry check, whose verdict never changes;   *)
(* a dApp in the snapshot has been sent nothing since it left; a one-shot  *)
(* warning that is spent has been given in this session; each call of      *)
(* on_sample ends in the sequence number or in one of the refusals.        *)
(*                                                                         *)
(* At the end, what follows for the whole life of the service model: the   *)
(* verdict on the geometry is never taken back.                            *)
(***************************************************************************)
EXTENDS E3SMLayer1, TLAPS

\* The control thread is where running_ cannot be set.
Stopped == {"boot", "sm_up", "join", "destroy_join", "close", "destroyed"}

SessionInv ==
    /\ ctl_pc \in Stopped => ~running
    /\ ctl_pc \in {"close", "destroyed"} => pc = "idle"
    /\ ctl_pc # "destroyed" => shm_open
    /\ HandledWithinSession

GeometryInv ==
    /\ geometry_checked => geometry_ok = validate_against_ran(first_geo)
    /\ pc # "idle" => geometry_checked /\ geometry_ok
    /\ slot_publish_seq > 0 => geometry_checked /\ geometry_ok

LateInv ==
    /\ \A d \in subscribers : late[d] = 0
    /\ pc \in {"encode", "emit"} => \A d \in subs : late[d] = 0
    /\ AtMostOneLate

WarningInv ==
    /\ truncated_warned \/ writer_mode_warned => warned
    /\ RefusalIsAnnounced

Inv ==
    /\ TypeOK /\ AccountingExact
    /\ SessionInv /\ GeometryInv /\ LateInv /\ WarningInv

-----------------------------------------------------------------------------
\* The verdict of the geometry check is one of the two truth values.
LEMMA VerdictIsBoolean == \A g : validate_against_ran(g) \in BOOLEAN
  BY Zenon DEF validate_against_ran

\* A slot that passes the checks of on_sample found running_ set and the
\* geometry confirmed.
LEMMA PassMeansChecked ==
    \A s : Verdict(s) = "pass" => running /\ ~Filtered(s) /\ GeometryOk(s)
  BY Zenon DEF Verdict

\* Every reason to refuse a slot before it asks for subscribers.
LEMMA VerdictRange ==
    \A s : Verdict(s) \in {"NotRunning", "SlotFiltered", "GeometryMismatch",
                           "NoIq", "BlobTooSmall", "RanPublishedNothing", "pass"}
  BY Zenon DEF Verdict

\* note_drop() keeps the counters counters.
LEMMA DropsStay ==
    \A r \in Drop :
        drops \in [Drop -> Nat] /\ NoteDrop(r) => drops' \in [Drop -> Nat]
  BY DEF NoteDrop

\* init() leaves a state that satisfies the invariant.
LEMMA InitInv == Init => Inv
<1> SUFFICES ASSUME Init PROVE Inv
  BY Zenon
<1> USE DEF Init
<1>1. TypeOK
  BY Zenon DEF TypeOK
<1>2. SessionInv
  BY Zenon DEF SessionInv, Stopped, HandledWithinSession
<1>3. GeometryInv
  <2>1. ~geometry_checked /\ pc = "idle" /\ ~(slot_publish_seq > 0)
    OBVIOUS
  <2> QED
    BY <2>1, Zenon DEF GeometryInv
<1>4. LateInv
  BY DEF LateInv, AtMostOneLate
<1>5. WarningInv
  BY Zenon DEF WarningInv, RefusalIsAnnounced
<1>6. AccountingExact
  BY DEF AccountingExact, Refusals, Drop
<1> QED
  BY <1>1, <1>2, <1>3, <1>4, <1>5, <1>6, Zenon DEF Inv

-----------------------------------------------------------------------------
\* Every step keeps the types.
LEMMA TypeStep == TypeOK /\ [Next]_vars => TypeOK'
<1> SUFFICES ASSUME TypeOK, [Next]_vars PROVE TypeOK'
  BY Zenon
<1> USE DEF TypeOK
<1>1. CASE OnSample
  <2>1. PICK s \in Samples :
           /\ CheckGeometry(s) /\ Warn(Verdict(s))
           /\ \/ slot' = s /\ pc' = "subs" /\ UNCHANGED drops
              \/ Verdict(s) # "pass" /\ NoteDrop(Verdict(s)) /\ UNCHANGED <<slot, pc>>
    BY <1>1, Zenon DEF OnSample
  <2>2. s.geo = ran_geom
    BY <2>1 DEF Samples
  <2>3. geometry_checked' \in BOOLEAN /\ geometry_ok' \in BOOLEAN
    BY <2>1, VerdictIsBoolean, Zenon DEF CheckGeometry, GeometryOk
  <2>4. first_geo' \in RanGeoms
    BY <2>1, <2>2, Zenon DEF CheckGeometry
  <2>5. /\ truncated_warned' \in BOOLEAN /\ writer_mode_warned' \in BOOLEAN
        /\ refused' \in BOOLEAN /\ warned' \in BOOLEAN
    BY <2>1, Zenon DEF Warn
  <2>6. drops' \in [Drop -> Nat]
    <3>1. Verdict(s) # "pass" => Verdict(s) \in Drop
      BY VerdictRange, Zenon DEF Drop
    <3> QED
      BY <2>1, <3>1, DropsStay, Zenon
  <2>7. slot'.geo \in RanGeoms /\ pc' \in {"idle", "subs", "encode", "emit"}
    BY <2>1, <2>2, Zenon
  <2> QED
    BY <1>1, <2>3, <2>4, <2>5, <2>6, <2>7 DEF OnSample, ctlVars
<1>2. CASE Snapshot
  <2>1. drops' \in [Drop -> Nat]
    BY <1>2, DropsStay, Zenon DEF Snapshot, Drop
  <2> QED
    BY <1>2, <2>1 DEF Snapshot, ctlVars, warnVars, geometryVars
<1>3. CASE Encode
  <2>1. drops' \in [Drop -> Nat]
    BY <1>3, DropsStay, Zenon DEF Encode, Drop
  <2> QED
    BY <1>3, <2>1 DEF Encode, ctlVars, warnVars, geometryVars
<1>4. ASSUME NEW d \in DApps, Emit(d) PROVE TypeOK'
  <2>1. drops' \in [Drop -> Nat]
    BY <1>4, DropsStay, Zenon DEF Emit, Drop
  <2> QED
    BY <1>4, <2>1 DEF Emit, ctlVars, warnVars, geometryVars
<1>5. CASE EmitTail
  BY <1>5 DEF EmitTail, ctlVars, warnVars, smVars, geometryVars
<1> USE DEF warnVars, smVars, geometryVars, sampleVars
<1>c1. CASE Start
  <2>1. ctl_pc' \in {"idle", "boot"} /\ sessions' \in Nat
    BY <1>c1 DEF Start
  <2>2. /\ truncated_warned' \in BOOLEAN /\ writer_mode_warned' \in BOOLEAN
        /\ refused' \in BOOLEAN /\ warned' \in BOOLEAN
    BY <1>c1, Zenon DEF Start
  <2> QED
    BY <1>c1, <2>1, <2>2, Zenon DEF Start
<1>c2. CASE Boot
  BY <1>c2, ZenonT(60) DEF Boot
<1>c3. CASE BootFails
  BY <1>c3 DEF BootFails
<1>c4. CASE SmUp
  BY <1>c4, ZenonT(60) DEF SmUp
<1>c5. CASE Stop
  <2>1. ctl_pc' \in {"join", "idle"} /\ running' \in BOOLEAN
    BY <1>c5, Zenon DEF Stop
  <2> QED
    BY <1>c5, <2>1 DEF Stop
<1>c6. CASE JoinWorker
  BY <1>c6, Zenon DEF JoinWorker
<1>c7. CASE Close
  BY <1>c7, ZenonT(60) DEF Close
<1>6. CASE Destroy
  BY <1>6, ZenonT(60) DEF Destroy
<1>7. CASE GnbRestart
  BY <1>7, ZenonT(60) DEF GnbRestart
<1>8. ASSUME NEW d \in DApps, Subscribe(d) \/ Unsubscribe(d) PROVE TypeOK'
  BY <1>8 DEF Subscribe, Unsubscribe
<1>9. CASE UNCHANGED vars
  BY <1>9 DEF vars, ctlVars
<1> QED
  BY <1>1, <1>2, <1>3, <1>4, <1>5, <1>c1, <1>c2, <1>c3, <1>c4, <1>c5, <1>c6,
     <1>c7, <1>6, <1>7, <1>8, <1>9, Zenon
     DEF Next, Worker, Control

\* A slot is only taken while running_ is set, and stop() joins the worker
\* before anything is closed.
LEMMA SessionStep == TypeOK /\ SessionInv /\ [Next]_vars => SessionInv'
<1> SUFFICES ASSUME TypeOK, SessionInv, [Next]_vars PROVE SessionInv'
  BY Zenon
<1> USE DEF TypeOK, SessionInv, HandledWithinSession, Stopped,
            ctlVars, sampleVars
<1>1. CASE OnSample
  <2>1. PICK s \in Samples : (Verdict(s) = "pass" /\ pc' = "subs") \/ UNCHANGED pc
    BY <1>1, Zenon DEF OnSample
  <2>2. UNCHANGED pc \/ running
    BY <2>1, PassMeansChecked, Zenon
  <2> QED
    BY <1>1, <2>2, Zenon DEF OnSample
<1>2. CASE Snapshot
  BY <1>2, Zenon DEF Snapshot
<1>3. CASE Encode
  BY <1>3, Zenon DEF Encode
<1>4. ASSUME NEW d \in DApps, Emit(d) PROVE SessionInv'
  BY <1>4, Zenon DEF Emit
<1>5. CASE EmitTail
  BY <1>5, Zenon DEF EmitTail
<1>c1. CASE Start
  BY <1>c1, Zenon DEF Start
<1>c2. CASE Boot
  BY <1>c2, Zenon DEF Boot
<1>c3. CASE BootFails
  BY <1>c3, Zenon DEF BootFails
<1>c4. CASE SmUp
  BY <1>c4, Zenon DEF SmUp
<1>c5. CASE Stop
  BY <1>c5, Zenon DEF Stop
<1>c6. CASE JoinWorker
  BY <1>c6, Zenon DEF JoinWorker
<1>c7. CASE Close
  BY <1>c7, Zenon DEF Close
<1>6. CASE Destroy
  BY <1>6, Zenon DEF Destroy
<1>7. CASE GnbRestart
  BY <1>7, Zenon DEF GnbRestart
<1>8. ASSUME NEW d \in DApps, Subscribe(d) \/ Unsubscribe(d) PROVE SessionInv'
  BY <1>8, Zenon DEF Subscribe, Unsubscribe
<1>9. CASE UNCHANGED vars
  BY <1>9, Zenon DEF vars
<1> QED
  BY <1>1, <1>2, <1>3, <1>4, <1>5, <1>c1, <1>c2, <1>c3, <1>c4, <1>c5, <1>c6,
     <1>c7, <1>6, <1>7, <1>8, <1>9, Zenon
     DEF Next, Worker, Control

\* The first slot that gets to the check decides, and nothing changes the
\* verdict; only slots that passed it are numbered.
LEMMA GeometryStep == TypeOK /\ GeometryInv /\ [Next]_vars => GeometryInv'
<1> SUFFICES ASSUME TypeOK, GeometryInv, [Next]_vars PROVE GeometryInv'
  BY Zenon
<1> USE DEF TypeOK, GeometryInv, validate_against_ran,
            smVars, geometryVars, sampleVars
<1>1. CASE OnSample
  <2>1. PICK s \in Samples :
           /\ CheckGeometry(s)
           /\ (Verdict(s) = "pass" /\ pc' = "subs") \/ (UNCHANGED pc)
    BY <1>1, Zenon DEF OnSample
  <2>2. pc = "idle" /\ UNCHANGED slot_publish_seq
    BY <1>1, Zenon DEF OnSample
  <2>3. geometry_checked' => geometry_ok' = validate_against_ran(first_geo')
    BY <2>1, Zenon DEF CheckGeometry, GeometryOk
  <2>4. geometry_checked => geometry_checked' /\ geometry_ok' = geometry_ok
    BY <2>1, Zenon DEF CheckGeometry, GeometryOk
  <2>5. pc' # "idle" => geometry_checked' /\ geometry_ok'
    BY <2>1, <2>2, PassMeansChecked, Zenon DEF CheckGeometry
  <2> QED
    BY <2>2, <2>3, <2>4, <2>5, Zenon DEF validate_against_ran
<1>2. CASE Snapshot
  BY <1>2, Zenon DEF Snapshot
<1>3. CASE Encode
  BY <1>3, Zenon DEF Encode
<1>4. ASSUME NEW d \in DApps, Emit(d) PROVE GeometryInv'
  BY <1>4, Zenon DEF Emit
<1>5. CASE EmitTail
  BY <1>5, Zenon DEF EmitTail
<1>c1. CASE Start
  BY <1>c1, Zenon DEF Start
<1>c2. CASE Boot
  BY <1>c2, Zenon DEF Boot
<1>c3. CASE BootFails
  BY <1>c3, Zenon DEF BootFails
<1>c4. CASE SmUp
  BY <1>c4, Zenon DEF SmUp
<1>c5. CASE Stop
  BY <1>c5, Zenon DEF Stop
<1>c6. CASE JoinWorker
  BY <1>c6, Zenon DEF JoinWorker
<1>c7. CASE Close
  BY <1>c7, Zenon DEF Close
<1>6. CASE Destroy
  BY <1>6, Zenon DEF Destroy
<1>7. CASE GnbRestart
  BY <1>7, Zenon DEF GnbRestart
<1>8. ASSUME NEW d \in DApps, Subscribe(d) \/ Unsubscribe(d) PROVE GeometryInv'
  BY <1>8, Zenon DEF Subscribe, Unsubscribe
<1>9. CASE UNCHANGED vars
  BY <1>9, Zenon DEF vars
<1> QED
  BY <1>1, <1>2, <1>3, <1>4, <1>5, <1>c1, <1>c2, <1>c3, <1>c4, <1>c5, <1>c6,
     <1>c7, <1>6, <1>7, <1>8, <1>9, Zenon
     DEF Next, Worker, Control

\* The snapshot is taken among the subscribers, none of which is owed
\* anything, and a dApp leaves it with the slot it is sent.
LEMMA LateStep == TypeOK /\ LateInv /\ [Next]_vars => LateInv'
<1> SUFFICES ASSUME TypeOK, LateInv, [Next]_vars PROVE LateInv'
  BY Zenon
<1> USE DEF TypeOK, LateInv, AtMostOneLate, ctlVars, sampleVars
<1>1. CASE OnSample
  BY <1>1, Zenon DEF OnSample
<1>2. CASE Snapshot
  BY <1>2, Zenon DEF Snapshot
<1>3. CASE Encode
  BY <1>3, Zenon DEF Encode
<1>4. ASSUME NEW d \in DApps, Emit(d) PROVE LateInv'
  BY <1>4 DEF Emit
<1>5. CASE EmitTail
  BY <1>5, Zenon DEF EmitTail
<1>c1. CASE Start
  BY <1>c1, Zenon DEF Start
<1>c2. CASE Boot
  BY <1>c2, Zenon DEF Boot
<1>c3. CASE BootFails
  BY <1>c3, Zenon DEF BootFails
<1>c4. CASE SmUp
  BY <1>c4, Zenon DEF SmUp
<1>c5. CASE Stop
  BY <1>c5, Zenon DEF Stop
<1>c6. CASE JoinWorker
  BY <1>c6, Zenon DEF JoinWorker
<1>c7. CASE Close
  BY <1>c7, Zenon DEF Close
<1>6. CASE Destroy
  BY <1>6, Zenon DEF Destroy
<1>7. CASE GnbRestart
  BY <1>7, Zenon DEF GnbRestart
<1>8. ASSUME NEW d \in DApps, Subscribe(d) \/ Unsubscribe(d) PROVE LateInv'
  BY <1>8 DEF Subscribe, Unsubscribe
<1>9. CASE UNCHANGED vars
  BY <1>9, Zenon DEF vars
<1> QED
  BY <1>1, <1>2, <1>3, <1>4, <1>5, <1>c1, <1>c2, <1>c3, <1>c4, <1>c5, <1>c6,
     <1>c7, <1>6, <1>7, <1>8, <1>9, Zenon
     DEF Next, Worker, Control

\* A warning is spent only when it is given, and start() restores them all
\* together.
LEMMA WarningStep == TypeOK /\ WarningInv /\ [Next]_vars => WarningInv'
<1> SUFFICES ASSUME TypeOK, WarningInv, [Next]_vars PROVE WarningInv'
  BY Zenon
<1> USE DEF TypeOK, WarningInv, RefusalIsAnnounced, warnVars
<1>1. CASE OnSample
  <2>1. PICK s \in Samples : Warn(Verdict(s))
    BY <1>1, Zenon DEF OnSample
  <2> QED
    BY <2>1, Zenon DEF Warn
<1>2. CASE Snapshot
  BY <1>2, Zenon DEF Snapshot
<1>3. CASE Encode
  BY <1>3, Zenon DEF Encode
<1>4. ASSUME NEW d \in DApps, Emit(d) PROVE WarningInv'
  BY <1>4, Zenon DEF Emit
<1>5. CASE EmitTail
  BY <1>5, Zenon DEF EmitTail
<1>c1. CASE Start
  BY <1>c1, Zenon DEF Start
<1>c2. CASE Boot
  BY <1>c2, Zenon DEF Boot
<1>c3. CASE BootFails
  BY <1>c3, Zenon DEF BootFails
<1>c4. CASE SmUp
  BY <1>c4, Zenon DEF SmUp
<1>c5. CASE Stop
  BY <1>c5, Zenon DEF Stop
<1>c6. CASE JoinWorker
  BY <1>c6, Zenon DEF JoinWorker
<1>c7. CASE Close
  BY <1>c7, Zenon DEF Close
<1>6. CASE Destroy
  BY <1>6, Zenon DEF Destroy
<1>7. CASE GnbRestart
  BY <1>7, Zenon DEF GnbRestart
<1>8. ASSUME NEW d \in DApps, Subscribe(d) \/ Unsubscribe(d) PROVE WarningInv'
  BY <1>8 DEF Subscribe, Unsubscribe
<1>9. CASE UNCHANGED vars
  BY <1>9, Zenon DEF vars
<1> QED
  BY <1>1, <1>2, <1>3, <1>4, <1>5, <1>c1, <1>c2, <1>c3, <1>c4, <1>c5, <1>c6,
     <1>c7, <1>6, <1>7, <1>8, <1>9, Zenon
     DEF Next, Worker, Control

\* Each call of on_sample ends in one counter.
LEMMA AccountingStep == AccountingExact /\ TypeOK /\ [Next]_vars => AccountingExact'
<1> SUFFICES ASSUME AccountingExact, TypeOK, [Next]_vars PROVE AccountingExact'
  BY Zenon
<1> USE DEF TypeOK, AccountingExact, Refusals, Drop, smVars, sampleVars
<1>1. CASE OnSample
  <2>1. PICK s \in Samples :
           \/ Verdict(s) = "pass" /\ pc' = "subs" /\ UNCHANGED drops
           \/ Verdict(s) # "pass" /\ NoteDrop(Verdict(s)) /\ UNCHANGED pc
    BY <1>1, Zenon DEF OnSample
  <2>2. pc = "idle" /\ arrivals' = arrivals + 1 /\ UNCHANGED slot_publish_seq
    BY <1>1, Zenon DEF OnSample
  <2>3. CASE Verdict(s) = "pass"
    BY <2>1, <2>2, <2>3
  <2>4. ASSUME Verdict(s) # "pass" PROVE AccountingExact'
    <3>1. drops' = [drops EXCEPT ![Verdict(s)] = @ + 1] /\ UNCHANGED pc
      BY <2>1, <2>4, Zenon DEF NoteDrop
    <3>2. Verdict(s) \in {"NotRunning", "SlotFiltered", "GeometryMismatch",
                          "NoIq", "BlobTooSmall", "RanPublishedNothing"}
      BY <2>4, VerdictRange, Zenon
    <3>3. Refusals' = Refusals + 1 /\ drops' \in [Drop -> Nat]
      BY <3>1, <3>2
    <3> QED
      BY <2>2, <3>1, <3>3
  <2> QED
    BY <2>3, <2>4, Zenon
<1>2. CASE Snapshot
  BY <1>2 DEF Snapshot, NoteDrop
<1>3. CASE Encode
  BY <1>3, Zenon DEF Encode, NoteDrop
<1>4. ASSUME NEW d \in DApps, Emit(d) PROVE AccountingExact'
  BY <1>4, Zenon DEF Emit, NoteDrop
<1>5. CASE EmitTail
  BY <1>5, Zenon DEF EmitTail
<1>c1. CASE Start
  BY <1>c1, Zenon DEF Start
<1>c2. CASE Boot
  BY <1>c2, Zenon DEF Boot
<1>c3. CASE BootFails
  BY <1>c3, Zenon DEF BootFails
<1>c4. CASE SmUp
  BY <1>c4, Zenon DEF SmUp
<1>c5. CASE Stop
  BY <1>c5, Zenon DEF Stop
<1>c6. CASE JoinWorker
  BY <1>c6, Zenon DEF JoinWorker
<1>c7. CASE Close
  BY <1>c7, Zenon DEF Close
<1>6. CASE Destroy
  BY <1>6, Zenon DEF Destroy
<1>7. CASE GnbRestart
  BY <1>7, Zenon DEF GnbRestart
<1>8. ASSUME NEW d \in DApps, Subscribe(d) \/ Unsubscribe(d) PROVE AccountingExact'
  BY <1>8, Zenon DEF Subscribe, Unsubscribe
<1>9. CASE UNCHANGED vars
  BY <1>9, Zenon DEF vars
<1> QED
  BY <1>1, <1>2, <1>3, <1>4, <1>5, <1>c1, <1>c2, <1>c3, <1>c4, <1>c5, <1>c6,
     <1>c7, <1>6, <1>7, <1>8, <1>9, Zenon
     DEF Next, Worker, Control

-----------------------------------------------------------------------------
\* The invariant holds in every state the service model reaches.
THEOREM Inductive == Spec => []Inv
<1>1. Inv /\ [Next]_vars => Inv'
  BY TypeStep, SessionStep, GeometryStep, LateStep, WarningStep,
     AccountingStep, Zenon
     DEF Inv
<1> QED
  BY InitInv, <1>1, PTL DEF Spec

\* Every slot handed to on_sample() is numbered or counted under one reason.
THEOREM NoSlotUnaccounted == Spec => []AccountingExact
<1>1. Inv => AccountingExact
  BY Zenon DEF Inv
<1> QED
  BY Inductive, <1>1, PTL

\* A slot that on_sample() accepted is handled before stop() or destroy()
\* returns, with the region open, however many dApps it is sent to.
THEOREM SlotsStayInSession == Spec => []HandledWithinSession
<1>1. Inv => HandledWithinSession
  BY Zenon DEF Inv, SessionInv
<1> QED
  BY Inductive, <1>1, PTL

\* Nothing is published against a geometry that the first slot to be checked
\* contradicted, whatever geometry the gNB reports.
THEOREM GeometryIsLatched == Spec => []MismatchRefused
<1>1. Inv => MismatchRefused
  BY Zenon DEF Inv, GeometryInv, MismatchRefused
<1> QED
  BY Inductive, <1>1, PTL

\* A dApp is sent at most one slot after it left, however many there are.
THEOREM LateAtMostOnce == Spec => []AtMostOneLate
<1>1. Inv => AtMostOneLate
  BY Zenon DEF Inv, LateInv
<1> QED
  BY Inductive, <1>1, PTL

\* A session that refused a slot for want of a row has said so.
THEOREM RefusalsAreVisible == Spec => []RefusalIsAnnounced
<1>1. Inv => RefusalIsAnnounced
  BY Zenon DEF Inv, WarningInv
<1> QED
  BY Inductive, <1>1, PTL

-----------------------------------------------------------------------------
(* The verdict on the geometry is final. *)

\* The first slot to be checked contradicted the configuration.
Mismatch == geometry_checked /\ ~geometry_ok

\* No step takes the verdict back, whatever the gNB reports afterwards and
\* however often the session is restarted: start() does not reset it.
VerdictStays ==
    geometry_checked => /\ geometry_checked' /\ geometry_ok' = geometry_ok
                        /\ first_geo' = first_geo

\* What is counted after a slot was numbered: an encoding fails at most once for
\* each number, an indication at most once for each call of emit_outbound, and
\* nothing is emitted before a slot was encoded.
Open == IF pc \in {"encode", "emit"} THEN 1 ELSE 0
CounterInv ==
    /\ drops["EncodeFailed"] + Open <= slot_publish_seq
    /\ drops["EmitFailed"] <= emitted
    /\ slot_publish_seq = 0 => emitted = 0

\* Only on_sample() touches the verdict, and it keeps one that is there.
LEMMA VerdictStep == ASSUME [Next]_vars PROVE VerdictStays
<1>1. CASE OnSample
  <2>1. PICK s \in Samples : CheckGeometry(s)
    BY <1>1, Zenon DEF OnSample
  <2> QED
    BY <2>1, Zenon DEF VerdictStays, CheckGeometry, GeometryOk
<1>2. CASE UNCHANGED <<geometry_checked, geometry_ok, first_geo>>
  BY <1>2, Zenon DEF VerdictStays
<1> QED
  BY <1>1, <1>2, Zenon
     DEF Next, Worker, Snapshot, Encode, Emit, EmitTail, Control, Start, Boot,
         BootFails, SmUp, Stop, JoinWorker, Close, Destroy, GnbRestart, Subscribe,
         Unsubscribe, vars, smVars, geometryVars

\* The verdict never changes once it is there.
THEOREM VerdictIsFinal == Spec => [][VerdictStays]_vars
  BY VerdictStep, PTL DEF Spec

\* What note_drop() does to one counter and to the others.
LEMMA DropCounts ==
    ASSUME TypeOK, NEW r \in Drop, NoteDrop(r), NEW x \in Drop
    PROVE  /\ drops[x] \in Nat
           /\ drops'[x] = IF x = r THEN drops[x] + 1 ELSE drops[x]
<1>1. drops \in [Drop -> Nat] /\ drops' = [drops EXCEPT ![r] = @ + 1]
  BY Zenon DEF TypeOK, NoteDrop
<1> QED
  BY <1>1, Zenon

\* Each step keeps the counters consistent.
LEMMA CounterStep == ASSUME TypeOK, CounterInv, [Next]_vars PROVE CounterInv'
<1> DEFINE f == drops["EncodeFailed"]
           e == drops["EmitFailed"]
<1>1. "EncodeFailed" \in Drop /\ "EmitFailed" \in Drop
  BY Zenon DEF Drop
<1>2. /\ f \in Nat /\ e \in Nat /\ slot_publish_seq \in Nat /\ emitted \in Nat
      /\ f + Open <= slot_publish_seq /\ e <= emitted
      /\ slot_publish_seq = 0 => emitted = 0
  BY <1>1, Zenon DEF TypeOK, CounterInv
<1>3. CASE OnSample
  <2>1. PICK s \in Samples :
           \/ Verdict(s) = "pass" /\ pc' = "subs" /\ UNCHANGED drops
           \/ Verdict(s) # "pass" /\ NoteDrop(Verdict(s)) /\ UNCHANGED pc
    BY <1>3, Zenon DEF OnSample
  <2>2. UNCHANGED <<slot_publish_seq, emitted>> /\ Open' = Open
    BY <1>3, <2>1, Zenon DEF OnSample, Open
  <2>3. f' = f /\ e' = e
    <3>1. CASE Verdict(s) = "pass"
      BY <2>1, <3>1, Zenon
    <3>2. CASE Verdict(s) # "pass"
      <4>1. /\ Verdict(s) \in Drop
            /\ Verdict(s) # "EncodeFailed" /\ Verdict(s) # "EmitFailed"
        BY <3>2, VerdictRange, Zenon DEF Drop
      <4> QED
        BY <1>1, <2>1, <3>2, <4>1, DropCounts, Zenon
    <3> QED
      BY <3>1, <3>2, Zenon
  <2> QED
    BY <1>2, <2>2, <2>3, Zenon DEF CounterInv
<1>4. CASE Snapshot
  <2>1. Open = 0 /\ emitted' = emitted
    BY <1>4, Zenon DEF Snapshot, Open
  <2>2. CASE NoteDrop("NoSubscribers") /\ pc' = "idle" /\ UNCHANGED slot_publish_seq
    <3>1. f' = f /\ e' = e /\ Open' = 0
      <4>1. "NoSubscribers" \in Drop
        BY Zenon DEF Drop
      <4> QED
        BY <1>1, <2>2, <4>1, DropCounts, Zenon DEF Open
    <3> QED
      BY <1>2, <2>1, <2>2, <3>1, Zenon DEF CounterInv
  <2>3. CASE slot_publish_seq' = slot_publish_seq + 1 /\ pc' = "encode"
             /\ UNCHANGED drops
    <3>1. f' = f /\ e' = e /\ Open' = 1
      BY <2>3, Zenon DEF Open
    <3> HIDE DEF f, e
    <3>2. f' + Open' <= slot_publish_seq' /\ slot_publish_seq' # 0
      BY <1>2, <2>1, <2>3, <3>1
    <3> QED
      BY <1>2, <2>1, <3>1, <3>2, Zenon DEF CounterInv, f, e
  <2> QED
    BY <1>4, <2>2, <2>3, Zenon DEF Snapshot
<1>5. CASE Encode
  <2>1. Open = 1 /\ UNCHANGED <<emitted, slot_publish_seq>>
    BY <1>5, Zenon DEF Encode, Open
  <2>2. CASE pc' = "emit" /\ UNCHANGED drops
    <3>1. f' = f /\ e' = e /\ Open' = 1
      BY <2>2, Zenon DEF Open
    <3> QED
      BY <1>2, <2>1, <3>1, Zenon DEF CounterInv
  <2>3. CASE pc' = "idle" /\ NoteDrop("EncodeFailed")
    <3>1. f' = f + 1 /\ e' = e /\ Open' = 0
      BY <1>1, <2>3, DropCounts, Zenon DEF Open
    <3> HIDE DEF f, e
    <3>2. f' + Open' <= slot_publish_seq
      BY <1>2, <2>1, <3>1
    <3> QED
      BY <1>2, <2>1, <3>1, <3>2, Zenon DEF CounterInv, f, e
  <2> QED
    BY <1>5, <2>2, <2>3, Zenon DEF Encode
<1>6. ASSUME NEW d \in DApps, Emit(d) PROVE CounterInv'
  <2>1. /\ Open = 1 /\ Open' = 1 /\ slot_publish_seq' = slot_publish_seq
        /\ emitted' = emitted + 1
    BY <1>6, Zenon DEF Emit, Open, geometryVars
  <2>2. f' = f /\ (e' = e \/ e' = e + 1)
    BY <1>1, <1>6, DropCounts, Zenon DEF Emit
  <2> HIDE DEF f, e
  <2>3. slot_publish_seq # 0 /\ e' <= emitted'
    BY <1>2, <2>1, <2>2
  <2> QED
    BY <1>2, <2>1, <2>2, <2>3, Zenon DEF CounterInv, f, e
<1>7. CASE EmitTail
  <2>1. /\ Open = 1 /\ Open' = 0 /\ f' = f /\ e' = e
        /\ UNCHANGED <<slot_publish_seq, emitted>>
    BY <1>7, Zenon DEF EmitTail, Open, smVars
  <2> HIDE DEF f, e
  <2>2. f + 0 <= slot_publish_seq
    BY <1>2, <2>1
  <2> QED
    BY <1>2, <2>1, <2>2, Zenon DEF CounterInv, f, e
<1>8. CASE UNCHANGED <<drops, pc, slot_publish_seq, emitted>>
  BY <1>8, Zenon DEF CounterInv, Open
<1> QED
  BY <1>3, <1>4, <1>5, <1>6, <1>7, <1>8, Zenon
     DEF Next, Worker, Control, Start, Boot, BootFails, SmUp, Stop, JoinWorker,
         Close, Destroy, GnbRestart, Subscribe, Unsubscribe, vars, smVars,
         sampleVars

\* The counters of the tail of on_sample() are consistent with the numbers given
\* out: slot_publish_seq less encode_failed is what was encoded or is under way.
THEOREM CountersAreConsistent == Spec => []CounterInv
<1>1. Init => CounterInv
  BY DEF Init, CounterInv, Open, Drop
<1>2. Inv => TypeOK
  BY Zenon DEF Inv
<1> QED
  BY <1>1, <1>2, CounterStep, Inductive, PTL DEF Spec

\* A mismatch silences the service model for good: from the slot that was found
\* to contradict the configuration on, no slot is numbered and nothing is sent,
\* in any later session and whatever the gNB is reconfigured to.
THEOREM MismatchIsForGood ==
    Spec => [](Mismatch => [](Mismatch /\ slot_publish_seq = 0 /\ emitted = 0))
<1>1. Mismatch /\ VerdictStays => Mismatch'
  BY DEF Mismatch, VerdictStays
<1>2. ASSUME Inv, CounterInv, Mismatch PROVE slot_publish_seq = 0 /\ emitted = 0
  <2>1. slot_publish_seq \in Nat /\ ~(slot_publish_seq > 0)
    BY <1>2, Zenon DEF Inv, TypeOK, GeometryInv, Mismatch
  <2>2. slot_publish_seq = 0
    BY <2>1
  <2> QED
    BY <1>2, <2>2, Zenon DEF CounterInv
<1>3. Mismatch /\ UNCHANGED vars => Mismatch'
  BY DEF Mismatch, vars, smVars, geometryVars
<1> QED
  BY <1>1, <1>2, <1>3, Inductive, CountersAreConsistent, VerdictIsFinal, PTL
=============================================================================
