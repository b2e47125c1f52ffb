-------------------------- MODULE DshBridge_proofs --------------------------
(***************************************************************************)
(* The bridge uses the run as Supervisor allows, so whatever holds of the  *)
(* composed system holds of a run the harness drives; and what a bridge    *)
(* keeps in memory agrees with what the journal says.                      *)
(***************************************************************************)
EXTENDS DshBridge, Supervisor_proofs

\* What a listener captured is what its supervisor captured, and a process that
\* attaches keeps no supervisor yet and has asked nobody for admission.
ListenerAgrees ==
    \A p \in Supervisors :
        /\ listener[p].at = "attach" => p \notin attached /\ listener[p].request = 0
        /\ listener[p].at = "begin" =>
              control[p] = Starting(PreStep, listener[p].attempt)

\* An owner that goes on to begin a step it asked admission for was admitted.
BeginIsApproved ==
    \A p \in Supervisors :
        Owns(p) /\ listener[p].goal = "begin" /\ listener[p].request # 0
        => view.admission = [status |-> "APPROVED", request |-> listener[p].request]

\* A listener that asked wants admission, one that runs a step wanted to begin it.
GoalIsFollowed ==
    \A p \in Supervisors :
        /\ listener[p].at = "ask" => listener[p].goal = "request"
        /\ listener[p].at \in {"running", "begin"} => listener[p].goal = "begin"

\* The inductive invariant.
BridgeInv ==
    /\ BridgeTypeOK
    /\ ListenerAgrees
    /\ GoalIsFollowed
    /\ BeginIsApproved
    /\ SettledStepEnded
    /\ OwnerRemembersStartedStep

-----------------------------------------------------------------------------
(* Every step of a bridge is a step of the composed system.                *)

LEMMA AdmissionIsOneAppend ==
  ASSUME SystemTypeOK, IInv, NEW p \in Supervisors,
         \/ SupersedeLast(p)
         \/ RequestAdmissionHitl(p)
         \/ \E decision \in Decisions : DecideAdmissionHitl(p, decision)
  PROVE  OneAppend(p)
<1>1. CASE SupersedeLast(p)
  BY <1>1, PreStepAssumption DEF SupersedeLast, OneAppend
<1>2. CASE RequestAdmissionHitl(p)
  BY <1>2 DEF RequestAdmissionHitl, OneAppend
<1>3. ASSUME NEW decision \in Decisions, DecideAdmissionHitl(p, decision)
      PROVE  OneAppend(p)
  <2>1. listener[p].request \in 1..issued.request
    BY <1>3 DEF DecideAdmissionHitl, DecideAdmission, MayDecideAdmission, IInv, IdsIssued,
                TypeOK, RunView, AdmissionState
  <2>2. QED
    BY <1>3, <2>1 DEF DecideAdmissionHitl, OneAppend
<1>4. QED
  BY <1>1, <1>2, <1>3

LEMMA HarnessStepIsSystem ==
  ASSUME SystemTypeOK, IInv, BridgeInv, NEW p \in Supervisors, HarnessStep(p)
  PROVE  [SystemNext]_systemVars
<1>1. ASSUME SupervisorStep(p) PROVE SystemNext
  BY <1>1 DEF SystemNext
<1>2. ASSUME NEW a \in Attempts, NEW goal \in {"request", "begin"}, EnterPreStep(p, a, goal)
      PROVE  [SystemNext]_systemVars
  BY <1>1, <1>2 DEF EnterPreStep, SupervisorStep, CallerStep
<1>3. CASE Attach(p)
  BY <1>1, <1>3 DEF Attach, SupervisorStep, SynchronousStep
<1>4. CASE Reconcile(p)
  BY <1>1, <1>4 DEF Reconcile, NothingToReconcile, SettleStep, ValidatorAnswers,
                    ValidatorThrows, SupervisorStep, TaskEnds
<1>5. CASE BeginStep(p)
  <2>1. listener[p].attempt \in Attempts
    BY <1>5 DEF BeginStep, BridgeInv, BridgeTypeOK, Listener
  <2>2. QED
    BY <1>1, <1>5, <2>1, PreStepAssumption DEF BeginStep, SupervisorStep, CallerStep
<1>6. CASE StartStep(p)
  BY <1>1, <1>6 DEF StartStep, SupervisorStep, SynchronousStep
<1>7. CASE StartFails(p)
  BY <1>7 DEF StartFails, SystemNext, Fault
<1>8. CASE BridgeCrash(p)
  BY <1>8 DEF BridgeCrash, SystemNext, Fault
<1>9. CASE \/ SupersedeLast(p)
           \/ RequestAdmissionHitl(p)
           \/ \E decision \in Decisions : DecideAdmissionHitl(p, decision)
  BY <1>1, <1>9, AdmissionIsOneAppend DEF SupervisorStep, CallerStep
<1>10. CASE \/ TurnStopping(p) \/ Reenter(p) \/ Reject(p)
            \/ \E ended \in BOOLEAN : ReturnStep(p, ended)
  BY <1>10 DEF TurnStopping, Reenter, Reject, ReturnStep
<1>11. QED
  BY <1>2, <1>3, <1>4, <1>5, <1>6, <1>7, <1>8, <1>9, <1>10 DEF HarnessStep, Proceed

LEMMA BridgeNextIsSystem ==
  ASSUME SystemTypeOK, IInv, BridgeInv, [BridgeNext]_allVars
  PROVE  [SystemNext]_systemVars
<1>1. CASE Environment
  BY <1>1 DEF Environment, SystemNext, Fault
<1>2. CASE UNCHANGED allVars
  BY <1>2 DEF allVars, systemVars
<1>3. QED
  BY <1>1, <1>2, HarnessStepIsSystem DEF BridgeNext

-----------------------------------------------------------------------------
(* What the steps leave alone.                                             *)

\* Outside the bridges nobody acts in a supervisor's name: while a supervisor
\* owns the run the journal stands still, and no validation is opened.
LEMMA EnvironmentFrame ==
  ASSUME SystemTypeOK, Environment
  PROVE  /\ UNCHANGED <<control, work, attached, pending, listener>>
         /\ \A p \in Supervisors : lease' = p => lease = p /\ view' = view
         /\ view'.validation.status = "PENDING" => view'.validation = view.validation
<1>1. view \in RunView /\ \A o \in Operators : o \notin Supervisors
  BY ProcessesAssumption DEF SystemTypeOK, TypeOK
<1>2. Free \notin Supervisors /\ Orphaned \notin Supervisors
  BY ProcessesAssumption DEF Processes
<1>3. ASSUME NEW o \in Operators,
             \/ \E what \in {"pause", "resume", "promote", "rollback"} : CommandAcquires(o, what)
             \/ CommandRefused(o) \/ CommandReleases(o) \/ CommandCrashes(o) \/ CommandFails(o)
      PROVE  /\ UNCHANGED <<control, work, view>>
             /\ \A p \in Supervisors : lease' = p => lease = p
  BY <1>1, <1>2, <1>3 DEF CommandAcquires, CommandRefused, CommandReleases,
     CommandCrashes, CommandFails, Orphan, Owns, vars
<1>4. ASSUME NEW o \in Operators,
             \/ CommandRequestsPause(o) \/ CommandPauses(o) \/ CommandResumes(o)
             \/ \E c \in view.prepared : CommandPromotes(o, c)
             \/ \E q \in view.promoted : CommandRollsBack(o, q)
      PROVE  /\ UNCHANGED <<control, work>>
             /\ lease' = o /\ lease = o
             /\ view'.validation.status = "PENDING" => view'.validation = view.validation
  <2>1. UNCHANGED <<control, work>> /\ lease' = o /\ lease = o
    BY <1>4 DEF CommandRequestsPause, CommandPauses, CommandResumes, CommandPromotes,
                CommandRollsBack, CommandAppends, Owns
  <2>2. \/ RequestPause \/ Pause \/ Resume
        \/ \E c \in view.prepared : Promote(c)
        \/ \E q \in view.promoted : RollBack(q)
    BY <1>4 DEF CommandRequestsPause, CommandPauses, CommandResumes, CommandPromotes,
                CommandRollsBack
  <2>3. view'.validation = view.validation \/ view'.validation = EmptyValidation
    BY <1>1, <2>2 DEF RequestPause, PauseRequested, Pause, Paused, Resume, Resumed,
                      Promote, Promoted, RollBack, RolledBack, RunView
  <2>4. QED
    BY <2>1, <2>3 DEF EmptyValidation
<1>5. UNCHANGED bridgeVars
  BY DEF Environment
<1>6. QED
  <2>1. CASE IdleLapse \/ Lapse
    BY <1>2, <1>5, <2>1 DEF IdleLapse, Lapse, vars, bridgeVars
  <2>2. ASSUME NEW o \in Operators, OperatorCommand(o) \/ CommandCrashes(o) \/ CommandFails(o)
        PROVE  /\ UNCHANGED <<control, work>>
               /\ \A p \in Supervisors : lease' = p => lease = p /\ view' = view
               /\ view'.validation.status = "PENDING" => view'.validation = view.validation
    BY <1>1, <1>3, <1>4, <2>2 DEF OperatorCommand, CommandStep
  <2>3. QED
    BY <1>5, <2>1, <2>2 DEF Environment, bridgeVars

\* Recovery leaves nothing in flight and opens no validation.
LEMMA AttachFrame ==
  ASSUME SystemTypeOK, NEW p \in Supervisors, Attach(p)
  PROVE  /\ \A q \in Supervisors : q # p => control'[q] = control[q]
         /\ lease' = lease \/ lease' = p
         /\ lease' = lease \/ attached' = attached
         /\ view' = view \/ (Owns(p) /\ view'.active = NoAttempt)
         /\ view'.validation.status = "PENDING" => view'.validation = view.validation
         /\ work'.settledBy \in {work.settledBy, None}
<1>1. view \in RunView /\ control \in [Supervisors -> Step]
  BY DEF SystemTypeOK, TypeOK, ProcessTypeOK
<1>2. CASE RecoverAcquire(p)
  BY <1>1, <1>2 DEF Attach, RecoverAcquire, GoTo, vars
<1>3. CASE RecoverRecordLease(p)
  BY <1>1, <1>3 DEF RecoverRecordLease, GoTo, vars
<1>4. CASE RecoverRecheck(p)
  <2>1. CASE Owns(p) /\ MayRecover(view)
    <3>1. view'.active = NoAttempt
      BY <1>1, <1>4, <2>1 DEF RecoverRecheck, Recover, RecoveredUncertain, RunView
    <3>2. view'.validation = view.validation \/ view'.validation = EmptyValidation
      BY <1>1, <1>4, <2>1 DEF RecoverRecheck, Recover, RecoveredUncertain, RunView
    <3>3. QED
      BY <1>1, <1>4, <2>1, <3>1, <3>2 DEF RecoverRecheck, GoTo, EmptyValidation, NoWork
  <2>2. CASE ~(Owns(p) /\ MayRecover(view))
    BY <1>1, <1>4, <2>2 DEF RecoverRecheck, GoTo, vars
  <2>3. QED
    BY <2>1, <2>2
<1>5. QED
  BY <1>2, <1>3, <1>4 DEF Attach, RecoverStep

\* What the two appends that settle a step do to the validation.
LEMMA SettlementFrame ==
  ASSUME SystemTypeOK, NEW n \in Nodes, NEW a \in Attempts
  PROVE  /\ SettleSucceeded(n, a) => view'.validation.attempt = a
         /\ \A passed \in BOOLEAN : RecordValidation(n, a, passed) =>
               view'.validation.status # "PENDING"
<1>1. view \in RunView
  BY DEF SystemTypeOK, TypeOK
<1>2. SettleSucceeded(n, a) => view'.validation.attempt = a
  BY <1>1 DEF SettleSucceeded, SettledSucceeded, RunView
<1>3. \A passed \in BOOLEAN : RecordValidation(n, a, passed) =>
         view'.validation.status # "PENDING"
  BY <1>1 DEF RecordValidation, ValidationRecorded, RunView
<1>4. QED
  BY <1>2, <1>3

-----------------------------------------------------------------------------
(* The bridge's own records.                                               *)

LEMMA BridgeInitInv == BridgeInit => BridgeInv
<1> SUFFICES ASSUME BridgeInit PROVE BridgeInv
  OBVIOUS
<1>1. BridgeTypeOK
  <2>1. PICK a \in Attempts, goal \in {"request", "begin"} :
          listener = [p \in Supervisors |->
                        IF p \in attached
                        THEN [at |-> "reconcile", goal |-> goal, attempt |-> a, request |-> 0]
                        ELSE NoListener]
    BY DEF BridgeInit
  <2>2. [at |-> "reconcile", goal |-> goal, attempt |-> a, request |-> 0] \in Listener
    BY DEF Listener
  <2>3. NoListener \in Listener /\ NoListener.goal = "stop" /\ NoListener.at = "idle"
    BY DEF NoListener, Listener
  <2>4. listener \in [Supervisors -> Listener]
    BY <2>1, <2>2, <2>3
  <2>5. a # None
    BY NoneIsNoValue
  <2>6. QED
    BY <2>1, <2>3, <2>4, <2>5 DEF BridgeInit, BridgeTypeOK, SystemInit
<1>2. ListenerAgrees /\ GoalIsFollowed
  BY DEF BridgeInit, ListenerAgrees, GoalIsFollowed, NoListener
<1>3. BeginIsApproved
  BY DEF BridgeInit, BeginIsApproved, NoListener
<1>4. SettledStepEnded
  BY ProcessesAssumption DEF BridgeInit, SystemInit, SettledStepEnded, NoWork, Processes
<1>5. OwnerRemembersStartedStep
  BY DEF BridgeInit, SystemInit, Init, InitialView, NoAttempt, OwnerRemembersStartedStep
<1>6. QED
  BY <1>1, <1>2, <1>3, <1>4, <1>5 DEF BridgeInv

Points == {"idle", "attach", "reconcile", "validate", "proceed", "superseded", "ask",
           "begin", "running"}

LEMMA ListenerMoves ==
  ASSUME listener \in [Supervisors -> Listener], NEW p \in Supervisors
  PROVE  /\ \A point \in Points : MoveTo(p, point) =>
               /\ listener' \in [Supervisors -> Listener]
               /\ listener'[p].at = point
               /\ listener'[p].goal = listener[p].goal
               /\ listener'[p].attempt = listener[p].attempt
               /\ listener'[p].request = listener[p].request
               /\ \A q \in Supervisors : q # p => listener'[q] = listener[q]
         /\ Leave(p) =>
               /\ listener' \in [Supervisors -> Listener]
               /\ listener'[p] = NoListener
               /\ \A q \in Supervisors : q # p => listener'[q] = listener[q]
BY DEF MoveTo, Leave, Listener, NoListener, Points

LEMMA ListenerTyped ==
  ASSUME SystemTypeOK, BridgeInv, NEW p \in Supervisors, HarnessStep(p)
  PROVE  BridgeTypeOK' /\ GoalIsFollowed'
<1> USE DEF BridgeInv, BridgeTypeOK, GoalIsFollowed
<1>1. NoListener \in Listener /\ NoListener.at = "idle" /\ NoListener.goal = "stop"
         /\ NoListener.attempt = None
  BY DEF NoListener, Listener
<1>2. /\ listener[p].goal \in {"request", "begin", "stop"}
      /\ listener[p].attempt \in Attempts \union {None}
  BY DEF Listener
<1>3. ASSUME NEW a \in Attempts, NEW goal \in {"request", "begin"}, EnterPreStep(p, a, goal)
      PROVE  BridgeTypeOK' /\ GoalIsFollowed'
  <2> DEFINE entered == [at |-> IF p \in attached THEN "reconcile" ELSE "attach",
                         goal |-> goal, attempt |-> a, request |-> 0]
  <2>1. entered \in Listener /\ entered.at \notin {"ask", "running", "begin"}
        /\ entered.attempt # None
    BY NoneIsNoValue DEF Listener
  <2>2. listener' = [listener EXCEPT ![p] = entered] /\ UNCHANGED <<attached, pending>>
    BY <1>3 DEF EnterPreStep
  <2>3. QED
    BY <2>1, <2>2
<1>4. CASE Attach(p)
  BY <1>1, <1>4, ListenerMoves DEF Attach, Points
<1>5. CASE TurnStopping(p) \/ NothingToReconcile(p) \/ SettleStep(p) \/ ValidatorThrows(p)
  BY <1>1, <1>5, ListenerMoves DEF TurnStopping, NothingToReconcile, SettleStep,
                                   ValidatorThrows, Reconciled, Points
<1>6. ASSUME NEW passed \in BOOLEAN, ValidatorAnswers(p, passed)
      PROVE  BridgeTypeOK' /\ GoalIsFollowed'
  BY <1>1, <1>6, ListenerMoves DEF ValidatorAnswers, Reconciled, Points
<1>7. CASE SupersedeLast(p) \/ Reenter(p) \/ BeginStep(p) \/ StartFails(p) \/ Reject(p)
  BY <1>1, <1>7, ListenerMoves DEF SupersedeLast, Reenter, BeginStep, StartFails, Reject, Points
<1>8. CASE RequestAdmissionHitl(p)
  <2>1. NextRequest \in Nat
    BY DEF SystemTypeOK, TypeOK, NextRequest
  <2> DEFINE asked == [listener[p] EXCEPT !.at = "ask", !.request = NextRequest]
  <2>2. asked \in Listener /\ asked.at = "ask" /\ asked.attempt = listener[p].attempt
        /\ asked.goal = listener[p].goal
    BY <2>1 DEF Listener
  <2>3. /\ listener' = [listener EXCEPT ![p] = asked]
        /\ listener[p].goal = "request"
        /\ UNCHANGED <<attached, pending>>
    BY <1>8 DEF RequestAdmissionHitl
  <2>4. QED
    BY <2>2, <2>3
<1>9. ASSUME NEW decision \in Decisions, DecideAdmissionHitl(p, decision)
      PROVE  BridgeTypeOK' /\ GoalIsFollowed'
  <2> DEFINE allowed == [listener[p] EXCEPT !.at = "reconcile", !.goal = "begin"]
  <2>1. CASE Leave(p)
    <3>1. UNCHANGED <<attached, pending>>
      BY <1>9 DEF DecideAdmissionHitl
    <3>2. QED
      BY <1>1, <2>1, <3>1, ListenerMoves
  <2>2. CASE listener' = [listener EXCEPT ![p] = allowed]
    <3>1. allowed \in Listener /\ allowed.at = "reconcile" /\ allowed.attempt = listener[p].attempt
      BY DEF Listener
    <3>2. listener[p].attempt # None
      BY <1>9 DEF DecideAdmissionHitl
    <3>3. QED
      BY <1>9, <2>2, <3>1, <3>2 DEF DecideAdmissionHitl
  <2>3. listener' = [listener EXCEPT ![p] = allowed] \/ Leave(p)
    BY <1>9 DEF DecideAdmissionHitl
  <2>4. QED
    BY <2>1, <2>2, <2>3
<1>10. CASE StartStep(p)
  <2>1. listener[p].attempt \in Attempts
    BY <1>2, <1>10 DEF StartStep
  <2>2. Begun(listener[p].attempt) \in [attempt : Attempts, ended : BOOLEAN]
    BY <2>1 DEF Begun
  <2>3. pending' \in [Supervisors -> [attempt : Attempts, ended : BOOLEAN] \union {NoStep}]
    BY <1>10, <2>2 DEF StartStep
  <2>4. QED
    BY <1>1, <1>2, <1>10, <2>1, <2>3, ListenerMoves DEF StartStep, Points
<1>11. ASSUME NEW ended \in BOOLEAN, ReturnStep(p, ended)
       PROVE  BridgeTypeOK' /\ GoalIsFollowed'
  <2>1. listener[p].attempt \in Attempts
    BY <1>2, <1>11 DEF ReturnStep
  <2>2. Ended(listener[p].attempt) \in [attempt : Attempts, ended : BOOLEAN]
    BY <2>1 DEF Ended
  <2>3. pending' \in [Supervisors -> [attempt : Attempts, ended : BOOLEAN] \union {NoStep}]
    BY <1>11, <2>2 DEF ReturnStep
  <2>4. QED
    BY <1>1, <1>11, <2>3, ListenerMoves DEF ReturnStep
<1>12. CASE BridgeCrash(p)
  BY <1>1, <1>12, ListenerMoves DEF BridgeCrash
<1>13. QED
  BY <1>3, <1>4, <1>5, <1>6, <1>7, <1>8, <1>9, <1>10, <1>11, <1>12
  DEF HarnessStep, Reconcile, Proceed

-----------------------------------------------------------------------------
(* A step of one bridge leaves the others as they were.                    *)

\* What the invariant says of process q is not touched by a step: if q owns the
\* run after it, q owned it before and the journal did not move.
Undisturbed(q) ==
    /\ listener'[q] = listener[q]
    /\ pending'[q] = pending[q]
    /\ control'[q] = control[q]
    /\ q \in attached' <=> q \in attached
    /\ lease' = q => lease = q /\ view' = view
    /\ view'.validation.status = "PENDING" /\ work'.settledBy = q =>
          view'.validation = view.validation /\ work.settledBy = q

LEMMA UndisturbedKeeps ==
  ASSUME BridgeInv, NEW q \in Supervisors, Undisturbed(q)
  PROVE  /\ listener'[q].at = "attach" => q \notin attached' /\ listener'[q].request = 0
         /\ listener'[q].at = "begin" => control'[q] = Starting(PreStep, listener'[q].attempt)
         /\ lease' = q /\ listener'[q].goal = "begin" /\ listener'[q].request # 0 =>
               view'.admission = [status |-> "APPROVED", request |-> listener'[q].request]
         /\ view'.validation.status = "PENDING" /\ work'.settledBy = q =>
               pending'[q] = Ended(view'.validation.attempt)
         /\ q \in attached' /\ lease' = q /\ view'.active.status = "STARTED" =>
               pending'[q].attempt = view'.active.attempt
BY DEF Undisturbed, BridgeInv, ListenerAgrees, BeginIsApproved, SettledStepEnded,
       OwnerRemembersStartedStep, Owns

LEMMA OthersUndisturbed ==
  ASSUME SystemTypeOK, IInv, BridgeInv, NEW p \in Supervisors, HarnessStep(p),
         NEW q \in Supervisors, q # p
  PROVE  Undisturbed(q)
<1>1. /\ listener \in [Supervisors -> Listener]
      /\ pending \in [Supervisors -> [attempt : Attempts, ended : BOOLEAN] \union {NoStep}]
      /\ control \in [Supervisors -> Step]
      /\ work \in [dispatchedBy : Processes \union {None, Gone},
                   settledBy : Processes \union {None, Gone}]
  BY DEF BridgeInv, BridgeTypeOK, SystemTypeOK, ProcessTypeOK
<1>2. q \notin {None, Gone, Free, Orphaned}
  BY ProcessesAssumption DEF Processes
<1>3. ASSUME NEW a \in Attempts, NEW goal \in {"request", "begin"}, EnterPreStep(p, a, goal)
      PROVE  Undisturbed(q)
  BY <1>1, <1>3 DEF EnterPreStep, RecoverRead, GoTo, systemVars, vars, Undisturbed
<1>4. CASE Attach(p)
  <2>1. listener'[q] = listener[q]
    BY <1>1, <1>4, ListenerMoves DEF Attach, Points
  <2>2. pending' = pending /\ (q \in attached' <=> q \in attached)
    BY <1>4 DEF Attach
  <2>3. QED
    BY <1>2, <1>4, <2>1, <2>2, AttachFrame DEF Undisturbed, Owns
<1>5. CASE \/ TurnStopping(p) \/ NothingToReconcile(p) \/ Reenter(p) \/ Reject(p)
           \/ \E ended \in BOOLEAN : ReturnStep(p, ended)
  <2>1. listener'[q] = listener[q]
    BY <1>1, <1>5, ListenerMoves
    DEF TurnStopping, NothingToReconcile, Reenter, Reject, ReturnStep, Reconciled, Points
  <2>2. UNCHANGED <<view, lease, control, work, attached>> /\ pending'[q] = pending[q]
    BY <1>1, <1>5 DEF TurnStopping, NothingToReconcile, Reenter, Reject, ReturnStep, systemVars
  <2>3. QED
    BY <2>1, <2>2 DEF Undisturbed
<1>6. CASE SettleStep(p)
  <2>1. listener'[q] = listener[q]
    BY <1>1, <1>6, ListenerMoves DEF SettleStep, Points
  <2>2. /\ UNCHANGED <<lease, control, attached, pending>> /\ lease = p
        /\ work'.settledBy = p
    BY <1>1, <1>6 DEF SettleStep, ExecutionSucceeded, MayCall, Owns
  <2>3. QED
    BY <2>1, <2>2 DEF Undisturbed
<1>7. ASSUME NEW passed \in BOOLEAN, ValidatorAnswers(p, passed)
      PROVE  Undisturbed(q)
  <2>1. listener'[q] = listener[q]
    BY <1>1, <1>7, ListenerMoves DEF ValidatorAnswers, Reconciled, Points
  <2>2. /\ UNCHANGED <<lease, control, work, attached>> /\ lease = p
        /\ pending'[q] = pending[q]
    BY <1>1, <1>7 DEF ValidatorAnswers, Validated, MayCall, Owns
  <2>3. view'.validation.status # "PENDING"
    <3>1. PICK t \in tasks[p] : Validated(p, t, passed)
      BY <1>7 DEF ValidatorAnswers
    <3>2. t \in Task
      BY DEF SystemTypeOK, ProcessTypeOK
    <3>3. t.node \in Nodes /\ t.attempt \in Attempts
      BY <3>1, <3>2, TaskArguments DEF Validated
    <3>4. QED
      BY <3>1, <3>3, SettlementFrame DEF Validated
  <2>4. QED
    BY <2>1, <2>2, <2>3 DEF Undisturbed
<1>8. CASE ValidatorThrows(p)
  <2>1. listener'[q] = listener[q]
    BY <1>1, <1>8, ListenerMoves DEF ValidatorThrows
  <2>2. QED
    BY <1>8, <2>1 DEF ValidatorThrows, TaskThrows, vars, Undisturbed
<1>9. CASE \/ SupersedeLast(p)
           \/ RequestAdmissionHitl(p)
           \/ \E decision \in Decisions : DecideAdmissionHitl(p, decision)
  <2>1. listener'[q] = listener[q]
    BY <1>1, <1>9, ListenerMoves
    DEF SupersedeLast, RequestAdmissionHitl, DecideAdmissionHitl, Points
  <2>2. UNCHANGED <<lease, control, work, attached, pending>> /\ lease = p
    BY <1>9 DEF SupersedeLast, RequestAdmissionHitl, DecideAdmissionHitl, MayCall, Owns,
                processVars
  <2>3. view'.validation.status = "PENDING" => view'.validation = view.validation
    <3>1. PreStep \in Nodes
      BY PreStepAssumption
    <3>2. listener[p].request \in Nat
      BY <1>1 DEF Listener
    <3>3. view \in RunView
      BY DEF SystemTypeOK, TypeOK
    <3>4. CASE SupersedeLast(p)
      BY <3>3, <3>4 DEF SupersedeLast, Supersede, Superseded, EmptyValidation, RunView
    <3>5. CASE RequestAdmissionHitl(p)
      BY <3>3, <3>5 DEF RequestAdmissionHitl, RequestAdmission, AdmissionRequested, RunView
    <3>6. CASE \E decision \in Decisions : DecideAdmissionHitl(p, decision)
      BY <3>3, <3>6 DEF DecideAdmissionHitl, DecideAdmission, AdmissionDecided, RunView
    <3>7. QED
      BY <1>9, <3>4, <3>5, <3>6
  <2>4. QED
    BY <2>1, <2>2, <2>3 DEF Undisturbed
<1>10. CASE BeginStep(p)
  <2>1. listener'[q] = listener[q]
    BY <1>1, <1>10, ListenerMoves DEF BeginStep, Points
  <2>2. /\ UNCHANGED <<lease, attached, pending>> /\ lease = p /\ work'.settledBy = None
        /\ control'[q] = control[q]
    BY <1>1, <1>10 DEF BeginStep, BeginAttempt, MayCall, Owns, GoTo, NoWork
  <2>3. QED
    BY <1>2, <2>1, <2>2 DEF Undisturbed
<1>11. CASE StartStep(p)
  <2>1. listener'[q] = listener[q]
    BY <1>1, <1>11, ListenerMoves DEF StartStep, Points
  <2>2. /\ UNCHANGED <<lease, attached, work>> /\ pending'[q] = pending[q]
        /\ control'[q] = control[q]
    BY <1>1, <1>11 DEF StartStep, StartAttempt, GoTo
  <2>3. view' = view \/ (lease = p /\ view'.validation = view.validation)
    <3>1. view \in RunView
      BY DEF SystemTypeOK, TypeOK
    <3>2. QED
      BY <1>11, <3>1 DEF StartStep, StartAttempt, Owns, Start, Started, RunView, vars
  <2>4. QED
    BY <2>1, <2>2, <2>3 DEF Undisturbed
<1>12. CASE StartFails(p)
  <2>1. listener'[q] = listener[q]
    BY <1>1, <1>12, ListenerMoves DEF StartFails
  <2>2. QED
    BY <1>1, <1>12, <2>1 DEF StartFails, StorageFails, GoTo, vars, Undisturbed
<1>13. CASE BridgeCrash(p)
  <2>1. listener'[q] = listener[q] /\ pending'[q] = pending[q]
    BY <1>1, <1>13, ListenerMoves DEF BridgeCrash
  <2>2. work'.settledBy = q => work.settledBy = q
    BY <1>1, <1>2, <1>13 DEF BridgeCrash, Crash
  <2>3. QED
    BY <1>1, <1>2, <1>13, <2>1, <2>2
    DEF BridgeCrash, Crash, GoTo, Orphan, Owns, vars, Undisturbed
<1>14. QED
  BY <1>3, <1>4, <1>5, <1>6, <1>7, <1>8, <1>9, <1>10, <1>11, <1>12, <1>13
  DEF HarnessStep, Reconcile, Proceed

-----------------------------------------------------------------------------
(* A step of a bridge keeps what the invariant says of its own process.    *)

LEMMA DecisionMoves ==
  ASSUME listener \in [Supervisors -> Listener], NEW p \in Supervisors,
         NEW decision \in Decisions, DecideAdmissionHitl(p, decision)
  PROVE  \/ listener'[p] = NoListener
         \/ /\ decision = "APPROVED"
            /\ listener'[p].at = "reconcile"
            /\ listener'[p].request = listener[p].request
<1>1. CASE decision = "APPROVED"
  <2>1. listener' = [listener EXCEPT ![p] = [listener[p] EXCEPT !.at = "reconcile", !.goal = "begin"]]
    BY <1>1 DEF DecideAdmissionHitl
  <2>2. QED
    BY <1>1, <2>1 DEF Listener
<1>2. CASE decision # "APPROVED"
  BY <1>2, ListenerMoves DEF DecideAdmissionHitl
<1>3. QED
  BY <1>1, <1>2

LEMMA SelfAgrees ==
  ASSUME SystemTypeOK, BridgeInv, NEW p \in Supervisors, HarnessStep(p)
  PROVE  /\ listener'[p].at = "attach" => p \notin attached' /\ listener'[p].request = 0
         /\ listener'[p].at = "begin" => control'[p] = Starting(PreStep, listener'[p].attempt)
<1>1. listener \in [Supervisors -> Listener] /\ control \in [Supervisors -> Step]
  BY DEF BridgeInv, BridgeTypeOK, SystemTypeOK, ProcessTypeOK
<1>2. NoListener.at = "idle"
  BY DEF NoListener
<1>3. listener[p].at = "attach" => p \notin attached /\ listener[p].request = 0
  BY DEF BridgeInv, ListenerAgrees
<1>4. ASSUME NEW a \in Attempts, NEW goal \in {"request", "begin"}, EnterPreStep(p, a, goal)
      PROVE  /\ listener'[p].at = "attach" => p \notin attached' /\ listener'[p].request = 0
             /\ listener'[p].at # "begin"
  BY <1>1, <1>4 DEF EnterPreStep
<1>5. CASE Attach(p)
  BY <1>1, <1>2, <1>3, <1>5, ListenerMoves DEF Attach, Points
<1>6. CASE \/ TurnStopping(p) \/ Reconcile(p) \/ Reenter(p) \/ Reject(p) \/ StartStep(p)
           \/ StartFails(p) \/ SupersedeLast(p) \/ BridgeCrash(p)
           \/ \E ended \in BOOLEAN : ReturnStep(p, ended)
  BY <1>1, <1>2, <1>6, ListenerMoves
  DEF TurnStopping, Reconcile, NothingToReconcile, SettleStep, ValidatorAnswers, ValidatorThrows,
      Reconciled, Reenter, Reject, StartStep, StartFails, SupersedeLast, BridgeCrash, ReturnStep,
      Points
<1>7. CASE RequestAdmissionHitl(p)
  <2>1. listener' = [listener EXCEPT ![p] =
                       [listener[p] EXCEPT !.at = "ask", !.request = NextRequest]]
    BY <1>7 DEF RequestAdmissionHitl
  <2>2. listener'[p].at = "ask"
    BY <1>1, <2>1 DEF Listener
  <2>3. QED
    BY <2>2
<1>8. ASSUME NEW decision \in Decisions, DecideAdmissionHitl(p, decision)
      PROVE  listener'[p].at \in {"idle", "reconcile"}
  BY <1>1, <1>2, <1>8, DecisionMoves
<1>9. CASE BeginStep(p)
  BY <1>1, <1>9, ListenerMoves DEF BeginStep, BeginAttempt, GoTo, Points
<1>10. QED
  BY <1>4, <1>5, <1>6, <1>7, <1>8, <1>9 DEF HarnessStep, Proceed

LEMMA SelfApproved ==
  ASSUME SystemTypeOK, BridgeInv, NEW p \in Supervisors, HarnessStep(p)
  PROVE  lease' = p /\ listener'[p].goal = "begin" /\ listener'[p].request # 0 =>
            view'.admission = [status |-> "APPROVED", request |-> listener'[p].request]
<1> DEFINE Goal == lease' = p /\ listener'[p].goal = "begin" /\ listener'[p].request # 0 =>
            view'.admission = [status |-> "APPROVED", request |-> listener'[p].request]
<1>1. listener \in [Supervisors -> Listener] /\ view \in RunView
  BY DEF BridgeInv, BridgeTypeOK, SystemTypeOK, TypeOK
<1>2. NoListener.goal = "stop" /\ NoListener.request = 0
  BY DEF NoListener
<1>3. listener[p].at = "attach" => listener[p].request = 0
  BY DEF BridgeInv, ListenerAgrees
<1>4. lease = p /\ listener[p].goal = "begin" /\ listener[p].request # 0 =>
            view.admission = [status |-> "APPROVED", request |-> listener[p].request]
  BY DEF BridgeInv, BeginIsApproved, Owns
<1>5. ASSUME NEW a \in Attempts, NEW goal \in {"request", "begin"}, EnterPreStep(p, a, goal)
      PROVE  Goal
  BY <1>1, <1>5 DEF EnterPreStep
<1>6. CASE Attach(p)
  BY <1>1, <1>2, <1>3, <1>6, ListenerMoves DEF Attach, Points
<1>7. CASE TurnStopping(p) \/ NothingToReconcile(p) \/ Reenter(p)
  BY <1>1, <1>2, <1>4, <1>7, ListenerMoves
  DEF TurnStopping, NothingToReconcile, Reenter, Reconciled, systemVars, Points
<1>8. CASE \/ Reject(p) \/ ValidatorThrows(p) \/ StartFails(p) \/ BridgeCrash(p)
           \/ \E ended \in BOOLEAN : ReturnStep(p, ended)
  BY <1>1, <1>2, <1>8, ListenerMoves
  DEF Reject, ValidatorThrows, StartFails, BridgeCrash, ReturnStep
<1>9. CASE SettleStep(p)
  <2>1. view'.admission = view.admission /\ lease' = lease
    BY <1>1, <1>9 DEF SettleStep, ExecutionSucceeded, SettleSucceeded, SettledSucceeded, RunView
  <2>2. QED
    BY <1>1, <1>4, <1>9, <2>1, ListenerMoves DEF SettleStep, Points
<1>10. ASSUME NEW passed \in BOOLEAN, ValidatorAnswers(p, passed)
       PROVE  Goal
  <2>1. view'.admission = view.admission /\ lease' = lease
    BY <1>1, <1>10 DEF ValidatorAnswers, Validated, RecordValidation, ValidationRecorded, RunView
  <2>2. QED
    BY <1>1, <1>2, <1>4, <1>10, <2>1, ListenerMoves DEF ValidatorAnswers, Reconciled, Points
<1>11. CASE SupersedeLast(p)
  <2>1. view'.admission = view.admission /\ lease' = lease
    BY <1>1, <1>11 DEF SupersedeLast, Supersede, Superseded, RunView, processVars
  <2>2. QED
    BY <1>1, <1>4, <1>11, <2>1, ListenerMoves DEF SupersedeLast, Points
<1>12. CASE RequestAdmissionHitl(p)
  BY <1>1, <1>12 DEF RequestAdmissionHitl
<1>13. ASSUME NEW decision \in Decisions, DecideAdmissionHitl(p, decision)
       PROVE  Goal
  <2>1. view'.admission = [status |-> decision, request |-> listener[p].request]
    BY <1>1, <1>13 DEF DecideAdmissionHitl, DecideAdmission, AdmissionDecided, RunView
  <2>2. QED
    BY <1>1, <1>2, <1>13, <2>1, DecisionMoves
<1>14. CASE BeginStep(p)
  <2>1. view'.admission = view.admission /\ lease' = lease
    BY <1>1, <1>14 DEF BeginStep, BeginAttempt, Dispatch, Dispatched, RunView
  <2>2. QED
    BY <1>1, <1>4, <1>14, <2>1, ListenerMoves DEF BeginStep, Points
<1>15. CASE StartStep(p)
  <2>1. view'.admission = view.admission /\ lease' = lease
    BY <1>1, <1>15 DEF StartStep, StartAttempt, Start, Started, RunView, vars
  <2>2. QED
    BY <1>1, <1>2, <1>4, <1>15, <2>1, ListenerMoves DEF StartStep, Points
<1>16. QED
  BY <1>5, <1>6, <1>7, <1>8, <1>9, <1>10, <1>11, <1>12, <1>13, <1>14, <1>15
  DEF HarnessStep, Reconcile, Proceed

LEMMA SelfSettled ==
  ASSUME SystemTypeOK, IInv, BridgeInv, NEW p \in Supervisors, HarnessStep(p)
  PROVE  view'.validation.status = "PENDING" /\ work'.settledBy = p =>
            pending'[p] = Ended(view'.validation.attempt)
<1> DEFINE Goal == view'.validation.status = "PENDING" /\ work'.settledBy = p =>
            pending'[p] = Ended(view'.validation.attempt)
<1>1. /\ view \in RunView
      /\ pending \in [Supervisors -> [attempt : Attempts, ended : BOOLEAN] \union {NoStep}]
      /\ tasks \in [Supervisors -> SUBSET Task]
      /\ work \in [dispatchedBy : Processes \union {None, Gone},
                   settledBy : Processes \union {None, Gone}]
  BY DEF BridgeInv, BridgeTypeOK, SystemTypeOK, TypeOK, ProcessTypeOK
<1>2. p \notin {None, Gone}
  BY ProcessesAssumption DEF Processes
<1>3. view.validation.status = "PENDING" /\ work.settledBy = p =>
            pending[p] = Ended(view.validation.attempt)
  BY DEF BridgeInv, SettledStepEnded
<1>4. ASSUME /\ view'.validation.status = "PENDING" => view'.validation = view.validation
             /\ work'.settledBy = p => work.settledBy = p
             /\ pending'[p] = pending[p]
      PROVE  Goal
  BY <1>3, <1>4
<1>5. ASSUME NEW a \in Attempts, NEW goal \in {"request", "begin"}, EnterPreStep(p, a, goal)
      PROVE  Goal
  BY <1>4, <1>5 DEF EnterPreStep, RecoverRead, systemVars, vars
<1>6. CASE Attach(p)
  <2>1. pending' = pending
    BY <1>6 DEF Attach
  <2>2. QED
    BY <1>2, <1>4, <1>6, <2>1, AttachFrame
<1>7. CASE TurnStopping(p) \/ NothingToReconcile(p) \/ Reenter(p) \/ Reject(p)
  BY <1>4, <1>7 DEF TurnStopping, NothingToReconcile, Reenter, Reject, systemVars
<1>8. CASE ValidatorThrows(p) \/ StartFails(p)
  BY <1>4, <1>8 DEF ValidatorThrows, TaskThrows, StartFails, StorageFails, vars
<1>9. CASE SettleStep(p)
  <2>1. PICK t \in tasks[p] : t.attempt = pending[p].attempt /\ ExecutionSucceeded(p, t)
    BY <1>9 DEF SettleStep
  <2>2. t.node \in Nodes /\ t.attempt \in Attempts
    BY <1>1, <2>1, TaskArguments DEF ExecutionSucceeded
  <2>3. view'.validation.attempt = pending[p].attempt
    BY <2>1, <2>2, SettlementFrame DEF ExecutionSucceeded
  <2>4. pending' = pending /\ pending[p].ended
    BY <1>9 DEF SettleStep, StepEnded
  <2>5. pending[p] = Ended(pending[p].attempt)
    BY <1>1, <2>4 DEF NoStep, Ended
  <2>6. QED
    BY <2>3, <2>4, <2>5
<1>10. ASSUME NEW passed \in BOOLEAN, ValidatorAnswers(p, passed)
       PROVE  Goal
  <2>1. PICK t \in tasks[p] : Validated(p, t, passed)
    BY <1>10 DEF ValidatorAnswers
  <2>2. t.node \in Nodes /\ t.attempt \in Attempts
    BY <1>1, <2>1, TaskArguments DEF Validated
  <2>3. QED
    BY <2>1, <2>2, SettlementFrame DEF Validated
<1>11. CASE SupersedeLast(p)
  BY <1>1, <1>11 DEF SupersedeLast, Supersede, Superseded, EmptyValidation, RunView
<1>12. CASE \/ RequestAdmissionHitl(p)
            \/ \E decision \in Decisions : DecideAdmissionHitl(p, decision)
  <2>1. view'.validation = view.validation
    BY <1>1, <1>12 DEF RequestAdmissionHitl, DecideAdmissionHitl, RequestAdmission,
                       AdmissionRequested, DecideAdmission, AdmissionDecided, RunView
  <2>2. UNCHANGED <<work, pending>>
    BY <1>12 DEF RequestAdmissionHitl, DecideAdmissionHitl, processVars
  <2>3. QED
    BY <1>4, <2>1, <2>2
<1>13. CASE BeginStep(p)
  <2>1. work'.settledBy = None
    BY <1>13 DEF BeginStep, BeginAttempt, NoWork
  <2>2. QED
    BY <1>2, <2>1
<1>14. CASE StartStep(p)
  <2>1. CASE view' = view /\ pending' = pending
    BY <1>4, <1>14, <2>1 DEF StartStep, StartAttempt
  <2>2. CASE MayStart(view, PreStep, listener[p].attempt)
    <3>1. view.validation.status # "PENDING"
      BY <2>2 DEF MayStart, IInv, PhaseCoherent
    <3>2. view'.validation = view.validation
      BY <1>1, <1>14 DEF StartStep, StartAttempt, Start, Started, RunView, vars
    <3>3. QED
      BY <3>1, <3>2
  <2>3. ASSUME ~(Owns(p) /\ MayStart(view, PreStep, listener[p].attempt))
        PROVE  view' = view /\ pending' = pending
    <3>1. control[p] = Starting(PreStep, listener[p].attempt)
      BY <1>14 DEF StartStep, BridgeInv, ListenerAgrees
    <3>2. QED
      BY <1>14, <2>3, <3>1 DEF StartStep, StartAttempt, Starting, vars
  <2>4. QED
    BY <2>1, <2>2, <2>3
<1>15. ASSUME NEW ended \in BOOLEAN, ReturnStep(p, ended)
       PROVE  Goal
  <2>1. UNCHANGED <<view, work>>
    BY <1>15 DEF ReturnStep, systemVars
  <2>2. \/ pending'[p] = pending[p]
        \/ pending'[p] = Ended(pending[p].attempt)
    BY <1>1, <1>15 DEF ReturnStep
  <2>3. pending[p] = Ended(view.validation.attempt) => pending'[p] = pending[p]
    BY <2>2 DEF Ended
  <2>4. QED
    BY <1>3, <2>1, <2>3
<1>16. CASE BridgeCrash(p)
  BY <1>1, <1>2, <1>16 DEF BridgeCrash, Crash
<1>17. QED
  BY <1>5, <1>6, <1>7, <1>8, <1>9, <1>10, <1>11, <1>12, <1>13, <1>14, <1>15, <1>16
  DEF HarnessStep, Reconcile, Proceed

LEMMA SelfRemembers ==
  ASSUME SystemTypeOK, IInv, BridgeInv, NEW p \in Supervisors, HarnessStep(p)
  PROVE  p \in attached' /\ lease' = p /\ view'.active.status = "STARTED" =>
            pending'[p].attempt = view'.active.attempt
<1> DEFINE Goal == p \in attached' /\ lease' = p /\ view'.active.status = "STARTED" =>
            pending'[p].attempt = view'.active.attempt
<1>1. /\ view \in RunView
      /\ pending \in [Supervisors -> [attempt : Attempts, ended : BOOLEAN] \union {NoStep}]
      /\ tasks \in [Supervisors -> SUBSET Task]
  BY DEF BridgeInv, BridgeTypeOK, SystemTypeOK, TypeOK, ProcessTypeOK
<1>2. p \in attached /\ lease = p /\ view.active.status = "STARTED" =>
            pending[p].attempt = view.active.attempt
  BY DEF BridgeInv, OwnerRemembersStartedStep, Owns
<1>3. view.active.status = "STARTED" => MayRecover(view)
  BY DEF IInv, PhaseCoherent, MayRecover
<1>4. ASSUME UNCHANGED <<attached, lease>>, view'.active = view.active,
             pending'[p].attempt = pending[p].attempt
      PROVE  Goal
  BY <1>2, <1>4
<1>5. ASSUME NEW a \in Attempts, NEW goal \in {"request", "begin"}, EnterPreStep(p, a, goal)
      PROVE  Goal
  BY <1>4, <1>5 DEF EnterPreStep, RecoverRead, systemVars, vars
<1>6. CASE Attach(p)
  <2>1. p \notin attached
    BY <1>6 DEF Attach, BridgeInv, ListenerAgrees
  <2>2. p \in attached' => control[p].at = "recheck" /\ (Owns(p) \/ ~MayRecover(view))
    BY <1>6, <2>1 DEF Attach
  <2>3. control[p].at = "recheck" => RecoverRecheck(p)
    BY <1>6 DEF Attach, RecoverStep, RecoverAcquire, RecoverRecordLease
  <2>4. RecoverRecheck(p) /\ Owns(p) /\ MayRecover(view) => view'.active = NoAttempt
    BY <1>1 DEF RecoverRecheck, Recover, RecoveredUncertain, RunView
  <2>5. RecoverRecheck(p) /\ ~MayRecover(view) => view' = view
    BY DEF RecoverRecheck, vars
  <2>6. QED
    BY <1>3, <2>2, <2>3, <2>4, <2>5 DEF NoAttempt
<1>7. CASE TurnStopping(p) \/ NothingToReconcile(p) \/ Reenter(p) \/ Reject(p)
  BY <1>4, <1>7 DEF TurnStopping, NothingToReconcile, Reenter, Reject, systemVars
<1>8. CASE ValidatorThrows(p) \/ StartFails(p)
  BY <1>4, <1>8 DEF ValidatorThrows, TaskThrows, StartFails, StorageFails, vars
<1>9. CASE SettleStep(p)
  <2>1. view'.active = NoAttempt
    BY <1>1, <1>9 DEF SettleStep, ExecutionSucceeded, SettleSucceeded, SettledSucceeded, RunView
  <2>2. QED
    BY <2>1 DEF NoAttempt
<1>10. ASSUME NEW passed \in BOOLEAN, ValidatorAnswers(p, passed)
       PROVE  Goal
  <2>1. view'.active = view.active /\ view.phase \in {"VALIDATING", "PAUSED"}
    BY <1>1, <1>10 DEF ValidatorAnswers, Validated, RecordValidation, MayRecordValidation,
                       ValidationRecorded, RunView
  <2>2. view.active.status = "NONE"
    BY <2>1 DEF IInv, PhaseCoherent
  <2>3. QED
    BY <2>1, <2>2
<1>11. CASE SupersedeLast(p)
  BY <1>1, <1>4, <1>11 DEF SupersedeLast, Supersede, Superseded, RunView, processVars
<1>12. CASE \/ RequestAdmissionHitl(p)
            \/ \E decision \in Decisions : DecideAdmissionHitl(p, decision)
  <2>1. view'.active = view.active
    BY <1>1, <1>12 DEF RequestAdmissionHitl, DecideAdmissionHitl, RequestAdmission,
                       AdmissionRequested, DecideAdmission, AdmissionDecided, RunView
  <2>2. UNCHANGED <<attached, lease, pending>>
    BY <1>12 DEF RequestAdmissionHitl, DecideAdmissionHitl, processVars
  <2>3. QED
    BY <1>4, <2>1, <2>2
<1>13. CASE BeginStep(p)
  BY <1>1, <1>13 DEF BeginStep, BeginAttempt, Dispatch, Dispatched, RunView
<1>14. CASE StartStep(p)
  <2>1. control[p] = Starting(PreStep, listener[p].attempt)
    BY <1>14 DEF StartStep, BridgeInv, ListenerAgrees
  <2>2. CASE Owns(p) /\ MayStart(view, PreStep, listener[p].attempt)
    <3>1. Start(PreStep, listener[p].attempt)
      BY <1>14, <2>1, <2>2 DEF StartStep, StartAttempt, Starting
    <3>2. view'.active.attempt = listener[p].attempt
      BY <1>1, <3>1 DEF Start, Started, RunView
    <3>3. pending'[p].attempt = listener[p].attempt
      BY <1>1, <1>14, <2>2 DEF StartStep, Begun
    <3>4. QED
      BY <3>2, <3>3
  <2>3. CASE ~(Owns(p) /\ MayStart(view, PreStep, listener[p].attempt))
    BY <1>4, <1>14, <2>1, <2>3 DEF StartStep, StartAttempt, Starting, vars
  <2>4. QED
    BY <2>2, <2>3
<1>15. ASSUME NEW ended \in BOOLEAN, ReturnStep(p, ended)
       PROVE  Goal
  <2>1. UNCHANGED <<attached, lease, view>>
    BY <1>15 DEF ReturnStep, systemVars
  <2>2. pending'[p] = pending[p] \/ pending'[p] = Ended(pending[p].attempt)
    BY <1>1, <1>15 DEF ReturnStep
  <2>3. pending'[p].attempt = pending[p].attempt
    BY <2>2 DEF Ended
  <2>4. QED
    BY <1>4, <2>1, <2>3
<1>16. CASE BridgeCrash(p)
  BY <1>16 DEF BridgeCrash
<1>17. QED
  BY <1>5, <1>6, <1>7, <1>8, <1>9, <1>10, <1>11, <1>12, <1>13, <1>14, <1>15, <1>16
  DEF HarnessStep, Reconcile, Proceed

-----------------------------------------------------------------------------
LEMMA EnvironmentKeeps ==
  ASSUME SystemTypeOK, BridgeInv, Environment
  PROVE  BridgeInv'
<1>1. ASSUME NEW q \in Supervisors PROVE Undisturbed(q)
  BY EnvironmentFrame DEF Undisturbed
<1>2. UNCHANGED <<attached, pending, listener>>
  BY EnvironmentFrame
<1>3. BridgeTypeOK' /\ GoalIsFollowed'
  BY <1>2 DEF BridgeInv, BridgeTypeOK, GoalIsFollowed
<1>4. ListenerAgrees' /\ BeginIsApproved' /\ SettledStepEnded' /\ OwnerRemembersStartedStep'
  BY <1>1, <1>2, UndisturbedKeeps
  DEF ListenerAgrees, BeginIsApproved, SettledStepEnded, OwnerRemembersStartedStep, Owns,
      BridgeInv, BridgeTypeOK
<1>5. QED
  BY <1>3, <1>4 DEF BridgeInv

LEMMA BridgeInvPreserved ==
  ASSUME SystemTypeOK, IInv, BridgeInv, [BridgeNext]_allVars
  PROVE  BridgeInv'
<1>1. ASSUME NEW p \in Supervisors, HarnessStep(p)
      PROVE  BridgeInv'
  <2>1. BridgeTypeOK' /\ GoalIsFollowed'
    BY <1>1, ListenerTyped
  <2>2. \A q \in Supervisors : q # p => Undisturbed(q)
    BY <1>1, OthersUndisturbed
  <2>3. attached' \subseteq Supervisors
    BY <2>1 DEF BridgeTypeOK
  <2>4. ListenerAgrees'
    BY <1>1, <2>2, SelfAgrees, UndisturbedKeeps DEF ListenerAgrees
  <2>5. BeginIsApproved'
    BY <1>1, <2>2, SelfApproved, UndisturbedKeeps DEF BeginIsApproved, Owns
  <2>6. SettledStepEnded'
    BY <1>1, <2>2, SelfSettled, UndisturbedKeeps DEF SettledStepEnded
  <2>7. OwnerRemembersStartedStep'
    BY <1>1, <2>2, <2>3, SelfRemembers, UndisturbedKeeps DEF OwnerRemembersStartedStep, Owns
  <2>8. QED
    BY <2>1, <2>4, <2>5, <2>6, <2>7 DEF BridgeInv
<1>2. CASE UNCHANGED allVars
  BY <1>2 DEF allVars, BridgeInv, BridgeTypeOK, ListenerAgrees, GoalIsFollowed, BeginIsApproved,
              SettledStepEnded, OwnerRemembersStartedStep, Owns
<1>3. QED
  BY <1>1, <1>2, EnvironmentKeeps DEF BridgeNext

-----------------------------------------------------------------------------
\* The invariants of the stream, of the processes and of the bridges hold together.
THEOREM BridgeInvariance == BridgeSpec => [](SystemTypeOK /\ IInv /\ BridgeInv)
<1>1. BridgeInit => SystemTypeOK /\ IInv /\ BridgeInv
  BY SystemInvInit, BridgeInitInv DEF BridgeInit
<1>2. SystemTypeOK /\ IInv /\ BridgeInv /\ [BridgeNext]_allVars
      => (SystemTypeOK /\ IInv /\ BridgeInv)'
  BY BridgeNextIsSystem, SystemInvPreserved, BridgeInvPreserved
<1>3. QED
  BY <1>1, <1>2, PTL DEF BridgeSpec

\* Type correctness: what a bridge remembers and what its listener captured are
\* of the kinds the code keeps.
THEOREM BridgeTypeCorrectness == BridgeSpec => []BridgeTypeOK
<1>1. BridgeInv => BridgeTypeOK
  BY DEF BridgeInv
<1>2. QED
  BY <1>1, BridgeInvariance, PTL

\* A step is settled only by the process that saw it end.
THEOREM StepsSettleOnce == BridgeSpec => []SettledStepEnded
<1>1. BridgeInv => SettledStepEnded
  BY DEF BridgeInv
<1>2. QED
  BY <1>1, BridgeInvariance, PTL

\* An attached owner of a run with a step in flight remembers that step.
THEOREM BridgeMemoryAgrees == BridgeSpec => []OwnerRemembersStartedStep
<1>1. BridgeInv => OwnerRemembersStartedStep
  BY DEF BridgeInv
<1>2. QED
  BY <1>1, BridgeInvariance, PTL

\* The admission gate of the bridge is closed: an owner runs a gated step on the
\* approval its listener asked for.
THEOREM BridgeGateHolds == BridgeSpec => []GatedStepWasApproved
<1>1. BridgeInv => GatedStepWasApproved
  BY DEF BridgeInv, BeginIsApproved, GoalIsFollowed, GatedStepWasApproved
<1>2. QED
  BY <1>1, BridgeInvariance, PTL

\* The bridge implements the composed system, and through it the stream.
THEOREM BridgeIsSystem == BridgeSpec => ImplementsSystem
<1>1. BridgeInit => SystemInit
  BY DEF BridgeInit
<1>2. SystemTypeOK /\ IInv /\ BridgeInv /\ [BridgeNext]_allVars => [SystemNext]_systemVars
  BY BridgeNextIsSystem
<1>3. QED
  BY <1>1, <1>2, BridgeInvariance, PTL DEF BridgeSpec, ImplementsSystem, SystemSpec

\* Through the bridge, too, every graph that comes into force is a step of the
\* promotion gate: no listener, re-entry or restart opens another way.
THEOREM BridgeRefinesGate == BridgeSpec => ImplementsGate
BY BridgeIsSystem, SystemIsStream, Refinement, PTL DEF ImplementsSystem

\* Whenever a bridge's settlement opens a validation, the process that settled the
\* step is the one that dispatched it, and no second append of a step is refused.
THEOREM BridgeEvidenceIsOfOneExecution ==
  BridgeSpec => [](EvidenceOfOneExecution /\ SecondAppendAccepted)
BY BridgeIsSystem, EvidenceIsOfOneExecution, SecondAppendIsAccepted, PTL DEF ImplementsSystem
=============================================================================
