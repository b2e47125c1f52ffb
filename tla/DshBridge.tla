------------------------------ MODULE DshBridge ------------------------------
(***************************************************************************)
(* The DeepSeek Harness in front of a run (packages/dsh-adapter/src/       *)
(* index.ts): every supervisor of Supervisor is the one a durable bridge   *)
(* keeps for the run, and is called by the harness' listeners only.  Each  *)
(* process hosts one agent, whose listeners run one after the other.       *)
(*                                                                         *)
(* A model step is an attempt of the node dsh-pre-step: journaled as       *)
(* started before the harness goes on, remembered in memory until the      *)
(* session reports step/end, and settled by the next listener that runs.   *)
(* The attempt's id is derived from the step's coordinates, so a listener  *)
(* that is entered again, or an agent that is replayed after a restart,    *)
(* uses it again.                                                          *)
(*                                                                         *)
(* Ids of events are taken to be new, as in RunStream: the host passes an  *)
(* id factory that survives restarts.                                      *)
(*                                                                         *)
(* An operator marked Mutant is a mistake one could make in the definition *)
(* that follows it, kept to show which property notices it.                *)
(***************************************************************************)
EXTENDS Supervisor

CONSTANT PreStep    \* the node dsh-pre-step

ASSUME PreStepAssumption == PreStep \in Nodes

VARIABLES
    attached,   \* the processes whose bridge keeps a Supervisor of the run
    pending,    \* pendingSteps: the step a bridge waits for, and if it ended
    listener    \* the listener each process is in

bridgeVars == <<attached, pending, listener>>
allVars == <<view, issued, approvals, refused, revoked, evidenceGraph, pauseHeld,
             lease, control, tasks, command, faults, commands, work,
             attached, pending, listener>>

NoStep == [attempt |-> None, ended |-> FALSE]
Begun(a) == [attempt |-> a, ended |-> FALSE]
Ended(a) == [attempt |-> a, ended |-> TRUE]
NoListener == [at |-> "idle", goal |-> "stop", attempt |-> None, request |-> 0]

\* goal is what the listener does once the last step is reconciled: ask for
\* admission and then begin a step, begin it at once, or nothing (turn-stopping).
Listener == [at : {"idle", "attach", "reconcile", "validate", "proceed", "superseded",
                   "ask", "begin", "running"},
             goal : {"request", "begin", "stop"},
             attempt : Attempts \union {None}, request : Nat]

BridgeTypeOK ==
    /\ attached \subseteq Supervisors
    /\ pending \in [Supervisors -> [attempt : Attempts, ended : BOOLEAN] \union {NoStep}]
    /\ listener \in [Supervisors -> Listener]
    /\ \A p \in Supervisors :
          listener[p].attempt = None => listener[p].goal = "stop" /\ listener[p].at # "begin"

\* The first pre-step of a process created the run, with a gate; createRun returned,
\* or threw because the lease was lost before it was recorded.
BridgeInit ==
    /\ SystemInit
    /\ view.requiresHitl
    /\ attached \in {{lease}, {}}
    /\ pending = [p \in Supervisors |-> NoStep]
    /\ \E a \in Attempts, goal \in {"request", "begin"} :
          listener = [p \in Supervisors |->
                        IF p \in attached
                        THEN [at |-> "reconcile", goal |-> goal, attempt |-> a, request |-> 0]
                        ELSE NoListener]

MoveTo(p, point) == listener' = [listener EXCEPT ![p].at = point]
Leave(p) == listener' = [listener EXCEPT ![p] = NoListener]
Reconciled(p) == IF listener[p].goal = "stop" THEN Leave(p) ELSE MoveTo(p, "proceed")

\* Mutant: a step whose end was not seen is taken to have ended.
StepBegun(p) == pending[p] # NoStep
StepEnded(p) == pending[p].ended

-----------------------------------------------------------------------------
(* supervisorFor: the first listener of a process attaches by recover.     *)

\* A process whose last attempt to attach failed while it held the lease has to
\* wait for that row to expire like anybody else.
EnterPreStep(p, a, goal) ==
    /\ listener[p].at = "idle"
    /\ IF p \in attached THEN UNCHANGED systemVars ELSE RecoverRead(p)
    /\ listener' = [listener EXCEPT ![p] =
                      [at |-> IF p \in attached THEN "reconcile" ELSE "attach",
                       goal |-> goal, attempt |-> a, request |-> 0]]
    /\ UNCHANGED <<attached, pending>>

\* recover returns, or throws because the run is held, was recovered by another
\* process meanwhile, or was taken over before its last append.
Attach(p) ==
    /\ listener[p].at = "attach"
    /\ RecoverStep(p)
    /\ LET returns == control[p].at = "recheck" /\ (Owns(p) \/ ~MayRecover(view))
       IN /\ attached' = IF returns THEN attached \union {p} ELSE attached
          /\ IF returns THEN MoveTo(p, "reconcile")
             ELSE IF control'[p].at = "idle" THEN Leave(p) ELSE UNCHANGED listener
    /\ UNCHANGED pending

-----------------------------------------------------------------------------
(* reconcile: settle the step that ended, then await its validator.        *)

TurnStopping(p) ==
    /\ listener[p].at = "idle"
    /\ MoveTo(p, "reconcile")
    /\ UNCHANGED <<systemVars, attached, pending>>

NothingToReconcile(p) ==
    /\ listener[p].at = "reconcile"
    /\ ~StepEnded(p)
    /\ Reconciled(p)
    /\ UNCHANGED <<systemVars, attached, pending>>

SettleStep(p) ==
    /\ listener[p].at = "reconcile"
    /\ StepEnded(p)
    /\ \E t \in tasks[p] : t.attempt = pending[p].attempt /\ ExecutionSucceeded(p, t)
    /\ MoveTo(p, "validate")
    /\ UNCHANGED <<attached, pending>>

ValidatorAnswers(p, passed) ==
    /\ listener[p].at = "validate"
    /\ \E t \in tasks[p] : t.attempt = pending[p].attempt /\ Validated(p, t, passed)
    /\ pending' = [pending EXCEPT ![p] = NoStep]
    /\ Reconciled(p)
    /\ UNCHANGED attached

\* The validator throws or its result is refused: the step stays pending.
ValidatorThrows(p) ==
    /\ listener[p].at = "validate"
    /\ \E t \in tasks[p] : t.attempt = pending[p].attempt /\ TaskThrows(p, t)
    /\ Leave(p)
    /\ UNCHANGED <<attached, pending>>

-----------------------------------------------------------------------------
(* requestAdmissionHitl, decideAdmissionHitl, and the rest of preStep.     *)

SupersedeLast(p) ==
    /\ listener[p].at = "proceed"
    /\ view.phase = "VALIDATED"
    /\ MayCall(p)
    /\ Supersede(PreStep)
    /\ MoveTo(p, "superseded")
    /\ UNCHANGED processVars
    /\ UNCHANGED <<attached, pending>>

RequestAdmissionHitl(p) ==
    /\ listener[p].at \in {"proceed", "superseded"} /\ listener[p].goal = "request"
    /\ MayCall(p)
    /\ RequestAdmission
    /\ listener' = [listener EXCEPT ![p].at = "ask", ![p].request = NextRequest]
    /\ UNCHANGED processVars
    /\ UNCHANGED <<attached, pending>>

\* Mutant: any answer of the human clears the gate.
DecideAnyAdmissionHitl(p, decision) ==
    /\ listener[p].at = "ask"
    /\ MayCall(p)
    /\ DecideAdmission(listener[p].request, decision)
    /\ listener' = [listener EXCEPT ![p].at = "reconcile", ![p].goal = "begin"]
    /\ UNCHANGED processVars
    /\ UNCHANGED <<attached, pending>>

\* Mutant: the decision is written although the lease may be lost by now.
DecideUnownedAdmissionHitl(p, decision) ==
    /\ listener[p].at = "ask"
    /\ DecideAdmission(listener[p].request, decision)
    /\ IF decision = "APPROVED"
       THEN listener' = [listener EXCEPT ![p].at = "reconcile", ![p].goal = "begin"]
       ELSE Leave(p)
    /\ UNCHANGED processVars
    /\ UNCHANGED <<attached, pending>>

\* The approval service answers or throws; its decision is made durable first.
DecideAdmissionHitl(p, decision) ==
    /\ listener[p].at = "ask"
    /\ MayCall(p)
    /\ DecideAdmission(listener[p].request, decision)
    /\ IF decision = "APPROVED"
       THEN listener' = [listener EXCEPT ![p].at = "reconcile", ![p].goal = "begin"]
       ELSE Leave(p)
    /\ UNCHANGED processVars
    /\ UNCHANGED <<attached, pending>>

\* The listener was entered before for the same step: next() is called at once.
Reenter(p) ==
    /\ listener[p].at = "proceed" /\ listener[p].goal = "begin"
    /\ view.active.attempt = listener[p].attempt
    /\ MoveTo(p, "running")
    /\ UNCHANGED <<systemVars, attached, pending>>

BeginStep(p) ==
    /\ listener[p].at \in {"proceed", "superseded"} /\ listener[p].goal = "begin"
    /\ BeginAttempt(p, PreStep, listener[p].attempt)
    /\ MoveTo(p, "begin")
    /\ UNCHANGED <<attached, pending>>

StartStep(p) ==
    /\ listener[p].at = "begin"
    /\ StartAttempt(p)
    /\ IF Owns(p) /\ MayStart(view, PreStep, listener[p].attempt)
       THEN /\ pending' = [pending EXCEPT ![p] = Begun(listener[p].attempt)]
            /\ MoveTo(p, "running")
       ELSE /\ Leave(p)
            /\ UNCHANGED pending
    /\ UNCHANGED attached

StartFails(p) ==
    /\ listener[p].at = "begin"
    /\ StorageFails(p)
    /\ Leave(p)
    /\ UNCHANGED <<attached, pending>>

\* Mutant: the step is remembered before it is begun.
RejectRemembered(p) ==
    /\ \/ listener[p].at = "reconcile" /\ StepEnded(p)
       \/ listener[p].at \in {"proceed", "superseded", "ask"}
    /\ pending' = IF listener[p].at # "reconcile" /\ listener[p].goal = "begin"
                  THEN [pending EXCEPT ![p] = Begun(listener[p].attempt)] ELSE pending
    /\ Leave(p)
    /\ UNCHANGED <<systemVars, attached>>

\* An append is refused or fails: the listener answers reject, or ends the turn.
Reject(p) ==
    /\ \/ listener[p].at = "reconcile" /\ StepEnded(p)
       \/ listener[p].at \in {"proceed", "superseded", "ask"}
    /\ Leave(p)
    /\ UNCHANGED <<systemVars, attached, pending>>

-----------------------------------------------------------------------------
(* The harness runs the step it admitted.                                  *)

\* The session reports step/end (observeStepEnd), or the step is aborted.
ReturnStep(p, ended) ==
    /\ listener[p].at = "running"
    /\ pending' = IF ended /\ pending[p].attempt = listener[p].attempt
                  THEN [pending EXCEPT ![p] = Ended(listener[p].attempt)] ELSE pending
    /\ Leave(p)
    /\ UNCHANGED <<systemVars, attached>>

BridgeCrash(p) ==
    /\ Crash(p)
    /\ attached' = attached \ {p}
    /\ pending' = [pending EXCEPT ![p] = NoStep]
    /\ Leave(p)

\* What happens to the run outside the bridges.
Environment ==
    /\ \/ \E o \in Operators : OperatorCommand(o) \/ CommandCrashes(o) \/ CommandFails(o)
       \/ IdleLapse
       \/ Lapse
    /\ UNCHANGED bridgeVars

-----------------------------------------------------------------------------
Reconcile(p) ==
    \/ NothingToReconcile(p)
    \/ SettleStep(p)
    \/ \E passed \in BOOLEAN : ValidatorAnswers(p, passed)
    \/ ValidatorThrows(p)

Proceed(p) ==
    \/ SupersedeLast(p)
    \/ RequestAdmissionHitl(p)
    \/ \E decision \in Decisions : DecideAdmissionHitl(p, decision)
    \/ Reenter(p)
    \/ BeginStep(p)
    \/ StartStep(p)
    \/ StartFails(p)
    \/ Reject(p)

HarnessStep(p) ==
    \/ \E a \in Attempts, goal \in {"request", "begin"} : EnterPreStep(p, a, goal)
    \/ Attach(p)
    \/ TurnStopping(p)
    \/ Reconcile(p)
    \/ Proceed(p)
    \/ \E ended \in BOOLEAN : ReturnStep(p, ended)
    \/ BridgeCrash(p)

BridgeNext ==
    \/ \E p \in Supervisors : HarnessStep(p)
    \/ Environment

BridgeSpec == BridgeInit /\ [][BridgeNext]_allVars

-----------------------------------------------------------------------------
(* Safety. *)

\* The journal says a step succeeded only if the harness reported its end to the
\* process that says so, however the lease went round meanwhile.
SettledStepEnded ==
    \A p \in Supervisors :
        view.validation.status = "PENDING" /\ work.settledBy = p
        => pending[p] = Ended(view.validation.attempt)

\* An attached owner of the run remembers the step the journal shows as started:
\* otherwise nobody could settle it, and recover, which only another process or
\* a restart runs, would have to throw its result away.
OwnerRemembersStartedStep ==
    \A p \in attached :
        Owns(p) /\ view.active.status = "STARTED"
        => pending[p].attempt = view.active.attempt

\* A step behind the admission gate runs on the approval its listener asked for,
\* which is still the one in the journal as long as the process owns the run.
GatedStepWasApproved ==
    \A p \in Supervisors :
        Owns(p) /\ listener[p].at = "running" /\ listener[p].request # 0
        => view.admission = [status |-> "APPROVED", request |-> listener[p].request]

\* A bridge uses the run as a supervisor may: the bridge adds no behaviour.
ImplementsSystem == SystemSpec

-----------------------------------------------------------------------------
(* What the documentation says and the bridge does not do. *)

\* index.ts:86-87: a step is journaled as a started attempt before the harness
\* advances the model request.
JournaledBeforeAdmitted ==
    [][\A p \in Supervisors :
          listener[p].at # "running" /\ listener'[p].at = "running"
          => /\ view'.active.status = "STARTED"
             /\ SameAttempt(view', PreStep, listener[p].attempt)]_allVars
=============================================================================
