------------------------- MODULE Supervisor_proofs --------------------------
(***************************************************************************)
(* The processes of Supervisor together produce nothing but what the       *)
(* stream of RunStream allows, so whatever holds of every stream holds of  *)
(* a run that several supervisors and operators drive through crashes and  *)
(* lost leases.                                                            *)
(***************************************************************************)
EXTENDS Supervisor, RunStream_proofs

\* Moving one supervisor, or adding one awaited call, keeps the types.
LEMMA GoToTyped ==
  ASSUME control \in [Supervisors -> Step], NEW p \in Supervisors,
         NEW step \in Step, GoTo(p, step)
  PROVE  control' \in [Supervisors -> Step]
BY DEF GoTo

LEMMA AwaitTyped ==
  ASSUME tasks \in [Supervisors -> SUBSET Task], NEW p \in Supervisors,
         NEW task \in Task, Await(p, task)
  PROVE  tasks' \in [Supervisors -> SUBSET Task]
BY DEF Await

LEMMA AnsweredTyped ==
  ASSUME tasks \in [Supervisors -> SUBSET Task], NEW p \in Supervisors,
         NEW task, Answered(p, task)
  PROVE  tasks' \in [Supervisors -> SUBSET Task]
BY DEF Answered

LEMMA PlainSteps ==
  /\ \A point \in {"idle", "acquire", "acquireRecovered", "recordLease", "recheck"} :
        At(point) \in Step
  /\ Idle \in Step
BY DEF At, Idle, Step

LEMMA StepWithArguments ==
  /\ \A n \in Nodes, a \in Attempts : Starting(n, a) \in Step /\ Execution(n, a) \in Task
  /\ \A c \in PreparedGeneration :
        Promoting(c) \in Step /\ Publication(c) \in Task
  /\ \A c \in PreparedGeneration, r \in Nat : Approval(r, c) \in Task
BY DEF Starting, Promoting, Execution, Publication, Approval, Step, Task

\* What the arguments of a step or of an awaited call are.
LEMMA StepArguments ==
  ASSUME NEW step \in Step
  PROVE  /\ step.at = "start" => step.node \in Nodes /\ step.attempt \in Attempts
         /\ step.at = "promote" => step.candidate \in PreparedGeneration
BY DEF Step

LEMMA TaskArguments ==
  ASSUME NEW t \in Task
  PROVE  /\ t.await \in {"execution", "validation"} =>
               /\ t.node \in Nodes /\ t.attempt \in Attempts
               /\ [t EXCEPT !.await = "validation"] \in Task
         /\ t.await \in {"publication", "approval"} =>
               t.candidate \in PreparedGeneration /\ t.request \in Nat
BY DEF Task

LEMMA SystemInitTyped == SystemInit => SystemTypeOK
<1> SUFFICES ASSUME SystemInit PROVE SystemTypeOK
  OBVIOUS
<1>1. TypeOK
  BY InitInv DEF SystemInit, IInv
<1>2. control \in [Supervisors -> Step]
  BY PlainSteps DEF SystemInit
<1>3. tasks \in [Supervisors -> SUBSET Task]
  BY DEF SystemInit
<1>4. command \in [Operators -> Command]
  BY DEF SystemInit, Command
<1>5. lease \in Processes \union {Free, Orphaned}
  BY DEF SystemInit, Processes
<1>6. faults \in 0..MaxFaults /\ commands \in 0..MaxCommands
  BY FaultBoundsAreNaturals DEF SystemInit
<1>7. QED
  BY <1>1, <1>2, <1>3, <1>4, <1>5, <1>6
  DEF SystemInit, SystemTypeOK, ProcessTypeOK, NoWork

-----------------------------------------------------------------------------
(* The records the processes keep stay well typed.                         *)

LEMMA RecoverStepTyped ==
  ASSUME SystemTypeOK, NEW p \in Supervisors, RecoverRead(p) \/ RecoverStep(p)
  PROVE  ProcessTypeOK'
<1> USE DEF SystemTypeOK, ProcessTypeOK
<1>1. CASE RecoverRead(p)
  <2>1. control' \in [Supervisors -> Step]
    BY <1>1, PlainSteps, GoToTyped DEF RecoverRead
  <2>2. QED
    BY <1>1, <2>1 DEF RecoverRead
<1>2. CASE RecoverAcquire(p)
  <2>1. control' \in [Supervisors -> Step]
    BY <1>2, PlainSteps, GoToTyped DEF RecoverAcquire
  <2>2. QED
    BY <1>2, <2>1 DEF RecoverAcquire, Processes
<1>3. CASE RecoverRecordLease(p)
  <2>1. control' \in [Supervisors -> Step]
    BY <1>3, PlainSteps, GoToTyped DEF RecoverRecordLease
  <2>2. QED
    BY <1>3, <2>1 DEF RecoverRecordLease
<1>4. CASE RecoverRecheck(p)
  <2>1. control' \in [Supervisors -> Step]
    BY <1>4, PlainSteps, GoToTyped DEF RecoverRecheck
  <2>2. QED
    BY <1>4, <2>1 DEF RecoverRecheck, NoWork
<1>5. QED
  BY <1>1, <1>2, <1>3, <1>4 DEF RecoverStep

LEMMA AttemptTyped ==
  ASSUME SystemTypeOK, NEW p \in Supervisors,
         \/ \E n \in Nodes, a \in Attempts : BeginAttempt(p, n, a)
         \/ StartAttempt(p)
         \/ \E t \in tasks[p] :
               \/ ExecutionFailed(p, t)
               \/ ExecutionSucceeded(p, t)
               \/ \E passed \in BOOLEAN : Validated(p, t, passed)
               \/ TaskThrows(p, t)
  PROVE  ProcessTypeOK'
<1> USE DEF SystemTypeOK, ProcessTypeOK
<1>1. ASSUME NEW n \in Nodes, NEW a \in Attempts, BeginAttempt(p, n, a)
      PROVE  ProcessTypeOK'
  <2>1. control' \in [Supervisors -> Step]
    BY <1>1, StepWithArguments, GoToTyped DEF BeginAttempt
  <2>2. QED
    BY <1>1, <2>1 DEF BeginAttempt, NoWork, Processes
<1>2. CASE StartAttempt(p)
  <2>1. control' \in [Supervisors -> Step]
    BY <1>2, PlainSteps, GoToTyped DEF StartAttempt
  <2>2. control[p].node \in Nodes /\ control[p].attempt \in Attempts
    BY <1>2, StepArguments DEF StartAttempt
  <2>3. tasks' \in [Supervisors -> SUBSET Task]
    BY <1>2, <2>2, StepWithArguments, AwaitTyped DEF StartAttempt
  <2>4. QED
    BY <1>2, <2>1, <2>3 DEF StartAttempt
<1>3. ASSUME NEW t \in tasks[p], ExecutionFailed(p, t)
      PROVE  ProcessTypeOK'
  <2>1. tasks' \in [Supervisors -> SUBSET Task]
    BY <1>3, AnsweredTyped DEF ExecutionFailed
  <2>2. QED
    BY <1>3, <2>1 DEF ExecutionFailed, NoWork
<1>4. ASSUME NEW t \in tasks[p], ExecutionSucceeded(p, t)
      PROVE  ProcessTypeOK'
  <2>1. [t EXCEPT !.await = "validation"] \in Task
    BY <1>4, TaskArguments DEF ExecutionSucceeded
  <2>2. tasks' \in [Supervisors -> SUBSET Task]
    BY <1>4, <2>1 DEF ExecutionSucceeded
  <2>3. QED
    BY <1>4, <2>2 DEF ExecutionSucceeded, Processes
<1>5. ASSUME NEW t \in tasks[p], TaskThrows(p, t) \/ \E passed \in BOOLEAN : Validated(p, t, passed)
      PROVE  ProcessTypeOK'
  <2>1. tasks' \in [Supervisors -> SUBSET Task]
    BY <1>5, AnsweredTyped DEF Validated, TaskThrows
  <2>2. QED
    BY <1>5, <2>1 DEF Validated, TaskThrows
<1>6. QED
  BY <1>1, <1>2, <1>3, <1>4, <1>5

LEMMA PromotionTyped ==
  ASSUME SystemTypeOK, NEW p \in Supervisors,
         \/ \E g \in Generations, spec \in LoopSpecs : PrepareGeneration(p, g, spec)
         \/ \E c \in view.prepared : RequestHitlAndPromote(p, c)
         \/ \E t \in tasks[p] :
               Published(p, t) \/ \E decision \in Decisions : GateAnswered(p, t, decision)
         \/ PromoteApproved(p)
         \/ OneAppend(p)
  PROVE  ProcessTypeOK'
<1> USE DEF SystemTypeOK, ProcessTypeOK
<1>1. ASSUME NEW g \in Generations, NEW spec \in LoopSpecs, PrepareGeneration(p, g, spec)
      PROVE  ProcessTypeOK'
  <2>1. [gen |-> g, val |-> view.validation.id, spec |-> spec] \in PreparedGeneration
    BY DEF TypeOK, RunView, ValidationState, PreparedGeneration
  <2>2. tasks' \in [Supervisors -> SUBSET Task]
    BY <1>1, <2>1, StepWithArguments, AwaitTyped DEF PrepareGeneration
  <2>3. QED
    BY <1>1, <2>2 DEF PrepareGeneration
<1>2. ASSUME NEW c \in view.prepared, RequestHitlAndPromote(p, c)
      PROVE  ProcessTypeOK'
  <2>1. c \in PreparedGeneration /\ NextRequest \in Nat
    BY DEF TypeOK, RunView, NextRequest
  <2>2. tasks' \in [Supervisors -> SUBSET Task]
    BY <1>2, <2>1, StepWithArguments, AwaitTyped DEF RequestHitlAndPromote
  <2>3. QED
    BY <1>2, <2>2 DEF RequestHitlAndPromote
<1>3. ASSUME NEW t \in tasks[p], Published(p, t)
      PROVE  ProcessTypeOK'
  <2>1. tasks' \in [Supervisors -> SUBSET Task]
    BY <1>3, AnsweredTyped DEF Published
  <2>2. QED
    BY <1>3, <2>1 DEF Published
<1>4. ASSUME NEW t \in tasks[p], NEW decision \in Decisions, GateAnswered(p, t, decision)
      PROVE  ProcessTypeOK'
  <2>1. tasks' \in [Supervisors -> SUBSET Task]
    BY <1>4, AnsweredTyped DEF GateAnswered
  <2>2. t.candidate \in PreparedGeneration
    BY <1>4, TaskArguments DEF GateAnswered
  <2>3. control' \in [Supervisors -> Step]
    BY <1>4, <2>2, PlainSteps, StepWithArguments, GoToTyped DEF GateAnswered
  <2>4. QED
    BY <1>4, <2>1, <2>3 DEF GateAnswered
<1>5. CASE PromoteApproved(p)
  <2>1. control' \in [Supervisors -> Step]
    BY <1>5, PlainSteps, GoToTyped DEF PromoteApproved
  <2>2. QED
    BY <1>5, <2>1 DEF PromoteApproved
<1>6. CASE OneAppend(p)
  BY <1>6 DEF OneAppend, processVars
<1>7. QED
  BY <1>1, <1>2, <1>3, <1>4, <1>5, <1>6

LEMMA OperatorTyped ==
  ASSUME SystemTypeOK, NEW o \in Operators, OperatorCommand(o)
  PROVE  ProcessTypeOK'
<1> USE DEF SystemTypeOK, ProcessTypeOK, Command
<1>1. ASSUME NEW what \in {"pause", "resume", "promote", "rollback"}, CommandAcquires(o, what)
      PROVE  ProcessTypeOK'
  BY <1>1, FaultBoundsAreNaturals DEF CommandAcquires, Processes
<1>2. CASE \/ CommandRequestsPause(o) \/ CommandPauses(o) \/ CommandResumes(o)
           \/ \E c \in view.prepared : CommandPromotes(o, c)
           \/ \E q \in view.promoted : CommandRollsBack(o, q)
  BY <1>2 DEF CommandRequestsPause, CommandPauses, CommandResumes, CommandPromotes,
              CommandRollsBack, CommandAppends
<1>3. CASE CommandRefused(o) \/ CommandReleases(o)
  BY <1>3 DEF CommandRefused, CommandReleases
<1>4. QED
  BY <1>1, <1>2, <1>3 DEF OperatorCommand, CommandStep

LEMMA FaultTyped ==
  ASSUME SystemTypeOK, Fault
  PROVE  ProcessTypeOK'
<1> USE DEF SystemTypeOK, ProcessTypeOK
<1>1. ASSUME NEW p \in Supervisors, Crash(p)
      PROVE  ProcessTypeOK'
  <2>1. control' \in [Supervisors -> Step]
    BY <1>1, PlainSteps, GoToTyped DEF Crash
  <2>2. tasks' \in [Supervisors -> SUBSET Task]
    BY <1>1 DEF Crash
  <2>3. work' \in [dispatchedBy : Processes \union {None, Gone},
                   settledBy : Processes \union {None, Gone}]
    BY <1>1 DEF Crash
  <2>4. QED
    BY <1>1, <2>1, <2>2, <2>3, FaultBoundsAreNaturals DEF Crash, Orphan
<1>2. ASSUME NEW o \in Operators, CommandCrashes(o)
      PROVE  ProcessTypeOK'
  BY <1>2, FaultBoundsAreNaturals DEF CommandCrashes, Orphan, Command
<1>3. ASSUME NEW p \in Supervisors, StorageFails(p)
      PROVE  ProcessTypeOK'
  <2>1. control' \in [Supervisors -> Step]
    BY <1>3, PlainSteps, GoToTyped DEF StorageFails
  <2>2. QED
    BY <1>3, <2>1, FaultBoundsAreNaturals DEF StorageFails
<1>4. ASSUME NEW o \in Operators, CommandFails(o)
      PROVE  ProcessTypeOK'
  BY <1>4, FaultBoundsAreNaturals DEF CommandFails, Command
<1>5. CASE IdleLapse \/ Lapse
  BY <1>5, FaultBoundsAreNaturals DEF IdleLapse, Lapse
<1>6. QED
  BY <1>1, <1>2, <1>3, <1>4, <1>5 DEF Fault

LEMMA ProcessTypePreserved ==
  ASSUME SystemTypeOK, [SystemNext]_systemVars
  PROVE  ProcessTypeOK'
<1>1. ASSUME NEW p \in Supervisors, SupervisorStep(p)
      PROVE  ProcessTypeOK'
  BY <1>1, RecoverStepTyped, AttemptTyped, PromotionTyped
  DEF SupervisorStep, SynchronousStep, CallerStep, TaskEnds
<1>2. CASE UNCHANGED systemVars
  BY <1>2 DEF systemVars, SystemTypeOK, ProcessTypeOK
<1>3. QED
  BY <1>1, <1>2, OperatorTyped, FaultTyped DEF SystemNext

-----------------------------------------------------------------------------
(* Every step of a process is a step of the stream or invisible to it.     *)

LEMMA RecoverIsStream ==
  ASSUME SystemTypeOK, NEW p \in Supervisors, RecoverRead(p) \/ RecoverStep(p)
  PROVE  [Next]_vars
BY DEF RecoverRead, RecoverStep, RecoverAcquire, RecoverRecordLease, RecoverRecheck,
       Next, ProcessStep

LEMMA AttemptIsStream ==
  ASSUME SystemTypeOK, NEW p \in Supervisors,
         \/ \E n \in Nodes, a \in Attempts : BeginAttempt(p, n, a)
         \/ StartAttempt(p)
         \/ \E t \in tasks[p] :
               \/ ExecutionFailed(p, t)
               \/ ExecutionSucceeded(p, t)
               \/ \E passed \in BOOLEAN : Validated(p, t, passed)
               \/ TaskThrows(p, t)
  PROVE  [Next]_vars
<1> USE DEF SystemTypeOK, ProcessTypeOK
<1>1. ASSUME NEW n \in Nodes, NEW a \in Attempts, BeginAttempt(p, n, a)
      PROVE  [Next]_vars
  BY <1>1 DEF BeginAttempt, Next, AttemptStep
<1>2. CASE StartAttempt(p)
  <2>1. control[p].node \in Nodes /\ control[p].attempt \in Attempts
    BY <1>2, StepArguments DEF StartAttempt
  <2>2. QED
    BY <1>2, <2>1 DEF StartAttempt, Next, AttemptStep
<1>3. ASSUME NEW t \in tasks[p], t.await \in {"execution", "validation"},
             \/ ExecutionFailed(p, t)
             \/ ExecutionSucceeded(p, t)
             \/ \E passed \in BOOLEAN : Validated(p, t, passed)
      PROVE  [Next]_vars
  <2>1. t.node \in Nodes /\ t.attempt \in Attempts
    BY <1>3, TaskArguments
  <2>2. QED
    BY <1>3, <2>1 DEF ExecutionFailed, ExecutionSucceeded, Validated, Next, AttemptStep
<1>4. QED
  BY <1>1, <1>2, <1>3 DEF TaskThrows, ExecutionFailed, ExecutionSucceeded, Validated

LEMMA PromotionIsStream ==
  ASSUME SystemTypeOK, IInv, NEW p \in Supervisors,
         \/ \E g \in Generations, spec \in LoopSpecs : PrepareGeneration(p, g, spec)
         \/ \E c \in view.prepared : RequestHitlAndPromote(p, c)
         \/ \E t \in tasks[p] :
               Published(p, t) \/ \E decision \in Decisions : GateAnswered(p, t, decision)
         \/ PromoteApproved(p)
         \/ OneAppend(p)
  PROVE  [Next]_vars
<1> USE DEF SystemTypeOK, ProcessTypeOK
<1>1. ASSUME NEW g \in Generations, NEW spec \in LoopSpecs, PrepareGeneration(p, g, spec)
      PROVE  [Next]_vars
  BY <1>1 DEF PrepareGeneration
<1>2. ASSUME NEW c \in view.prepared, RequestHitlAndPromote(p, c)
      PROVE  [Next]_vars
  BY <1>2 DEF RequestHitlAndPromote, Next, HumanStep
<1>3. ASSUME NEW t \in tasks[p], Published(p, t)
      PROVE  [Next]_vars
  <2>1. t.candidate.gen \in Generations /\ t.candidate.spec \in LoopSpecs
    BY <1>3, TaskArguments DEF Published, PreparedGeneration
  <2>2. QED
    BY <1>3, <2>1 DEF Published, Next, OperatorStep
<1>4. ASSUME NEW t \in tasks[p], NEW decision \in Decisions, GateAnswered(p, t, decision)
      PROVE  [Next]_vars
  <2>1. t.request \in 1..issued.request
    BY <1>4, TaskArguments
    DEF GateAnswered, DecideHitl, MayDecideHitl, IInv, IdsIssued, TypeOK, RunView, HitlState
  <2>2. QED
    BY <1>4, <2>1 DEF GateAnswered, Next, HumanStep
<1>5. CASE PromoteApproved(p)
  BY <1>5 DEF PromoteApproved, MayPromote, Next, OperatorStep
<1>6. CASE OneAppend(p)
  BY <1>6 DEF OneAppend, Next, HumanStep, OperatorStep
<1>7. QED
  BY <1>1, <1>2, <1>3, <1>4, <1>5, <1>6

LEMMA OperatorIsStream ==
  ASSUME NEW o \in Operators, OperatorCommand(o)
  PROVE  [Next]_vars
BY DEF OperatorCommand, CommandAcquires, CommandStep, CommandRequestsPause, CommandPauses,
       CommandResumes, CommandPromotes, CommandRollsBack, CommandRefused, CommandReleases,
       Next, OperatorStep

LEMMA FaultIsStream ==
  ASSUME Fault
  PROVE  UNCHANGED vars
BY DEF Fault, Crash, CommandCrashes, StorageFails, CommandFails, IdleLapse, Lapse

LEMMA SystemNextIsStream ==
  ASSUME SystemTypeOK, IInv, [SystemNext]_systemVars
  PROVE  [Next]_vars
<1>1. ASSUME NEW p \in Supervisors, SupervisorStep(p)
      PROVE  [Next]_vars
  BY <1>1, RecoverIsStream, AttemptIsStream, PromotionIsStream
  DEF SupervisorStep, SynchronousStep, CallerStep, TaskEnds
<1>2. CASE UNCHANGED systemVars
  BY <1>2 DEF systemVars, vars
<1>3. QED
  BY <1>1, <1>2, OperatorIsStream, FaultIsStream DEF SystemNext

-----------------------------------------------------------------------------
LEMMA SystemInvInit == SystemInit => SystemTypeOK /\ IInv
BY SystemInitTyped, InitInv DEF SystemInit

LEMMA SystemInvPreserved ==
  ASSUME SystemTypeOK, IInv, [SystemNext]_systemVars
  PROVE  (SystemTypeOK /\ IInv)'
<1>1. IInv'
  BY SystemNextIsStream, NextPreserves
<1>2. ProcessTypeOK'
  BY ProcessTypePreserved
<1>3. QED
  BY <1>1, <1>2 DEF SystemTypeOK, IInv

\* The stream's invariant and the types of the processes hold together.
THEOREM SystemInvariance == SystemSpec => [](SystemTypeOK /\ IInv)
<1>1. SystemTypeOK /\ IInv /\ [SystemNext]_systemVars => (SystemTypeOK /\ IInv)'
  BY SystemInvPreserved
<1>2. QED
  BY <1>1, SystemInvInit, PTL DEF SystemSpec

\* Type correctness of the composed system: every captured argument, awaited
\* call and stage of a command is one its code can be in.
THEOREM SystemTypeCorrectness == SystemSpec => []SystemTypeOK
BY SystemInvariance, PTL

\* The composition implements the stream: supervisors, operators, crashes and
\* lapsed leases add no behaviour to a run's journal.
THEOREM SystemIsStream == SystemSpec => Spec
<1>1. SystemInit => Init
  BY DEF SystemInit
<1>2. SystemTypeOK /\ IInv /\ [SystemNext]_systemVars => [Next]_vars
  BY SystemNextIsStream
<1>3. QED
  BY <1>1, <1>2, SystemInvariance, PTL DEF SystemSpec, Spec
-----------------------------------------------------------------------------
(* The bookkeeping of the processes, ProcessInv.                           *)
(*                                                                         *)
(* What the invariant says of one supervisor, and of one operator.  A step *)
(* of a process leaves alone what it says of every other: whoever appends  *)
(* owns the run, so nothing moves under another owner.                     *)

SupervisorAgrees(p) ==
    Owns(p) =>
        /\ ~InRecover(p) /\ view.active.status # "NONE" =>
               work.dispatchedBy = p /\ view.phase = "RUNNING"
        /\ control[p].at = "start" => MayStart(view, control[p].node, control[p].attempt)
        /\ control[p].at = "promote" => MayPromote(view, control[p].candidate)

OperatorAgrees(o) == Owns(o) /\ command[o] = "paused" => MayPause(view)

LEMMA BystandingSupervisor ==
  ASSUME NEW q \in Supervisors, SupervisorAgrees(q), control'[q] = control[q],
         lease' = q => lease = q /\ view' = view /\ work'.dispatchedBy = work.dispatchedBy
  PROVE  SupervisorAgrees(q)'
BY DEF SupervisorAgrees, Owns, InRecover

LEMMA BystandingOperator ==
  ASSUME NEW o \in Operators, OperatorAgrees(o), command'[o] = command[o],
         lease' = o => lease = o /\ view' = view
  PROVE  OperatorAgrees(o)'
BY DEF OperatorAgrees, Owns

\* No process is both a supervisor and an operator, or a sentinel of the lease.
LEMMA Distinct ==
  /\ \A p \in Supervisors, o \in Operators : p # o
  /\ \A p \in Processes : p # Free /\ p # Orphaned /\ p # Gone /\ p # None
BY ProcessesAssumption DEF Processes

\* A step of a supervisor moves nobody else, takes no lease from anybody, and
\* does nothing to a run another process owns.
LEMMA SupervisorStepFrame ==
  ASSUME SystemTypeOK, NEW p \in Supervisors, SupervisorStep(p)
  PROVE  /\ \A q \in Supervisors : q # p => control'[q] = control[q]
         /\ command' = command
         /\ lease' \in {lease, p}
         /\ lease # p => view' = view /\ work' = work
<1> USE DEF SystemTypeOK, ProcessTypeOK, GoTo
<1>1. CASE SynchronousStep(p)
  BY <1>1 DEF SynchronousStep, RecoverStep, RecoverAcquire, RecoverRecordLease,
              RecoverRecheck, StartAttempt, PromoteApproved, Owns, vars
<1>2. CASE CallerStep(p)
  BY <1>2 DEF CallerStep, RecoverRead, BeginAttempt, PrepareGeneration,
              RequestHitlAndPromote, OneAppend, MayCall, Owns, vars, processVars
<1>3. ASSUME NEW t \in tasks[p], TaskEnds(p, t)
      PROVE  /\ \A q \in Supervisors : q # p => control'[q] = control[q]
             /\ command' = command
             /\ lease' \in {lease, p}
             /\ lease # p => view' = view /\ work' = work
  BY <1>3 DEF TaskEnds, ExecutionFailed, ExecutionSucceeded, Validated, Published,
              GateAnswered, TaskThrows, MayCall, Owns, vars
<1>4. QED
  BY <1>1, <1>2, <1>3 DEF SupervisorStep

LEMMA RecoverAgrees ==
  ASSUME SystemTypeOK, IInv, NEW p \in Supervisors, SupervisorAgrees(p),
         RecoverRead(p) \/ RecoverStep(p)
  PROVE  SupervisorAgrees(p)'
<1> USE DEF SystemTypeOK, ProcessTypeOK, GoTo, Owns, InRecover, At, Idle
<1>1. CASE RecoverRead(p)
  BY <1>1 DEF RecoverRead, SupervisorAgrees
<1>2. CASE RecoverAcquire(p)
  <2>1. CASE lease = Free
    BY <1>2, <2>1 DEF RecoverAcquire, SupervisorAgrees
  <2>2. CASE lease # Free
    <3>1. control'[p].at = "idle" /\ lease' = lease /\ view' = view /\ work' = work
      BY <1>2, <2>2 DEF RecoverAcquire, vars
    <3>2. ~InRecover(p)
      BY <1>2 DEF RecoverAcquire
    <3>3. QED
      BY <3>1, <3>2 DEF SupervisorAgrees
  <2>3. QED
    BY <2>1, <2>2
<1>3. CASE RecoverRecordLease(p)
  <2>1. lease' = lease /\ view' = view /\ work' = work
    BY <1>3 DEF RecoverRecordLease, vars
  <2>2. CASE Owns(p) /\ view.phase # "PAUSED_RECOVERED"
    BY <1>3, <2>1, <2>2 DEF RecoverRecordLease, SupervisorAgrees
  <2>3. CASE Owns(p) /\ view.phase = "PAUSED_RECOVERED"
    <3>1. view.active.status = "NONE"
      BY <2>3 DEF IInv, PhaseCoherent
    <3>2. control'[p].at = "idle"
      BY <1>3, <2>3 DEF RecoverRecordLease
    <3>3. QED
      BY <2>1, <3>1, <3>2 DEF SupervisorAgrees
  <2>4. CASE ~Owns(p)
    BY <2>1, <2>4 DEF SupervisorAgrees
  <2>5. QED
    BY <2>2, <2>3, <2>4
<1>4. CASE RecoverRecheck(p)
  <2>1. lease' = lease /\ control'[p].at = "idle"
    BY <1>4 DEF RecoverRecheck
  <2>2. CASE Owns(p) /\ MayRecover(view)
    <3>1. view'.active.status = "NONE"
      <4>1. view' = RecoveredUncertain(view)
        BY <1>4, <2>2 DEF RecoverRecheck, Recover
      <4>2. RecoveredUncertain(view).active = NoAttempt
        BY DEF RecoveredUncertain, TypeOK, RunView
      <4>3. QED
        BY <4>1, <4>2 DEF NoAttempt
    <3>2. QED
      BY <2>1, <3>1 DEF SupervisorAgrees
  <2>3. CASE Owns(p) /\ ~MayRecover(view)
    <3>1. view.active.status = "NONE"
      BY <2>3 DEF MayRecover, IInv, PhaseCoherent
    <3>2. view' = view
      BY <1>4, <2>3 DEF RecoverRecheck, vars
    <3>3. QED
      BY <2>1, <3>1, <3>2 DEF SupervisorAgrees
  <2>4. CASE ~Owns(p)
    BY <2>1, <2>4 DEF SupervisorAgrees
  <2>5. QED
    BY <2>2, <2>3, <2>4
<1>5. QED
  BY <1>1, <1>2, <1>3, <1>4 DEF RecoverStep

LEMMA AttemptAgrees ==
  ASSUME SystemTypeOK, IInv, NEW p \in Supervisors, SupervisorAgrees(p),
         \/ \E n \in Nodes, a \in Attempts : BeginAttempt(p, n, a)
         \/ StartAttempt(p)
         \/ \E t \in tasks[p] :
               \/ ExecutionFailed(p, t)
               \/ ExecutionSucceeded(p, t)
               \/ \E passed \in BOOLEAN : Validated(p, t, passed)
               \/ TaskThrows(p, t)
  PROVE  SupervisorAgrees(p)'
<1> USE DEF SystemTypeOK, ProcessTypeOK, TypeOK, RunView, GoTo, Owns, InRecover, Idle
<1>1. ASSUME NEW n \in Nodes, NEW a \in Attempts, BeginAttempt(p, n, a)
      PROVE  SupervisorAgrees(p)'
  <2>1. /\ control'[p].at = "start"
        /\ control'[p].node = n /\ control'[p].attempt = a
    BY <1>1 DEF BeginAttempt, Starting
  <2>2. work'.dispatchedBy = p
    BY <1>1 DEF BeginAttempt, NoWork
  <2>3. /\ view'.phase = "RUNNING"
        /\ view'.active = [status |-> "DISPATCH_REQUESTED", node |-> n, attempt |-> a]
    BY <1>1 DEF BeginAttempt, Dispatch, Dispatched
  <2>4. QED
    BY <2>1, <2>2, <2>3 DEF SupervisorAgrees, MayStart, SameAttempt
<1>2. CASE StartAttempt(p)
  <2>1. control'[p].at = "idle" /\ lease' = lease /\ work' = work
    BY <1>2 DEF StartAttempt, At
  <2>2. Owns(p) => work.dispatchedBy = p /\ view'.phase = "RUNNING"
    <3>1. Owns(p) => MayStart(view, control[p].node, control[p].attempt)
      BY <1>2 DEF StartAttempt, SupervisorAgrees
    <3>2. Owns(p) => work.dispatchedBy = p /\ view.phase = "RUNNING"
      BY <1>2, <3>1 DEF StartAttempt, SupervisorAgrees, MayStart
    <3>3. Owns(p) => view'.phase = view.phase
      BY <1>2 DEF StartAttempt, Start, Started, vars
    <3>4. QED
      BY <3>2, <3>3
  <2>3. QED
    BY <2>1, <2>2 DEF SupervisorAgrees
<1>3. ASSUME NEW t \in tasks[p],
             \/ ExecutionFailed(p, t)
             \/ ExecutionSucceeded(p, t)
             \/ \E passed \in BOOLEAN : Validated(p, t, passed)
      PROVE  SupervisorAgrees(p)'
  <2>1. control' = control /\ lease' = lease /\ control[p].at = "idle"
    BY <1>3 DEF ExecutionFailed, ExecutionSucceeded, Validated, MayCall, IsIdle
  <2>2. view'.active.status = "NONE"
    <3>1. CASE ExecutionFailed(p, t)
      BY <3>1 DEF ExecutionFailed, SettleFailed, SettledFailed, NoAttempt
    <3>2. CASE ExecutionSucceeded(p, t)
      BY <3>2 DEF ExecutionSucceeded, SettleSucceeded, SettledSucceeded, NoAttempt
    <3>3. ASSUME NEW passed \in BOOLEAN, Validated(p, t, passed)
          PROVE  view'.active.status = "NONE"
      BY <3>3 DEF Validated, RecordValidation, MayRecordValidation, ValidationRecorded,
                  IInv, PhaseCoherent
    <3>4. QED
      BY <1>3, <3>1, <3>2, <3>3
  <2>3. QED
    BY <2>1, <2>2 DEF SupervisorAgrees
<1>4. ASSUME NEW t \in tasks[p], TaskThrows(p, t)
      PROVE  SupervisorAgrees(p)'
  BY <1>4, BystandingSupervisor DEF TaskThrows, vars
<1>5. QED
  BY <1>1, <1>2, <1>3, <1>4

\* An approval makes the candidate it was asked for promotable at once.
LEMMA ApprovedMayPromote ==
  ASSUME IInv, NEW r \in Nat, MayDecideHitl(view, r),
         NEW c \in PreparedGeneration, HitlCandidate = c, c.val = view.validation.id
  PROVE  MayPromote(HitlDecided(view, "APPROVED"), c)
<1>1. view \in RunView
  BY DEF IInv, TypeOK
<1>2. view.phase = "VALIDATED" /\ view.hitl.status = "PENDING"
  BY DEF MayDecideHitl
<1>3. view.validation.status = "PASSED"
  BY <1>2 DEF IInv, PhaseCoherent
<1>4. c \in view.prepared
  BY <1>2 DEF IInv, ApprovalIsRecorded
<1>5. view.hitl.gen = c.gen /\ view.hitl.val = c.val /\ view.hitl.spec = c.spec
  BY DEF HitlCandidate
<1>6. \A q \in view.promoted : q.gen # c.gen
  BY <1>3, <1>4 DEF IInv, EvidenceIsCurrent
<1> DEFINE v == HitlDecided(view, "APPROVED")
<1>7. /\ v.phase = "VALIDATED" /\ v.validation = view.validation
      /\ v.prepared = view.prepared /\ v.promoted = view.promoted
      /\ v.requiresHitl = view.requiresHitl
  BY <1>1 DEF HitlDecided, RunView
<1>8. /\ v.hitl.status = "APPROVED" /\ v.hitl.gen = view.hitl.gen
      /\ v.hitl.val = view.hitl.val /\ v.hitl.spec = view.hitl.spec
  BY <1>1 DEF HitlDecided, RunView, HitlState
<1>9. QED
  BY <1>3, <1>4, <1>5, <1>6, <1>7, <1>8 DEF MayPromote, HitlSatisfied

LEMMA PromotionAgrees ==
  ASSUME SystemTypeOK, IInv, AwaitedApprovalIsOpen, NEW p \in Supervisors, SupervisorAgrees(p),
         \/ \E g \in Generations, spec \in LoopSpecs : PrepareGeneration(p, g, spec)
         \/ \E c \in view.prepared : RequestHitlAndPromote(p, c)
         \/ \E t \in tasks[p] :
               Published(p, t) \/ \E decision \in Decisions : GateAnswered(p, t, decision)
         \/ PromoteApproved(p)
         \/ OneAppend(p)
  PROVE  SupervisorAgrees(p)'
<1> USE DEF SystemTypeOK, ProcessTypeOK, GoTo, Owns, InRecover, Idle
<1>1. ASSUME NEW g \in Generations, NEW spec \in LoopSpecs, PrepareGeneration(p, g, spec)
      PROVE  SupervisorAgrees(p)'
  BY <1>1, BystandingSupervisor DEF PrepareGeneration, vars
\* A supervisor that is idle before and after, in a run without an attempt.
<1>2. ASSUME control[p].at = "idle", control'[p].at = "idle", view'.active.status = "NONE"
      PROVE  SupervisorAgrees(p)'
  BY <1>2 DEF SupervisorAgrees
<1>3. view.phase \in {"VALIDATED", "READY", "AWAITING_ADMISSION_HITL", "PAUSED", "PAUSED_RECOVERED"}
         => view.active.status = "NONE"
  BY DEF IInv, PhaseCoherent
<1>4. view \in RunView
  BY DEF IInv, TypeOK
<1>5. ASSUME NEW c \in view.prepared, RequestHitlAndPromote(p, c)
      PROVE  SupervisorAgrees(p)'
  <2>1. view.phase = "VALIDATED" /\ view'.active = view.active
    BY <1>5, <1>4 DEF RequestHitlAndPromote, RequestHitl, MayRequestHitl, HitlRequested, RunView
  <2>2. QED
    BY <1>2, <1>3, <1>5, <2>1 DEF RequestHitlAndPromote, MayCall, IsIdle
<1>6. ASSUME NEW t \in tasks[p], Published(p, t)
      PROVE  SupervisorAgrees(p)'
  <2>1. view.phase = "VALIDATED" /\ view'.active = view.active
    BY <1>6, <1>4 DEF Published, Prepare, MayPrepare, Prepared, RunView
  <2>2. QED
    BY <1>2, <1>3, <1>6, <2>1 DEF Published, MayCall, IsIdle
<1>7. ASSUME NEW t \in tasks[p], NEW decision \in Decisions, GateAnswered(p, t, decision)
      PROVE  SupervisorAgrees(p)'
  <2>1. /\ MayDecideHitl(view, t.request) /\ view' = HitlDecided(view, decision)
        /\ t.await = "approval" /\ control[p].at = "idle"
    BY <1>7 DEF GateAnswered, DecideHitl, MayCall, IsIdle
  <2>2. view'.active.status = "NONE"
    BY <2>1, <1>3, <1>4 DEF MayDecideHitl, HitlDecided, RunView
  <2>3. CASE decision # "APPROVED"
    <3>1. control'[p].at = "idle"
      BY <1>7, <2>3 DEF GateAnswered, At
    <3>2. QED
      BY <1>2, <2>1, <2>2, <3>1
  <2>4. CASE decision = "APPROVED"
    <3>1. control'[p].at = "promote" /\ control'[p].candidate = t.candidate
      BY <1>7, <2>4 DEF GateAnswered, Promoting
    <3>2. t.candidate \in PreparedGeneration /\ t.request \in Nat
      BY <2>1, TaskArguments
    <3>3. HitlCandidate = t.candidate /\ t.candidate.val = view.validation.id
      BY <2>1 DEF AwaitedApprovalIsOpen, MayDecideHitl
    <3>4. MayPromote(view', t.candidate)
      BY <2>1, <2>4, <3>2, <3>3, ApprovedMayPromote
    <3>5. QED
      BY <2>2, <3>1, <3>4 DEF SupervisorAgrees
  <2>5. QED
    BY <2>3, <2>4
<1>8. CASE PromoteApproved(p)
  <2>1. control'[p].at = "idle" /\ lease' = lease /\ work' = work
    BY <1>8 DEF PromoteApproved, At
  <2>2. CASE Owns(p) /\ MayPromote(view, control[p].candidate)
    <3>1. view.phase = "VALIDATED" /\ view'.active = view.active
      BY <1>8, <2>2, <1>4 DEF PromoteApproved, Promote, MayPromote, Promoted, RunView
    <3>2. QED
      BY <2>1, <3>1, <1>3 DEF SupervisorAgrees
  <2>3. CASE ~(Owns(p) /\ MayPromote(view, control[p].candidate))
    <3>1. view' = view /\ control[p].at = "promote"
      BY <1>8, <2>3 DEF PromoteApproved, vars
    <3>2. QED
      BY <2>1, <3>1 DEF SupervisorAgrees
  <2>4. QED
    BY <2>2, <2>3
<1>9. CASE OneAppend(p)
  <2>1. control' = control /\ control[p].at = "idle"
    BY <1>9 DEF OneAppend, MayCall, IsIdle, processVars
  <2>2. view'.active.status = "NONE"
    <3>1. ASSUME NEW c \in view.prepared, RequestHitl(c)
          PROVE  view'.active.status = "NONE"
      BY <3>1, <1>3, <1>4 DEF RequestHitl, MayRequestHitl, HitlRequested, RunView
    <3>2. ASSUME NEW r \in Nat, NEW decision \in Decisions, DecideHitl(r, decision)
          PROVE  view'.active.status = "NONE"
      BY <3>2, <1>3, <1>4 DEF DecideHitl, MayDecideHitl, HitlDecided, RunView
    <3>3. ASSUME NEW r \in Nat, NEW decision \in Decisions, DecideAdmission(r, decision)
          PROVE  view'.active.status = "NONE"
      BY <3>3, <1>3, <1>4 DEF DecideAdmission, MayDecideAdmission, AdmissionDecided, RunView
    <3>4. CASE RequestAdmission
      BY <3>4, <1>3, <1>4 DEF RequestAdmission, MayRequestAdmission, AdmissionRequested, RunView
    <3>5. ASSUME NEW n \in Nodes, Supersede(n)
          PROVE  view'.active.status = "NONE"
      BY <3>5, <1>3, <1>4 DEF Supersede, MaySupersede, Superseded, RunView
    <3>6. CASE Resume
      BY <3>6, <1>4 DEF Resume, MayResume, Resumed, RunView
    <3>7. ASSUME NEW q \in view.promoted, RollBack(q)
          PROVE  view'.active.status = "NONE"
      BY <3>7, <1>4 DEF RollBack, MayRollBack, RolledBack, RunView
    <3>8. QED
      BY <1>9, <3>1, <3>2, <3>3, <3>4, <3>5, <3>6, <3>7 DEF OneAppend
  <2>3. QED
    BY <1>2, <2>1, <2>2
<1>10. QED
  BY <1>1, <1>5, <1>6, <1>7, <1>8, <1>9

\* So every step of a supervisor keeps what the invariant says of supervisors.
LEMMA SupervisorStepAgrees ==
  ASSUME SystemTypeOK, IInv, AwaitedApprovalIsOpen,
         \A q \in Supervisors : SupervisorAgrees(q),
         NEW p \in Supervisors, SupervisorStep(p),
         NEW q \in Supervisors
  PROVE  SupervisorAgrees(q)'
<1>1. CASE q = p
  BY <1>1, RecoverAgrees, AttemptAgrees, PromotionAgrees
  DEF SupervisorStep, SynchronousStep, CallerStep, TaskEnds
<1>2. CASE q # p
  <2>1. /\ control'[q] = control[q] /\ lease' \in {lease, p}
        /\ lease # p => view' = view /\ work' = work
    BY <1>2, SupervisorStepFrame
  <2>2. QED
    BY <1>2, <2>1, BystandingSupervisor
<1>3. QED
  BY <1>1, <1>2

\* An operator touches the run only while it owns it, and then no supervisor does.
LEMMA OperatorCommandAgrees ==
  ASSUME SystemTypeOK, \A q \in Supervisors : SupervisorAgrees(q),
         \A q \in Operators : OperatorAgrees(q),
         NEW o \in Operators, OperatorCommand(o)
  PROVE  /\ \A q \in Supervisors : SupervisorAgrees(q)'
         /\ \A q \in Operators : OperatorAgrees(q)'
<1> USE DEF SystemTypeOK, ProcessTypeOK, CommandAppends, Owns
<1>1. /\ control' = control /\ work' = work
      /\ lease' \in {lease, o, Free}
      /\ lease # o => view' = view
      /\ \A q \in Operators : q # o => command'[q] = command[q]
  BY DEF OperatorCommand, CommandAcquires, CommandStep, CommandRequestsPause, CommandPauses,
         CommandResumes, CommandPromotes, CommandRollsBack, CommandRefused, CommandReleases,
         vars
<1>2. ASSUME NEW q \in Supervisors
      PROVE  SupervisorAgrees(q)'
  BY <1>1, Distinct, BystandingSupervisor DEF Processes
<1>3. ASSUME NEW q \in Operators, q # o
      PROVE  OperatorAgrees(q)'
  BY <1>1, <1>3, Distinct, BystandingOperator DEF Processes
<1>4. OperatorAgrees(o)'
  <2>1. CASE CommandRequestsPause(o)
    <3>1. command'[o] = "paused" => view.active.status = "NONE"
      BY <2>1 DEF CommandRequestsPause
    <3>2. view' = PauseRequested(view) /\ view \in RunView
      BY <2>1 DEF CommandRequestsPause, RequestPause, TypeOK
    <3>3. command'[o] = "paused" => MayPause(view')
      BY <3>1, <3>2 DEF PauseRequested, MayPause, RunView
    <3>4. QED
      BY <3>3 DEF OperatorAgrees
  <2>2. CASE ~CommandRequestsPause(o)
    <3>1. command'[o] # "paused"
      BY <2>2 DEF OperatorCommand, CommandAcquires, CommandStep, CommandPauses,
                  CommandResumes, CommandPromotes, CommandRollsBack, CommandRefused,
                  CommandReleases
    <3>2. QED
      BY <3>1 DEF OperatorAgrees
  <2>3. QED
    BY <2>1, <2>2
<1>5. QED
  BY <1>2, <1>3, <1>4

\* A fault moves nothing in the run, and gives the lease to nobody.
LEMMA FaultAgrees ==
  ASSUME SystemTypeOK, \A q \in Supervisors : SupervisorAgrees(q),
         \A q \in Operators : OperatorAgrees(q),
         Fault
  PROVE  /\ \A q \in Supervisors : SupervisorAgrees(q)'
         /\ \A q \in Operators : OperatorAgrees(q)'
<1> USE DEF SystemTypeOK, ProcessTypeOK, GoTo, Owns, Orphan
<1>1. view' = view /\ lease' \in {lease, Free, Orphaned}
  BY DEF Fault, Crash, CommandCrashes, StorageFails, CommandFails, IdleLapse, Lapse, vars
<1>2. ASSUME NEW q \in Operators
      PROVE  OperatorAgrees(q)'
  <2>1. command'[q] \in {command[q], "idle", "done"}
    BY DEF Fault, Crash, CommandCrashes, StorageFails, CommandFails, IdleLapse, Lapse
  <2>2. QED
    BY <1>1, <2>1, Distinct DEF OperatorAgrees, Processes
<1>3. ASSUME NEW q \in Supervisors
      PROVE  SupervisorAgrees(q)'
  <2>1. lease' = q => lease = q
    BY <1>1, Distinct DEF Processes
  <2>2. ASSUME NEW p \in Supervisors, Crash(p)
        PROVE  SupervisorAgrees(q)'
    <3>1. CASE q = p
      <4>1. lease' # q
        BY <2>2, <3>1, Distinct DEF Crash, Processes
      <4>2. QED
        BY <4>1 DEF SupervisorAgrees
    <3>2. CASE q # p
      <4>1. control'[q] = control[q]
        BY <2>2, <3>2 DEF Crash
      <4>2. work'.dispatchedBy = work.dispatchedBy \/ work.dispatchedBy = p
        BY <2>2 DEF Crash
      <4>3. QED
        BY <1>1, <2>1, <3>2, <4>1, <4>2 DEF SupervisorAgrees, InRecover
    <3>3. QED
      BY <3>1, <3>2
  <2>3. ASSUME NEW p \in Supervisors, StorageFails(p)
        PROVE  SupervisorAgrees(q)'
    <3>1. work' = work /\ lease' = lease
      BY <2>3 DEF StorageFails
    <3>2. CASE q = p
      <4>1. control'[q].at = "idle" /\ ~InRecover(q)
        BY <2>3, <3>2 DEF StorageFails, Idle, At, InRecover
      <4>2. QED
        BY <1>1, <3>1, <4>1 DEF SupervisorAgrees
    <3>3. CASE q # p
      <4>1. control'[q] = control[q]
        BY <2>3, <3>3 DEF StorageFails
      <4>2. QED
        BY <1>1, <2>1, <3>1, <4>1, BystandingSupervisor
    <3>4. QED
      BY <3>2, <3>3
  <2>4. ASSUME NEW o \in Operators, CommandCrashes(o) \/ CommandFails(o)
        PROVE  SupervisorAgrees(q)'
    BY <1>1, <2>1, <2>4, BystandingSupervisor DEF CommandCrashes, CommandFails
  <2>5. CASE IdleLapse \/ Lapse
    BY <1>1, <2>1, <2>5, BystandingSupervisor DEF IdleLapse, Lapse
  <2>6. QED
    BY <2>2, <2>3, <2>4, <2>5 DEF Fault
<1>4. QED
  BY <1>2, <1>3

\* A request is about the candidate and the evidence it was opened for until it
\* is closed, and a new one has a new id.
LEMMA OpenRequestIsKept ==
  ASSUME IInv, [Next]_vars
  PROVE  /\ issued'.request >= issued.request
         /\ view'.hitl.status = "PENDING" =>
               \/ view'.hitl = view.hitl /\ view'.validation.id = view.validation.id
               \/ view'.hitl.request = NextRequest /\ issued'.request = NextRequest
<1> USE DEF IInv, TypeOK
<1>1. view \in RunView /\ issued.request \in Nat
  OBVIOUS
<1>2. CASE AttemptStep
  <2>1. ASSUME NEW n \in Nodes, NEW a \in Attempts,
               Dispatch(n, a) \/ Start(n, a) \/ SettleFailed(n, a) \/ SettleSucceeded(n, a)
        PROVE  /\ issued' = issued
               /\ view'.hitl.status = "PENDING" =>
                     view'.hitl = view.hitl /\ view'.validation.id = view.validation.id
    <3>1. CASE Dispatch(n, a) \/ Start(n, a)
      BY <1>1, <3>1 DEF Dispatch, Start, Dispatched, Started, RunView
    <3>2. CASE SettleFailed(n, a) \/ SettleSucceeded(n, a)
      <4>1. issued' = issued /\ view'.hitl = EmptyHitl
        BY <1>1, <3>2 DEF SettleFailed, SettleSucceeded, SettledFailed, SettledSucceeded, RunView
      <4>2. QED
        BY <4>1 DEF EmptyHitl
    <3>3. QED
      BY <2>1, <3>1, <3>2
  <2>2. ASSUME NEW n \in Nodes, NEW a \in Attempts, NEW passed \in BOOLEAN,
               RecordValidation(n, a, passed)
        PROVE  issued'.request = issued.request /\ view'.hitl.status # "PENDING"
    <3>1. issued'.request = issued.request
      BY <1>1, <2>2 DEF RecordValidation
    <3>2. view.validation.status = "PENDING"
      BY <2>2 DEF RecordValidation, MayRecordValidation
    <3>3. view.hitl.status = "NOT_REQUESTED"
      BY <3>2 DEF SpentEvidenceIsRefused
    <3>4. view'.hitl = view.hitl
      BY <1>1, <2>2 DEF RecordValidation, ValidationRecorded, RunView
    <3>5. QED
      BY <3>1, <3>3, <3>4
  <2>3. QED
    BY <1>1, <1>2, <2>1, <2>2 DEF AttemptStep
<1>3. CASE HumanStep
  <2>1. CASE RequestAdmission
    BY <1>1, <2>1 DEF RequestAdmission, AdmissionRequested, RunView, NextRequest
  <2>2. ASSUME NEW p \in view.prepared, RequestHitl(p)
        PROVE  issued'.request = NextRequest /\ view'.hitl.request = NextRequest
    BY <1>1, <2>2 DEF RequestHitl, HitlRequested, RunView, NextRequest
  <2>3. ASSUME NEW r \in Nat, NEW decision \in Decisions, DecideAdmission(r, decision)
        PROVE  issued' = issued /\ view'.hitl = view.hitl /\ view'.validation = view.validation
    BY <1>1, <2>3 DEF DecideAdmission, AdmissionDecided, RunView
  <2>4. ASSUME NEW r \in Nat, NEW decision \in Decisions, DecideHitl(r, decision)
        PROVE  issued' = issued /\ view'.hitl.status # "PENDING"
    BY <1>1, <2>4 DEF DecideHitl, HitlDecided, RunView, HitlState, Decisions
  <2>5. QED
    BY <1>1, <1>3, <2>1, <2>2, <2>3, <2>4 DEF HumanStep, NextRequest
<1>4. CASE OperatorStep
  <2>1. issued' = issued
    BY <1>4 DEF OperatorStep, RequestPause, Pause, Resume, Supersede, Prepare, Promote, RollBack
  <2>2. ASSUME RequestPause \/ Pause \/ Resume
        PROVE  view'.hitl = view.hitl /\ view'.validation = view.validation
    <3>1. CASE RequestPause
      BY <1>1, <3>1 DEF RequestPause, PauseRequested, RunView
    <3>2. CASE Pause
      BY <1>1, <3>2 DEF Pause, Paused, RunView
    <3>3. CASE Resume
      BY <1>1, <3>3 DEF Resume, Resumed, RunView
    <3>4. QED
      BY <2>2, <3>1, <3>2, <3>3
  <2>3. ASSUME NEW q \in view.promoted, RollBack(q)
        PROVE  view'.hitl = view.hitl /\ view'.validation = view.validation
    BY <1>1, <2>3 DEF RollBack, RolledBack, RunView
  <2>4. ASSUME NEW n \in Nodes, Supersede(n)
        PROVE  view'.hitl.status # "PENDING"
    BY <1>1, <2>4 DEF Supersede, Superseded, RunView, EmptyHitl
  <2>5. ASSUME NEW g \in Generations, NEW spec \in LoopSpecs, Prepare(g, spec)
        PROVE  view'.hitl = view.hitl /\ view'.validation = view.validation
    BY <1>1, <2>5 DEF Prepare, Prepared, RunView
  <2>6. ASSUME NEW p \in view.prepared, Promote(p)
        PROVE  view'.hitl.status # "PENDING"
    BY <1>1, <2>6 DEF Promote, MayPromote, HitlSatisfied, Promoted, RunView
  <2>7. QED
    BY <1>1, <1>4, <2>1, <2>2, <2>3, <2>4, <2>5, <2>6 DEF OperatorStep
<1>5. CASE ProcessStep
  <2>1. ASSUME NEW token \in Nat, RecordLease(token)
        PROVE  issued' = issued /\ view'.hitl = view.hitl /\ view'.validation = view.validation
    BY <1>1, <2>1 DEF RecordLease, LeaseRecorded, RunView
  <2>2. CASE Recover
    BY <1>1, <2>2 DEF Recover, RecoveredUncertain, RunView, EmptyHitl
  <2>3. QED
    BY <1>1, <1>5, <2>1, <2>2 DEF ProcessStep
<1>6. CASE UNCHANGED vars
  BY <1>1, <1>6 DEF vars
<1>7. QED
  BY <1>2, <1>3, <1>4, <1>5, <1>6 DEF Next

\* The only approval anybody starts to await is the one it just asked for.
LEMMA NewApprovals ==
  ASSUME SystemTypeOK, SystemNext, NEW q \in Supervisors, NEW t \in tasks'[q],
         t.await = "approval"
  PROVE  \/ t \in tasks[q]
         \/ /\ t.request = NextRequest /\ t.candidate.val = view.validation.id
            /\ view' = HitlRequested(view, t.candidate, NextRequest)
            /\ issued' = [issued EXCEPT !.request = NextRequest]
<1> USE DEF SystemTypeOK, ProcessTypeOK, Await, Answered
<1>1. ASSUME NEW p \in Supervisors, SynchronousStep(p)
      PROVE  t \in tasks[q]
  BY <1>1 DEF SynchronousStep, RecoverStep, RecoverAcquire, RecoverRecordLease, RecoverRecheck,
              StartAttempt, PromoteApproved, Execution
<1>2. ASSUME NEW p \in Supervisors, CallerStep(p)
      PROVE  \/ t \in tasks[q]
             \/ /\ t.request = NextRequest /\ t.candidate.val = view.validation.id
                /\ view' = HitlRequested(view, t.candidate, NextRequest)
                /\ issued' = [issued EXCEPT !.request = NextRequest]
  <2>1. ASSUME NEW c \in view.prepared, RequestHitlAndPromote(p, c)
        PROVE  \/ t \in tasks[q]
               \/ /\ t.request = NextRequest /\ t.candidate.val = view.validation.id
                  /\ view' = HitlRequested(view, t.candidate, NextRequest)
                  /\ issued' = [issued EXCEPT !.request = NextRequest]
    <3>1. t \in tasks[q] \/ t = Approval(NextRequest, c)
      BY <2>1 DEF RequestHitlAndPromote
    <3>2. QED
      BY <2>1, <3>1 DEF RequestHitlAndPromote, RequestHitl, Approval
  <2>2. ASSUME NEW g \in Generations, NEW spec \in LoopSpecs, PrepareGeneration(p, g, spec)
        PROVE  t \in tasks[q]
    BY <2>2 DEF PrepareGeneration, Publication
  <2>3. QED
    BY <1>2, <2>1, <2>2 DEF CallerStep, RecoverRead, BeginAttempt, OneAppend, processVars
<1>3. ASSUME NEW p \in Supervisors, NEW u \in tasks[p], TaskEnds(p, u)
      PROVE  t \in tasks[q]
  <2>1. CASE ExecutionSucceeded(p, u)
    <3>1. u \in Task
      OBVIOUS
    <3>2. [u EXCEPT !.await = "validation"].await = "validation"
      BY <3>1 DEF Task
    <3>3. QED
      BY <2>1, <3>2 DEF ExecutionSucceeded
  <2>2. QED
    BY <1>3, <2>1 DEF TaskEnds, ExecutionFailed, Validated, Published, GateAnswered, TaskThrows
<1>4. ASSUME NEW o \in Operators, OperatorCommand(o)
      PROVE  t \in tasks[q]
  BY <1>4 DEF OperatorCommand, CommandAcquires, CommandStep, CommandRequestsPause, CommandPauses,
              CommandResumes, CommandPromotes, CommandRollsBack, CommandRefused, CommandReleases,
              CommandAppends
<1>5. CASE Fault
  BY <1>5 DEF Fault, Crash, CommandCrashes, StorageFails, CommandFails, IdleLapse, Lapse
<1>6. QED
  BY <1>1, <1>2, <1>3, <1>4, <1>5 DEF SystemNext, SupervisorStep

LEMMA AwaitedApprovalPreserved ==
  ASSUME SystemTypeOK, IInv, AwaitedApprovalIsOpen, SystemNext
  PROVE  AwaitedApprovalIsOpen'
<1> SUFFICES ASSUME NEW q \in Supervisors, NEW t \in tasks'[q], t.await = "approval"
             PROVE  /\ t.request <= issued'.request
                    /\ view'.hitl.status = "PENDING" /\ view'.hitl.request = t.request =>
                           HitlCandidate' = t.candidate /\ t.candidate.val = view'.validation.id
  BY DEF AwaitedApprovalIsOpen
<1>1. view \in RunView /\ issued \in [validation : Nat, request : Nat]
  BY DEF IInv, TypeOK
<1>2. /\ issued'.request >= issued.request
      /\ view'.hitl.status = "PENDING" =>
            \/ view'.hitl = view.hitl /\ view'.validation.id = view.validation.id
            \/ view'.hitl.request = NextRequest /\ issued'.request = NextRequest
  BY SystemNextIsStream, OpenRequestIsKept
<1>3. t \in Task
  <2>1. tasks' \in [Supervisors -> SUBSET Task]
    BY ProcessTypePreserved DEF ProcessTypeOK
  <2>2. QED
    BY <2>1
<1>4. t.request \in Nat /\ t.candidate \in PreparedGeneration
  BY <1>3, TaskArguments
<1>5. CASE t \in tasks[q]
  <2>1. /\ t.request <= issued.request
        /\ view.hitl.status = "PENDING" /\ view.hitl.request = t.request =>
               HitlCandidate = t.candidate /\ t.candidate.val = view.validation.id
    BY <1>5 DEF AwaitedApprovalIsOpen
  <2>2. issued'.request \in Nat
    BY SystemNextIsStream, NextPreserves DEF IInv, TypeOK
  <2>3. t.request # NextRequest
    BY <1>1, <1>4, <2>1 DEF NextRequest
  <2>4. QED
    BY <1>1, <1>2, <1>4, <2>1, <2>2, <2>3 DEF HitlCandidate
<1>6. CASE t \notin tasks[q]
  <2>1. /\ t.request = NextRequest /\ t.candidate.val = view.validation.id
        /\ view' = HitlRequested(view, t.candidate, NextRequest)
        /\ issued' = [issued EXCEPT !.request = NextRequest]
    BY <1>6, NewApprovals
  <2>2. issued'.request = NextRequest /\ NextRequest \in Nat
    BY <1>1, <2>1 DEF NextRequest
  <2>3. /\ view'.validation = view.validation
        /\ view'.hitl.gen = t.candidate.gen /\ view'.hitl.val = t.candidate.val
        /\ view'.hitl.spec = t.candidate.spec
    BY <1>1, <2>1 DEF HitlRequested, RunView
  <2>4. HitlCandidate' = t.candidate
    BY <1>4, <2>3 DEF HitlCandidate, PreparedGeneration
  <2>5. QED
    BY <2>1, <2>2, <2>3, <2>4
<1>7. QED
  BY <1>5, <1>6

\* Only a settlement opens a validation.
LEMMA ValidationOpenedBySettlement ==
  ASSUME IInv, view'.validation.status = "PENDING",
         \/ UNCHANGED vars
         \/ \E n \in Nodes, a \in Attempts : Start(n, a)
         \/ HumanStep
         \/ OperatorStep
  PROVE  view.validation.status = "PENDING"
<1>1. view \in RunView
  BY DEF IInv, TypeOK
<1>2. CASE UNCHANGED vars \/ \E n \in Nodes, a \in Attempts : Start(n, a)
  BY <1>1, <1>2 DEF vars, Start, Started, RunView
<1>3. CASE HumanStep
  <2>1. view'.validation = view.validation
    <3>1. ASSUME NEW r \in Nat, NEW decision \in Decisions,
                 DecideAdmission(r, decision) \/ DecideHitl(r, decision)
          PROVE  view'.validation = view.validation
      BY <1>1, <3>1 DEF DecideAdmission, DecideHitl, AdmissionDecided, HitlDecided, RunView
    <3>2. issued.request \in Nat
      BY DEF IInv, TypeOK
    <3>3. CASE RequestAdmission
      BY <1>1, <3>3 DEF RequestAdmission, AdmissionRequested, RunView
    <3>4. ASSUME NEW p \in view.prepared, RequestHitl(p)
          PROVE  view'.validation = view.validation
      BY <1>1, <3>4 DEF RequestHitl, HitlRequested, RunView
    <3>5. QED
      BY <1>3, <3>1, <3>2, <3>3, <3>4 DEF HumanStep
  <2>2. QED
    BY <2>1
<1>4. CASE OperatorStep
  <2>1. view'.validation \in {view.validation, EmptyValidation}
    <3>1. CASE RequestPause
      BY <1>1, <3>1 DEF RequestPause, PauseRequested, RunView
    <3>2. CASE Pause
      BY <1>1, <3>2 DEF Pause, Paused, RunView
    <3>3. CASE Resume
      BY <1>1, <3>3 DEF Resume, Resumed, RunView
    <3>4. ASSUME NEW n \in Nodes, Supersede(n)
          PROVE  view'.validation = EmptyValidation
      BY <1>1, <3>4 DEF Supersede, Superseded, RunView
    <3>5. ASSUME NEW g \in Generations, NEW spec \in LoopSpecs, Prepare(g, spec)
          PROVE  view'.validation = view.validation
      BY <1>1, <3>5 DEF Prepare, Prepared, RunView
    <3>6. ASSUME NEW p \in view.prepared, Promote(p)
          PROVE  view'.validation = EmptyValidation
      BY <1>1, <3>6 DEF Promote, Promoted, RunView
    <3>7. ASSUME NEW q \in view.promoted, RollBack(q)
          PROVE  view'.validation = view.validation
      BY <1>1, <3>7 DEF RollBack, RolledBack, RunView
    <3>8. QED
      BY <1>4, <3>1, <3>2, <3>3, <3>4, <3>5, <3>6, <3>7 DEF OperatorStep
  <2>2. QED
    BY <2>1 DEF EmptyValidation
<1>5. QED
  BY <1>2, <1>3, <1>4

LEMMA EvidencePreserved ==
  ASSUME SystemTypeOK, IInv, OwnerDispatched, EvidenceOfOneExecution, SystemNext
  PROVE  EvidenceOfOneExecution'
<1> SUFFICES ASSUME view'.validation.status = "PENDING"
             PROVE  work'.settledBy = work'.dispatchedBy
  BY DEF EvidenceOfOneExecution
<1> USE DEF SystemTypeOK, ProcessTypeOK
<1>1. view \in RunView
  BY DEF TypeOK
\* Most steps neither open a validation nor touch the bookkeeping.
<1>2. ASSUME work' = work,
             \/ UNCHANGED vars
             \/ \E n \in Nodes, a \in Attempts : Start(n, a)
             \/ HumanStep
             \/ OperatorStep
      PROVE  work'.settledBy = work'.dispatchedBy
  BY <1>2, ValidationOpenedBySettlement DEF EvidenceOfOneExecution
<1>3. ASSUME NEW p \in Supervisors, RecoverRead(p) \/ RecoverStep(p)
      PROVE  work'.settledBy = work'.dispatchedBy
  <2>1. CASE Recover
    <3>1. view' = RecoveredUncertain(view)
      BY <2>1 DEF Recover
    <3>2. view'.validation = IF LostWork(view) THEN EmptyValidation ELSE view.validation
      BY <1>1, <3>1 DEF RecoveredUncertain, RunView
    <3>3. QED
      BY <3>2 DEF LostWork, EmptyValidation
  <2>2. CASE ~Recover
    BY <1>2, <1>3, <2>2 DEF RecoverRead, RecoverStep, RecoverAcquire, RecoverRecordLease,
                            RecoverRecheck
  <2>3. QED
    BY <2>1, <2>2
<1>4. ASSUME NEW p \in Supervisors, NEW n \in Nodes, NEW a \in Attempts, BeginAttempt(p, n, a)
      PROVE  work'.settledBy = work'.dispatchedBy
  <2>1. view'.validation = view.validation /\ view.phase = "READY"
    BY <1>1, <1>4 DEF BeginAttempt, Dispatch, MayDispatch, Dispatched, RunView
  <2>2. QED
    BY <2>1 DEF IInv, PhaseCoherent
<1>5. ASSUME NEW p \in Supervisors, StartAttempt(p)
      PROVE  work'.settledBy = work'.dispatchedBy
  <2>1. work' = work /\ control[p].node \in Nodes /\ control[p].attempt \in Attempts
    BY <1>5, StepArguments DEF StartAttempt
  <2>2. QED
    BY <1>2, <1>5, <2>1 DEF StartAttempt
<1>6. ASSUME NEW p \in Supervisors, NEW t \in tasks[p], TaskEnds(p, t)
      PROVE  work'.settledBy = work'.dispatchedBy
  <2>1. CASE ExecutionFailed(p, t)
    BY <1>1, <2>1 DEF ExecutionFailed, NoWork
  <2>2. CASE ExecutionSucceeded(p, t)
    <3>1. view.active.status = "STARTED" /\ Owns(p) /\ ~InRecover(p)
      BY <2>2 DEF ExecutionSucceeded, SettleSucceeded, MaySettle, MayCall, IsIdle, InRecover
    <3>2. work.dispatchedBy = p
      BY <3>1 DEF OwnerDispatched
    <3>3. QED
      BY <2>2, <3>2 DEF ExecutionSucceeded
  <2>3. ASSUME NEW passed \in BOOLEAN, Validated(p, t, passed)
        PROVE  FALSE
    BY <1>1, <2>3 DEF Validated, RecordValidation, ValidationRecorded, RunView
  <2>4. CASE Published(p, t)
    <3>1. t.candidate \in PreparedGeneration
      BY <2>4, TaskArguments DEF Published
    <3>2. QED
      BY <1>2, <2>4, <3>1 DEF Published, OperatorStep, PreparedGeneration
  <2>5. ASSUME NEW decision \in Decisions, GateAnswered(p, t, decision)
        PROVE  work'.settledBy = work'.dispatchedBy
    <3>1. view'.validation = view.validation /\ work' = work
      BY <1>1, <2>5 DEF GateAnswered, DecideHitl, HitlDecided, RunView
    <3>2. QED
      BY <3>1 DEF EvidenceOfOneExecution
  <2>6. CASE TaskThrows(p, t)
    BY <1>2, <2>6 DEF TaskThrows
  <2>7. QED
    BY <1>6, <2>1, <2>2, <2>3, <2>4, <2>5, <2>6 DEF TaskEnds
<1>7. ASSUME NEW p \in Supervisors, NEW g \in Generations, NEW spec \in LoopSpecs,
             PrepareGeneration(p, g, spec)
      PROVE  work'.settledBy = work'.dispatchedBy
  BY <1>2, <1>7 DEF PrepareGeneration
<1>8. ASSUME NEW p \in Supervisors, NEW c \in view.prepared, RequestHitlAndPromote(p, c)
      PROVE  work'.settledBy = work'.dispatchedBy
  BY <1>2, <1>8 DEF RequestHitlAndPromote, HumanStep
<1>9. ASSUME NEW p \in Supervisors, PromoteApproved(p)
      PROVE  work'.settledBy = work'.dispatchedBy
  BY <1>2, <1>9 DEF PromoteApproved, MayPromote, OperatorStep
<1>10. ASSUME NEW p \in Supervisors, OneAppend(p)
       PROVE  work'.settledBy = work'.dispatchedBy
  BY <1>2, <1>10 DEF OneAppend, HumanStep, OperatorStep, processVars
<1>11. ASSUME NEW o \in Operators, OperatorCommand(o)
       PROVE  work'.settledBy = work'.dispatchedBy
  <2>1. work' = work
    BY <1>11 DEF OperatorCommand, CommandAcquires, CommandStep, CommandRequestsPause,
       CommandPauses, CommandResumes, CommandPromotes, CommandRollsBack, CommandRefused,
       CommandReleases, CommandAppends
  <2>2. UNCHANGED vars \/ OperatorStep
    BY <1>11 DEF OperatorCommand, CommandAcquires, CommandStep, CommandRequestsPause,
       CommandPauses, CommandResumes, CommandPromotes, CommandRollsBack, CommandRefused,
       CommandReleases, OperatorStep
  <2>3. QED
    BY <1>2, <2>1, <2>2
<1>12. CASE Fault
  <2>1. view' = view
    BY FaultIsStream, <1>12 DEF vars
  <2>2. work.settledBy = work.dispatchedBy
    BY <2>1 DEF EvidenceOfOneExecution
  <2>3. ASSUME NEW p \in Supervisors, Crash(p)
        PROVE  work'.settledBy = work'.dispatchedBy
    BY <2>2, <2>3 DEF Crash
  <2>4. QED
    BY <1>12, <2>2, <2>3 DEF Fault, CommandCrashes, StorageFails, CommandFails, IdleLapse, Lapse
<1>13. QED
  BY <1>3, <1>4, <1>5, <1>6, <1>7, <1>8, <1>9, <1>10, <1>11, <1>12
  DEF SystemNext, SupervisorStep, SynchronousStep, CallerStep

-----------------------------------------------------------------------------
LEMMA ProcessInvIsAgreement ==
  SystemTypeOK =>
    (ProcessInv <=> /\ AwaitedApprovalIsOpen
                    /\ EvidenceOfOneExecution
                    /\ \A p \in Supervisors : SupervisorAgrees(p)
                    /\ \A o \in Operators : OperatorAgrees(o))
BY DEF ProcessInv, OwnerDispatched, SecondAppendAccepted, SupervisorAgrees, OperatorAgrees

LEMMA ProcessInvInit == SystemInit => ProcessInv
<1> SUFFICES ASSUME SystemInit PROVE ProcessInv
  OBVIOUS
<1>1. /\ view.active.status = "NONE" /\ view.validation.status = "NONE"
      /\ \A p \in Supervisors : control[p].at = "idle" /\ tasks[p] = {}
      /\ \A o \in Operators : command[o] = "idle"
  BY DEF SystemInit, Init, InitialView, NoAttempt, EmptyValidation, Idle, At
<1>2. QED
  BY <1>1 DEF ProcessInv, OwnerDispatched, AwaitedApprovalIsOpen, EvidenceOfOneExecution,
              SecondAppendAccepted

LEMMA ProcessInvPreserved ==
  ASSUME SystemTypeOK, IInv, ProcessInv, [SystemNext]_systemVars
  PROVE  ProcessInv'
<1>1. CASE SystemNext
  <2>1. AwaitedApprovalIsOpen' /\ EvidenceOfOneExecution'
    BY <1>1, AwaitedApprovalPreserved, EvidencePreserved DEF ProcessInv
  <2>2. /\ \A p \in Supervisors : SupervisorAgrees(p)
        /\ \A o \in Operators : OperatorAgrees(o)
        /\ AwaitedApprovalIsOpen
    BY ProcessInvIsAgreement
  <2>3. ASSUME NEW p \in Supervisors, SupervisorStep(p)
        PROVE  /\ \A q \in Supervisors : SupervisorAgrees(q)'
               /\ \A o \in Operators : OperatorAgrees(o)'
    <3>1. ASSUME NEW q \in Supervisors PROVE SupervisorAgrees(q)'
      BY <2>2, <2>3, SupervisorStepAgrees
    <3>2. ASSUME NEW o \in Operators PROVE OperatorAgrees(o)'
      <4>1. command'[o] = command[o] /\ lease' \in {lease, p} /\ (lease # p => view' = view)
        BY <2>3, SupervisorStepFrame
      <4>2. QED
        BY <2>2, <4>1, Distinct, BystandingOperator
    <3>3. QED
      BY <3>1, <3>2
  <2>4. /\ \A q \in Supervisors : SupervisorAgrees(q)'
        /\ \A o \in Operators : OperatorAgrees(o)'
    BY <1>1, <2>2, <2>3, OperatorCommandAgrees, FaultAgrees DEF SystemNext
  <2>5. ProcessInv'
    <3>1. OwnerDispatched' /\ SecondAppendAccepted'
      BY <2>4 DEF OwnerDispatched, SecondAppendAccepted, SupervisorAgrees, OperatorAgrees
    <3>2. QED
      BY <2>1, <3>1 DEF ProcessInv
  <2>6. QED
    BY <2>5
<1>2. CASE UNCHANGED systemVars
  BY <1>2 DEF systemVars, ProcessInv, OwnerDispatched, AwaitedApprovalIsOpen,
              EvidenceOfOneExecution, SecondAppendAccepted, Owns, InRecover, HitlCandidate
<1>3. QED
  BY <1>1, <1>2

\* The bookkeeping of the processes agrees with the run, whatever crashes, lapses
\* and reused attempt ids intervene.
THEOREM ProcessInvariance == SystemSpec => [](SystemTypeOK /\ IInv /\ ProcessInv)
<1>1. SystemTypeOK /\ IInv /\ ProcessInv /\ [SystemNext]_systemVars
        => (SystemTypeOK /\ IInv /\ ProcessInv)'
  BY SystemInvPreserved, ProcessInvPreserved
<1>2. SystemInit => SystemTypeOK /\ IInv /\ ProcessInv
  BY SystemInvInit, ProcessInvInit
<1>3. QED
  BY <1>1, <1>2, PTL DEF SystemSpec

\* A validation is never opened by a process other than the one that dispatched
\* the attempt it is about: recovery clears what a new owner did not dispatch.
THEOREM EvidenceIsOfOneExecution == SystemSpec => []EvidenceOfOneExecution
<1>1. ProcessInv => EvidenceOfOneExecution
  BY DEF ProcessInv
<1>2. QED
  BY <1>1, ProcessInvariance, PTL

\* The second append of dispatchAttempt, requestHitlAndPromote and the CLI's pause
\* is never one the reducer refuses while the lease is held.
THEOREM SecondAppendIsAccepted == SystemSpec => []SecondAppendAccepted
<1>1. ProcessInv => SecondAppendAccepted
  BY DEF ProcessInv
<1>2. QED
  BY <1>1, ProcessInvariance, PTL

\* Only a recovery and the settlements of an owner past recover take an attempt out
\* of flight, and such an owner dispatched it.
LEMMA AttemptEnds ==
  ASSUME SystemTypeOK, IInv, ProcessInv, [SystemNext]_systemVars,
         view.active.status # "NONE", view'.active.status = "NONE"
  PROVE  \/ view'.phase = "PAUSED_RECOVERED"
         \/ lease = work.dispatchedBy /\ view.phase = "RUNNING"
<1>1. view \in RunView /\ view' # view
  BY DEF SystemTypeOK, TypeOK
<1>2. CASE Recover
  BY <1>1, <1>2 DEF Recover, RecoveredUncertain, RunView
<1>3. ASSUME NEW p \in Supervisors, SynchronousStep(p), ~Recover
      PROVE  FALSE
  <2>1. ~StartAttempt(p)
    BY <1>1 DEF StartAttempt, Start, MayStart, Started, RunView, vars
  <2>2. ~PromoteApproved(p)
    BY <1>1 DEF PromoteApproved, Promote, MayPromote, Promoted, RunView, vars
  <2>3. QED
    BY <1>1, <1>3, <2>1, <2>2 DEF SynchronousStep, RecoverStep, RecoverAcquire,
       RecoverRecordLease, RecordLease, LeaseRecorded, RecoverRecheck, RunView, vars
<1>4. ASSUME NEW p \in Supervisors, CallerStep(p)
      PROVE  FALSE
  <2>1. ~OneAppend(p)
    BY <1>1 DEF OneAppend, RequestHitl, HitlRequested, DecideHitl, HitlDecided, DecideAdmission,
           AdmissionDecided, RequestAdmission, MayRequestAdmission, Supersede, Superseded,
           Resume, MayResume, RollBack, MayRollBack, RunView
  <2>2. QED
    BY <1>1, <1>4, <2>1 DEF CallerStep, RecoverRead, BeginAttempt, Dispatch, MayDispatch,
       PrepareGeneration, RequestHitlAndPromote, RequestHitl, HitlRequested, RunView, vars
\* Whoever settles owns the run and is past recover.
<1>5. ASSUME NEW p \in Supervisors, NEW t \in tasks[p], TaskEnds(p, t)
      PROVE  lease = work.dispatchedBy /\ view.phase = "RUNNING"
  <2>1. CASE ExecutionFailed(p, t) \/ ExecutionSucceeded(p, t)
    BY <2>1 DEF ExecutionFailed, ExecutionSucceeded, MayCall, IsIdle, Idle, InRecover, Owns,
           ProcessInv, OwnerDispatched
  <2>2. QED
    BY <1>1, <1>5, <2>1 DEF TaskEnds, Validated, RecordValidation, ValidationRecorded,
       Published, Prepare, Prepared, GateAnswered, DecideHitl, HitlDecided, TaskThrows,
       RunView, vars
<1>6. ASSUME NEW o \in Operators, OperatorCommand(o)
      PROVE  FALSE
  BY <1>1, <1>6 DEF OperatorCommand, CommandAcquires, CommandStep, CommandRequestsPause,
     RequestPause, PauseRequested, CommandPauses, Pause, MayPause, CommandResumes, Resume,
     MayResume, CommandPromotes, Promote, Promoted, CommandRollsBack, RollBack, MayRollBack,
     CommandRefused, CommandReleases, RunView, vars
<1>7. ~Fault /\ ~UNCHANGED systemVars
  BY <1>1, FaultIsStream DEF vars, systemVars
<1>8. QED
  BY <1>2, <1>3, <1>4, <1>5, <1>6, <1>7 DEF SystemNext, SupervisorStep

\* An attempt is ended by the process that dispatched it, while it owns the run, or
\* it is declared lost.
THEOREM AttemptsEndByDispatcher == SystemSpec => OnlyDispatcherEndsAttempt
<1>1. SystemTypeOK /\ IInv /\ ProcessInv /\ [SystemNext]_systemVars
        => [view.active.status # "NONE" /\ view'.active.status = "NONE"
               => lease = work.dispatchedBy \/ view'.phase = "PAUSED_RECOVERED"]_systemVars
  BY AttemptEnds
<1>2. QED
  BY <1>1, ProcessInvariance, PTL DEF SystemSpec, OnlyDispatcherEndsAttempt

\* A pause requested over a running attempt costs the attempt: no process is left
\* that could settle it, so the settlement README.md:63 describes is never reached
\* with the CLI, and only a recovery takes the attempt out of flight.
THEOREM PausingCostsAttempt == SystemSpec => PausedAttemptIsLost
<1>1. SystemTypeOK /\ IInv /\ ProcessInv /\ [SystemNext]_systemVars
        => [view.phase = "PAUSE_REQUESTED" /\ view.active.status # "NONE"
               /\ view'.active.status = "NONE"
               => view'.phase = "PAUSED_RECOVERED"]_systemVars
  BY AttemptEnds
<1>2. QED
  BY <1>1, ProcessInvariance, PTL DEF SystemSpec, PausedAttemptIsLost
=============================================================================
