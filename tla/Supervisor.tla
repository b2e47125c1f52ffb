----------------------------- MODULE Supervisor -----------------------------
(***************************************************************************)
(* One run driven by several processes over one run store: supervisors     *)
(* (packages/core/src/supervisor.ts) and operators, each an invocation of  *)
(* the CLI's mutate (packages/cli/src/index.ts).  An append is one step:   *)
(* it renews the lease, reads the journal, and commits an event the        *)
(* reducer accepts, or throws and changes nothing durable.  Everything a   *)
(* process does between two appends, or while it awaits an adapter, may be *)
(* interleaved with other processes, a crash, or the loss of its lease.    *)
(*                                                                         *)
(* RunStore models the lease itself; here it is its owner.  Losing it for  *)
(* good is one step (Lapse), since a grant that expired is never renewed.  *)
(* The event lease.acquired only raises view.lease, which no other event   *)
(* depends on, so recording a lease is modelled by its guard on the phase. *)
(*                                                                         *)
(* Attempt ids are chosen by the caller of a supervisor: it does not reuse *)
(* one while a call it made with it is outstanding, but two processes, or  *)
(* one process before and after a crash, may use the same id.              *)
(*                                                                         *)
(* An operator marked Mutant is a mistake one could make in the definition *)
(* that follows it, kept to show which property notices it.                *)
(***************************************************************************)
EXTENDS RunStream

CONSTANTS
    Supervisors,    \* processes that own a Supervisor object
    Operators,      \* processes that run the CLI
    Free,           \* the lease: no live row
    Orphaned,       \* the lease: a live row whose owner forgot it
    Gone,           \* a process that crashed since
    MaxTasks,       \* bound: outstanding adapter calls of one supervisor
    MaxFaults,      \* bound: crashes, failures, and leases lost while working
    MaxCommands     \* bound: CLI invocations

Processes == Supervisors \union Operators

ASSUME ProcessesAssumption ==
    /\ Supervisors \intersect Operators = {}
    /\ {Free, Orphaned, Gone, None} \intersect Processes = {}
    /\ Free # Orphaned /\ Gone # None
ASSUME FaultBoundsAreNaturals ==
    MaxTasks \in Nat /\ MaxFaults \in Nat /\ MaxCommands \in Nat

VARIABLES
    lease,      \* the process that may append, Free or Orphaned
    control,    \* where each supervisor is inside a synchronous operation
    tasks,      \* the adapter calls each supervisor awaits
    command,    \* where each operator is inside its command
    faults,     \* crashes, failures and losses so far
    commands,   \* CLI invocations so far
    work        \* history: who dispatched and who settled the last attempt

processVars == <<lease, control, tasks, command, faults, commands, work>>
systemVars == <<view, issued, approvals, refused, revoked, evidenceGraph, pauseHeld,
                lease, control, tasks, command, faults, commands, work>>

\* Where a supervisor is inside a synchronous operation, and the call it awaits,
\* each with the arguments it captured before.
Step ==
    [at : {"idle", "acquire", "acquireRecovered", "recordLease", "recheck"},
     node : {None}, attempt : {None}, candidate : {None}]
    \union [at : {"start"}, node : Nodes, attempt : Attempts, candidate : {None}]
    \union [at : {"promote"}, node : {None}, attempt : {None}, candidate : PreparedGeneration]
Task ==
    [await : {"execution", "validation"}, node : Nodes, attempt : Attempts,
     request : {0}, candidate : {None}]
    \union [await : {"publication", "approval"}, node : {None}, attempt : {None},
            request : Nat, candidate : PreparedGeneration]
Command == {"idle", "pause", "paused", "resume", "promote", "rollback", "done"}

At(point) == [at |-> point, node |-> None, attempt |-> None, candidate |-> None]
Idle == At("idle")
Starting(n, a) == [at |-> "start", node |-> n, attempt |-> a, candidate |-> None]
Promoting(c) == [at |-> "promote", node |-> None, attempt |-> None, candidate |-> c]
Execution(n, a) == [await |-> "execution", node |-> n, attempt |-> a,
                    request |-> 0, candidate |-> None]
Publication(c) == [await |-> "publication", node |-> None, attempt |-> None,
                   request |-> 0, candidate |-> c]
Approval(r, c) == [await |-> "approval", node |-> None, attempt |-> None,
                   request |-> r, candidate |-> c]
NoWork == [dispatchedBy |-> None, settledBy |-> None]

ProcessTypeOK ==
    /\ lease \in Processes \union {Free, Orphaned}
    /\ control \in [Supervisors -> Step]
    /\ tasks \in [Supervisors -> SUBSET Task]
    /\ command \in [Operators -> Command]
    /\ faults \in 0..MaxFaults /\ commands \in 0..MaxCommands
    /\ work \in [dispatchedBy : Processes \union {None, Gone},
                 settledBy : Processes \union {None, Gone}]

SystemTypeOK == TypeOK /\ ProcessTypeOK

\* createRun of some supervisor has returned, or threw after run.created.
SystemInit ==
    /\ Init
    /\ lease \in Supervisors
    /\ control = [s \in Supervisors |-> Idle]
    /\ tasks = [s \in Supervisors |-> {}]
    /\ command = [o \in Operators |-> "idle"]
    /\ faults = 0 /\ commands = 0
    /\ work = NoWork

Owns(p) == lease = p
IsIdle(p) == control[p].at = "idle"
MayCall(p) == Owns(p) /\ IsIdle(p)

GoTo(p, step) == control' = [control EXCEPT ![p] = step]
Await(p, task) == tasks' = [tasks EXCEPT ![p] = @ \union {task}]
Answered(p, task) == tasks' = [tasks EXCEPT ![p] = @ \ {task}]
HasRoom(p) == Cardinality(tasks[p]) < MaxTasks

-----------------------------------------------------------------------------
(* recover: read the view, acquire, record the lease, re-read and decide.  *)

RecoverRead(p) ==
    /\ IsIdle(p)
    /\ ~Owns(p)
    /\ GoTo(p, IF view.phase = "PAUSED_RECOVERED"
               THEN At("acquireRecovered") ELSE At("acquire"))
    /\ UNCHANGED <<vars, lease, tasks, command, faults, commands, work>>

RecoverAcquire(p) ==
    /\ control[p].at \in {"acquire", "acquireRecovered"}
    /\ IF lease = Free
       THEN /\ lease' = p
            /\ GoTo(p, IF control[p].at = "acquire" THEN At("recordLease") ELSE At("recheck"))
       ELSE /\ GoTo(p, Idle)
            /\ UNCHANGED lease
    /\ UNCHANGED <<vars, tasks, command, faults, commands, work>>

RecoverRecordLease(p) ==
    /\ control[p].at = "recordLease"
    /\ GoTo(p, IF Owns(p) /\ view.phase # "PAUSED_RECOVERED"
               THEN At("recheck") ELSE Idle)
    /\ UNCHANGED <<vars, lease, tasks, command, faults, commands, work>>

\* Mutant: work in flight is trusted to settle under the new lease.
RecoverTrusts(p) ==
    /\ control[p].at = "recheck"
    /\ GoTo(p, Idle)
    /\ IF Owns(p) /\ MayRecover(view) /\ view.active.status = "NONE"
       THEN /\ Recover
            /\ work' = IF LostWork(view) THEN NoWork ELSE work
       ELSE UNCHANGED <<vars, work>>
    /\ UNCHANGED <<lease, tasks, command, faults, commands>>

\* Mutant: work this process still awaits is not taken to be uncertain.
RecoverTrustsOwn(p) ==
    /\ control[p].at = "recheck"
    /\ GoTo(p, Idle)
    /\ IF Owns(p) /\ MayRecover(view)
          /\ \A t \in tasks[p] : ~SameAttempt(view, t.node, t.attempt)
       THEN /\ Recover
            /\ work' = IF LostWork(view) THEN NoWork ELSE work
       ELSE UNCHANGED <<vars, work>>
    /\ UNCHANGED <<lease, tasks, command, faults, commands>>

RecoverRecheck(p) ==
    /\ control[p].at = "recheck"
    /\ GoTo(p, Idle)
    /\ IF Owns(p) /\ MayRecover(view)
       THEN /\ Recover
            /\ work' = IF LostWork(view) THEN NoWork ELSE work
       ELSE UNCHANGED <<vars, work>>
    /\ UNCHANGED <<lease, tasks, command, faults, commands>>

-----------------------------------------------------------------------------
(* dispatchAttempt: two appends, then the adapter, then the validator.     *)

BeginAttempt(p, n, a) ==
    /\ MayCall(p)
    /\ HasRoom(p)
    /\ \A t \in tasks[p] : t.attempt # a
    /\ Dispatch(n, a)
    /\ GoTo(p, Starting(n, a))
    /\ work' = [NoWork EXCEPT !.dispatchedBy = p]
    /\ UNCHANGED <<lease, tasks, command, faults, commands>>

StartAttempt(p) ==
    /\ control[p].at = "start"
    /\ GoTo(p, Idle)
    /\ LET n == control[p].node
           a == control[p].attempt
       IN IF Owns(p) /\ MayStart(view, n, a)
          THEN /\ Start(n, a)
               /\ Await(p, Execution(n, a))
          ELSE UNCHANGED <<vars, tasks>>
    /\ UNCHANGED <<lease, command, faults, commands, work>>

ExecutionFailed(p, t) ==
    /\ MayCall(p)
    /\ t.await = "execution"
    /\ SettleFailed(t.node, t.attempt)
    /\ Answered(p, t)
    /\ work' = NoWork
    /\ UNCHANGED <<lease, control, command, faults, commands>>

ExecutionSucceeded(p, t) ==
    /\ MayCall(p)
    /\ t.await = "execution"
    /\ SettleSucceeded(t.node, t.attempt)
    /\ tasks' = [tasks EXCEPT ![p] = (@ \ {t}) \union {[t EXCEPT !.await = "validation"]}]
    /\ work' = [work EXCEPT !.settledBy = p]
    /\ UNCHANGED <<lease, control, command, faults, commands>>

Validated(p, t, passed) ==
    /\ MayCall(p)
    /\ t.await = "validation"
    /\ RecordValidation(t.node, t.attempt, passed)
    /\ Answered(p, t)
    /\ UNCHANGED <<lease, control, command, faults, commands, work>>

\* The adapter throws, a heartbeat found the lease lost, or the append that
\* should record the answer is refused: nothing durable happens.
TaskThrows(p, t) ==
    /\ IsIdle(p)
    /\ Answered(p, t)
    /\ UNCHANGED <<vars, lease, control, command, faults, commands, work>>

-----------------------------------------------------------------------------
(* prepareGeneration and requestHitlAndPromote.                            *)

\* The candidate is checked, and the validation id captured, before artifacts
\* are published; the id of the generation is left to the reducer.
PrepareGeneration(p, g, spec) ==
    /\ MayCall(p)
    /\ HasRoom(p)
    /\ view.phase = "VALIDATED" /\ view.validation.status = "PASSED"
    /\ spec.specId = view.loopSpec.specId
    /\ spec.revision > view.loopSpec.revision
    /\ \A q \in view.prepared \union view.promoted : ~SameIdentity(q.spec, spec)
    /\ Await(p, Publication([gen |-> g, val |-> view.validation.id, spec |-> spec]))
    /\ UNCHANGED <<vars, lease, control, command, faults, commands, work>>

Published(p, t) ==
    /\ MayCall(p)
    /\ t.await = "publication"
    /\ t.candidate.val = view.validation.id
    /\ Prepare(t.candidate.gen, t.candidate.spec)
    /\ Answered(p, t)
    /\ UNCHANGED <<lease, control, command, faults, commands, work>>

\* Mutant: a candidate prepared on another validation may be asked for.
RequestStaleAndPromote(p, c) ==
    /\ MayCall(p)
    /\ HasRoom(p)
    /\ RequestHitl(c)
    /\ Await(p, Approval(NextRequest, c))
    /\ UNCHANGED <<lease, control, command, faults, commands, work>>

RequestHitlAndPromote(p, c) ==
    /\ MayCall(p)
    /\ HasRoom(p)
    /\ c.val = view.validation.id
    /\ RequestHitl(c)
    /\ Await(p, Approval(NextRequest, c))
    /\ UNCHANGED <<lease, control, command, faults, commands, work>>

GateAnswered(p, t, decision) ==
    /\ MayCall(p)
    /\ t.await = "approval"
    /\ DecideHitl(t.request, decision)
    /\ Answered(p, t)
    /\ GoTo(p, IF decision = "APPROVED" THEN Promoting(t.candidate) ELSE Idle)
    /\ UNCHANGED <<lease, command, faults, commands, work>>

PromoteApproved(p) ==
    /\ control[p].at = "promote"
    /\ GoTo(p, Idle)
    /\ IF Owns(p) /\ MayPromote(view, control[p].candidate)
       THEN Promote(control[p].candidate)
       ELSE UNCHANGED vars
    /\ UNCHANGED <<lease, tasks, command, faults, commands, work>>

-----------------------------------------------------------------------------
(* Operations of one append.                                               *)

\* requestHitl, recordHitlDecision, requestAdmissionHitl,
\* recordAdmissionHitlDecision, supersedeValidation, resume and rollback.
OneAppend(p) ==
    /\ MayCall(p)
    /\ \/ \E c \in view.prepared : c.val = view.validation.id /\ RequestHitl(c)
       \/ \E r \in 1..issued.request, decision \in Decisions :
             DecideHitl(r, decision) \/ DecideAdmission(r, decision)
       \/ RequestAdmission
       \/ \E n \in Nodes : Supersede(n)
       \/ Resume
       \/ \E q \in view.promoted : RollBack(q)
    /\ UNCHANGED processVars

-----------------------------------------------------------------------------
(* The CLI: acquire, append what the command is for, release.              *)

\* A command whose expected revision is not the journal's is refused: it
\* appends nothing and goes on to release (CommandRefused).
CommandAcquires(o, what) ==
    /\ command[o] = "idle"
    /\ lease = Free
    /\ commands < MaxCommands
    /\ lease' = o
    /\ command' = [command EXCEPT ![o] = what]
    /\ commands' = commands + 1
    /\ UNCHANGED <<vars, control, tasks, faults, work>>

CommandAppends(o, what, then) ==
    /\ command[o] = what
    /\ Owns(o)
    /\ command' = [command EXCEPT ![o] = then]
    /\ UNCHANGED <<lease, control, tasks, faults, commands, work>>

\* Mutant: run.paused follows whatever is in flight.
CommandPausesAtOnce(o) == CommandAppends(o, "pause", "paused") /\ RequestPause

\* pause: run.paused follows at once if no attempt is in flight.
CommandRequestsPause(o) ==
    /\ CommandAppends(o, "pause", IF view.active.status = "NONE" THEN "paused" ELSE "done")
    /\ RequestPause

CommandPauses(o) == CommandAppends(o, "paused", "done") /\ Pause

CommandResumes(o) == CommandAppends(o, "resume", "done") /\ Resume

CommandPromotes(o, c) ==
    /\ CommandAppends(o, "promote", "done")
    /\ c.val = view.validation.id
    /\ Promote(c)

CommandRollsBack(o, q) ==
    /\ CommandAppends(o, "rollback", "done")
    /\ q.gen # view.activeGen
    /\ RollBack(q)

\* The revision, the phase or the lease is not what the command needs; run.paused
\* is refused only if the lease was lost since pause.requested.
CommandRefused(o) ==
    /\ command[o] \notin {"idle", "done"}
    /\ command[o] = "paused" => ~(Owns(o) /\ MayPause(view))
    /\ command' = [command EXCEPT ![o] = "done"]
    /\ UNCHANGED <<vars, lease, control, tasks, faults, commands, work>>

CommandReleases(o) ==
    /\ command[o] = "done"
    /\ lease' = IF Owns(o) THEN Free ELSE lease
    /\ command' = [command EXCEPT ![o] = "idle"]
    /\ UNCHANGED <<vars, control, tasks, faults, commands, work>>

-----------------------------------------------------------------------------
(* Crashes, storage that fails, and the loss of the lease.                 *)

Orphan(p) == lease' = IF Owns(p) THEN Orphaned ELSE lease

\* The process, its Supervisor object and the calls it awaits are gone.  A recover
\* that throws has the same effect: its caller drops the object
\* (createDshDurableBridge keeps one only if recover returned).
Crash(p) ==
    /\ faults < MaxFaults
    /\ faults' = faults + 1
    /\ Orphan(p)
    /\ GoTo(p, Idle)
    /\ tasks' = [tasks EXCEPT ![p] = {}]
    /\ work' = [r \in DOMAIN work |-> IF work[r] = p THEN Gone ELSE work[r]]
    /\ UNCHANGED <<vars, command, commands>>

CommandCrashes(o) ==
    /\ faults < MaxFaults
    /\ command[o] # "idle"
    /\ faults' = faults + 1
    /\ Orphan(o)
    /\ command' = [command EXCEPT ![o] = "idle"]
    /\ UNCHANGED <<vars, control, tasks, commands, work>>

\* The database throws between two appends: it is locked by another process, or
\* out of space.
StorageFails(p) ==
    /\ faults < MaxFaults
    /\ control[p].at \in {"start", "promote"}
    /\ faults' = faults + 1
    /\ GoTo(p, Idle)
    /\ UNCHANGED <<vars, lease, tasks, command, commands, work>>

CommandFails(o) ==
    /\ faults < MaxFaults
    /\ command[o] \notin {"idle", "done"}
    /\ faults' = faults + 1
    /\ command' = [command EXCEPT ![o] = "done"]
    /\ UNCHANGED <<vars, lease, control, tasks, commands, work>>

\* Nobody renews the row: its owner forgot it, or has no call outstanding and
\* so no heartbeat.
IdleLapse ==
    /\ \/ lease = Orphaned
       \/ lease \in Supervisors /\ IsIdle(lease) /\ tasks[lease] = {}
    /\ lease' = Free
    /\ UNCHANGED <<vars, control, tasks, command, faults, commands, work>>

\* The owner is suspended past its time to live in the middle of its work.
Lapse ==
    /\ lease \in Processes
    /\ faults < MaxFaults
    /\ faults' = faults + 1
    /\ lease' = Free
    /\ UNCHANGED <<vars, control, tasks, command, commands, work>>

-----------------------------------------------------------------------------
RecoverStep(p) ==
    \/ RecoverAcquire(p)
    \/ RecoverRecordLease(p)
    \/ RecoverRecheck(p)

\* The rest of a synchronous operation: its code has no await.
SynchronousStep(p) == RecoverStep(p) \/ StartAttempt(p) \/ PromoteApproved(p)

\* The adapter call t of p returns or throws.
TaskEnds(p, t) ==
    \/ ExecutionFailed(p, t)
    \/ ExecutionSucceeded(p, t)
    \/ \E passed \in BOOLEAN : Validated(p, t, passed)
    \/ Published(p, t)
    \/ \E decision \in Decisions : GateAnswered(p, t, decision)
    \/ TaskThrows(p, t)

CallerStep(p) ==
    \/ RecoverRead(p)
    \/ \E n \in Nodes, a \in Attempts : BeginAttempt(p, n, a)
    \/ \E g \in Generations, spec \in LoopSpecs : PrepareGeneration(p, g, spec)
    \/ \E c \in view.prepared : RequestHitlAndPromote(p, c)
    \/ OneAppend(p)

CommandStep(o) ==
    \/ CommandRequestsPause(o)
    \/ CommandPauses(o)
    \/ CommandResumes(o)
    \/ \E c \in view.prepared : CommandPromotes(o, c)
    \/ \E q \in view.promoted : CommandRollsBack(o, q)
    \/ CommandRefused(o)
    \/ CommandReleases(o)

SupervisorStep(p) ==
    \/ SynchronousStep(p)
    \/ CallerStep(p)
    \/ \E t \in tasks[p] : TaskEnds(p, t)

OperatorCommand(o) ==
    \/ \E what \in {"pause", "resume", "promote", "rollback"} : CommandAcquires(o, what)
    \/ CommandStep(o)

Fault ==
    \/ \E p \in Supervisors : Crash(p) \/ StorageFails(p)
    \/ \E o \in Operators : CommandCrashes(o) \/ CommandFails(o)
    \/ IdleLapse
    \/ Lapse

SystemNext ==
    \/ \E p \in Supervisors : SupervisorStep(p)
    \/ \E o \in Operators : OperatorCommand(o)
    \/ Fault

SystemSpec == SystemInit /\ [][SystemNext]_systemVars

\* Code without an await runs to its end; an adapter call returns or throws; a
\* command runs to its end; a row nobody renews expires; and a run nobody owns is
\* sooner or later attached to by a process its host restarts (attaching is
\* recover, createDshDurableBridge).  Humans, callers and operators owe nothing.
Fairness ==
    /\ \A p \in Supervisors :
          /\ WF_systemVars(SynchronousStep(p))
          /\ WF_systemVars(\E t \in tasks[p] : TaskEnds(p, t))
    /\ \A o \in Operators : WF_systemVars(CommandStep(o))
    /\ WF_systemVars(IdleLapse)
    /\ WF_systemVars(\E p \in Supervisors : lease = Free /\ RecoverRead(p))

FairSystemSpec == SystemSpec /\ Fairness

-----------------------------------------------------------------------------
(* Safety. *)

\* Whenever a settlement opens a validation, the process that settled is the one
\* that dispatched the attempt, although processes reuse attempt ids and answers
\* arrive after leases were lost and won again.
EvidenceOfOneExecution ==
    view.validation.status = "PENDING" => work.settledBy = work.dispatchedBy

\* An operation of two appends is cut short only by the loss of the lease: its
\* second append is never one the reducer refuses.
SecondAppendAccepted ==
    /\ \A p \in Supervisors : Owns(p) =>
          /\ control[p].at = "start" => MayStart(view, control[p].node, control[p].attempt)
          /\ control[p].at = "promote" => MayPromote(view, control[p].candidate)
    /\ \A o \in Operators : Owns(o) /\ command[o] = "paused" => MayPause(view)

\* An attempt leaves flight in two ways: the process that dispatched it settles it,
\* as succeeded or failed, while it owns the run; or it is declared lost.  A process
\* whose execution of the same attempt id ends late can do neither.
OnlyDispatcherEndsAttempt ==
    [][view.active.status # "NONE" /\ view'.active.status = "NONE"
          => lease = work.dispatchedBy \/ view'.phase = "PAUSED_RECOVERED"]_systemVars

-----------------------------------------------------------------------------
(* The strengthening that makes the safety properties inductive. *)

\* Inside recover, where an owner may meet work it knows nothing about.
InRecover(p) == control[p].at \in {"recordLease", "recheck"}

\* An owner past recover that finds an attempt in flight dispatched it itself,
\* and no pause was requested since: that would have taken its lease.
OwnerDispatched ==
    \A p \in Supervisors :
        Owns(p) /\ ~InRecover(p) /\ view.active.status # "NONE" =>
            work.dispatchedBy = p /\ view.phase = "RUNNING"

\* An approval somebody awaits was asked for under an id issued for it alone;
\* as long as the request is open it is about that candidate, on the evidence
\* at hand.
AwaitedApprovalIsOpen ==
    \A p \in Supervisors : \A t \in tasks[p] :
        t.await = "approval" =>
            /\ t.request <= issued.request
            /\ view.hitl.status = "PENDING" /\ view.hitl.request = t.request =>
                   HitlCandidate = t.candidate /\ t.candidate.val = view.validation.id

\* The inductive invariant of the processes, relative to that of the stream.
ProcessInv ==
    /\ OwnerDispatched
    /\ AwaitedApprovalIsOpen
    /\ EvidenceOfOneExecution
    /\ SecondAppendAccepted

-----------------------------------------------------------------------------
(* Liveness. *)

\* Work whose outcome may be unknown does not stay so: it settles, or some
\* supervisor declares it uncertain, whoever crashed or lost the lease.
UncertainWorkIsResolved == MayRecover(view) ~> ~MayRecover(view)

\* A requested pause takes effect even if the operator's process dies between
\* its two events.
PauseTakesEffect ==
    view.phase = "PAUSE_REQUESTED" ~> view.phase \in {"PAUSED", "PAUSED_RECOVERED"}

-----------------------------------------------------------------------------
(* What the documentation says and the system does not do. *)

\* README.md:63: a pause requested over a running attempt waits for the attempt to
\* settle, which commits PAUSED and keeps the validation.  The reducer does so; but
\* the CLI, which alone requests pauses, needs the lease for it and so fences the
\* process that could settle: the attempt is lost, by this formula, which holds and
\* which the document contradicts.
PausedAttemptIsLost ==
    [][view.phase = "PAUSE_REQUESTED" /\ view.active.status # "NONE"
          /\ view'.active.status = "NONE"
          => view'.phase = "PAUSED_RECOVERED"]_systemVars

\* README.md:18: after a restart no attempt or validation is left without a
\* durable outcome; README.md:70: nor is a human request left open.
RecoveryLeavesNothingUndecided ==
    [][\A p \in Supervisors :
          control[p].at = "recheck" /\ control'[p].at = "idle" /\ lease' = p
          => /\ view'.active.status = "NONE"
             /\ view'.validation.status # "PENDING"
             /\ view'.admission.status # "PENDING"
             /\ view'.hitl.status # "PENDING"]_systemVars

\* supervisor.ts:156: recover does not offer lease.acquired to a run that is
\* PAUSED_RECOVERED, where the reducer refuses it.
LeaseNotRecordedWhenRecovered ==
    \A p \in Supervisors :
        control[p].at = "recordLease" /\ Owns(p) => view.phase # "PAUSED_RECOVERED"
=============================================================================
