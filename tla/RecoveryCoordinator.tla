------------------------ MODULE RecoveryCoordinator -------------------------
(***************************************************************************)
(* RecoveryCoordinator.recover and the checkpoint of a run, in             *)
(* packages/storage/src/sqlite-run-store.ts.  A coordinator reads the      *)
(* checkpoint, reads and replays the journal, and appends one event if the *)
(* run was left in the middle of something; each of these is a statement   *)
(* or a transaction of its own, and other processes step in between: the   *)
(* owner of the lease appends whatever the stream accepts, the lease moves *)
(* to another process, a checkpoint is overwritten.                        *)
(***************************************************************************)
EXTENDS RunStream

CONSTANTS
    Coordinators,   \* processes that call recover
    Worker,         \* the process that drives the run
    MaxRevision     \* bound: events in the journal

ASSUME WorkerAssumption == Worker \notin Coordinators
ASSUME RevisionAssumption == MaxRevision \in Nat

VARIABLES
    revision,     \* number of events in the journal
    keyUsed,      \* the key recovery.uncertain:<runId> is in the journal
    owner,        \* the process whose grant is the live one
    checkpoint,   \* the run's row of run_checkpoints
    rec           \* where each coordinator is in recover, and what it knows

storeVars == <<revision, keyUsed, owner>>
recoveryVars == <<vars, storeVars, checkpoint, rec>>

NoCheckpoint == [revision |-> 0, view |-> None]
Checkpoint(r, v) == [revision |-> r, view |-> v]

Rec(stage, cp, r, v) == [stage |-> stage, checkpoint |-> cp, revision |-> r, view |-> v]
Idle == Rec("idle", NoCheckpoint, 0, None)
InRecover == {"journal", "append", "collision", "answer"}

Checkpoints == [revision : Nat, view : RunView \union {None}]
Recs == [stage : InRecover \union {"idle", "returned", "collided"},
         checkpoint : Checkpoints, revision : Nat, view : RunView \union {None}]

RecoveryTypeOK ==
    /\ TypeOK
    /\ revision \in Nat
    /\ keyUsed \in BOOLEAN
    /\ owner \in Coordinators \union {Worker}
    /\ checkpoint \in Checkpoints
    /\ rec \in [Coordinators -> Recs]
    /\ \A p \in Coordinators : rec[p].revision <= revision

RecoveryInit ==
    /\ Init
    /\ revision = 1
    /\ keyUsed = FALSE
    /\ owner = Worker
    /\ checkpoint = NoCheckpoint
    /\ rec = [p \in Coordinators |-> Idle]

Return(p, stage, v) == rec' = [rec EXCEPT ![p] = Rec(stage, NoCheckpoint, revision, v)]

-----------------------------------------------------------------------------
(* recover *)

Unsafe(v) ==
    \/ v.phase \in {"AWAITING_ADMISSION_HITL", "RUNNING", "VALIDATING", "PAUSE_REQUESTED"}
    \/ v.phase = "VALIDATED" /\ v.hitl.status = "PENDING"

ReadCheckpoint(p) ==
    /\ rec[p].stage \notin InRecover
    /\ rec' = [rec EXCEPT ![p] = Rec("journal", checkpoint, 0, None)]
    /\ UNCHANGED <<vars, storeVars, checkpoint>>

\* Mutant: a checkpoint at the head of the journal is believed.
DecidedByRevision(p) ==
    IF rec[p].checkpoint.revision = revision THEN rec[p].checkpoint.view ELSE view

\* The checkpoint is used only if it equals what the journal replays to.
Decided(p) ==
    IF rec[p].checkpoint.revision = revision /\ rec[p].checkpoint.view = view
    THEN rec[p].checkpoint.view ELSE view

ReadJournal(p) ==
    /\ rec[p].stage = "journal"
    /\ IF Unsafe(Decided(p))
       THEN rec' = [rec EXCEPT ![p] = Rec("append", NoCheckpoint, revision, Decided(p))]
       ELSE Return(p, "returned", Decided(p))
    /\ UNCHANGED <<vars, storeVars, checkpoint>>

\* Mutant: the event is applied to what the coordinator read.
AppendStale(p) ==
    /\ rec[p].stage = "append"
    /\ owner = p /\ ~keyUsed
    /\ revision < MaxRevision
    /\ view' = RecoveredUncertain(rec[p].view)
    /\ revision' = revision + 1
    /\ keyUsed' = TRUE
    /\ rec' = [rec EXCEPT ![p].stage = "answer"]
    /\ UNCHANGED <<issued, approvals, refused, revoked, evidenceGraph, pauseHeld,
                   owner, checkpoint>>

AppendRecovery(p) ==
    /\ rec[p].stage = "append"
    /\ owner = p /\ ~keyUsed /\ rec[p].revision = revision
    /\ revision < MaxRevision
    /\ Recover
    /\ revision' = revision + 1
    /\ keyUsed' = TRUE
    /\ rec' = [rec EXCEPT ![p].stage = "answer"]
    /\ UNCHANGED <<owner, checkpoint>>

\* IDEMPOTENCY_COLLISION, which the store reports before a stale revision.
AppendCollides(p) ==
    /\ rec[p].stage = "append"
    /\ owner = p /\ keyUsed
    /\ rec' = [rec EXCEPT ![p].stage = "collision"]
    /\ UNCHANGED <<vars, storeVars, checkpoint>>

\* FENCED, STALE_REVISION or a failing transaction: recover throws,
\* and knows nothing any more.
AppendThrows(p) ==
    /\ rec[p].stage = "append"
    /\ rec' = [rec EXCEPT ![p] = Idle]
    /\ UNCHANGED <<vars, storeVars, checkpoint>>

\* Mutant: a collision is taken to mean that the run has been recovered.
CollisionReturns(p) ==
    /\ rec[p].stage = "collision"
    /\ Return(p, "returned", view)
    /\ UNCHANGED <<vars, storeVars, checkpoint>>

\* After a collision the journal is read again: another coordinator was faster,
\* or recover throws the collision.
RereadAfterCollision(p) ==
    /\ rec[p].stage = "collision"
    /\ Return(p, IF view.phase = "PAUSED_RECOVERED" THEN "returned" ELSE "collided", view)
    /\ UNCHANGED <<vars, storeVars, checkpoint>>

\* The journal is read again for the answer, and may have moved on.
Answer(p) ==
    /\ rec[p].stage = "answer"
    /\ rec' = [rec EXCEPT ![p] = Idle]
    /\ UNCHANGED <<vars, storeVars, checkpoint>>

CoordinatorDies(p) ==
    /\ rec[p] # Idle
    /\ rec' = [rec EXCEPT ![p] = Idle]
    /\ UNCHANGED <<vars, storeVars, checkpoint>>

-----------------------------------------------------------------------------
(* The others *)

\* The worker appends any event, a recovery with a key of its own included.
WorkerAppends ==
    /\ owner = Worker
    /\ revision < MaxRevision
    /\ Next
    /\ revision' = revision + 1
    /\ UNCHANGED <<keyUsed, owner, checkpoint, rec>>

\* The row expires or is released, and another process acquires it.
LeaseMoves(p) ==
    /\ owner # p
    /\ owner' = p
    /\ UNCHANGED <<vars, revision, keyUsed, checkpoint, rec>>

\* The worker saves its projection of the journal; one of another version may
\* project it differently.  saveCheckpoint is not fenced: a late save that
\* replaces a newer row leaves what an early one leaves that was not replaced.
SaveCheckpoint ==
    /\ \E v \in {view, [view EXCEPT !.phase = "READY"]} : checkpoint' = Checkpoint(revision, v)
    /\ UNCHANGED <<vars, storeVars, rec>>

-----------------------------------------------------------------------------
RecoverStep(p) ==
    \/ ReadCheckpoint(p)
    \/ ReadJournal(p)
    \/ AppendRecovery(p)
    \/ AppendCollides(p)
    \/ AppendThrows(p)
    \/ RereadAfterCollision(p)
    \/ Answer(p)

RecoveryNext ==
    \/ \E p \in Coordinators : RecoverStep(p) \/ CoordinatorDies(p) \/ LeaseMoves(p)
    \/ LeaseMoves(Worker)
    \/ WorkerAppends
    \/ SaveCheckpoint

RecoverySpec == RecoveryInit /\ [][RecoveryNext]_recoveryVars

-----------------------------------------------------------------------------
\* A recover that returns without an event of its own, whatever checkpoint it was
\* given and whoever recovered first, leaves a run that needs none, as long as the
\* journal has not grown: no attempt is in flight, the run does not stand at the
\* admission gate, no pause is half done, and a validation or an approval is open
\* only behind a pause.  (That much may be: see ReturnedHasNothingOpen.)
ReturnedIsSafe ==
    \A p \in Coordinators : rec[p].stage = "returned" /\ rec[p].revision = revision =>
        /\ view.active.status = "NONE"
        /\ view.phase \notin {"AWAITING_ADMISSION_HITL", "PAUSE_REQUESTED"}
        /\ view.validation.status = "PENDING" \/ view.hitl.status = "PENDING" =>
               view.phase = "PAUSED"

\* The recovery event declares lost exactly the work the coordinator looked at;
\* what another owner did in between is never swept away with it.
RecoveryIsOfWhatWasSeen ==
    [][\A p \in Coordinators :
          rec[p].stage = "append" /\ rec'[p].stage = "answer" => rec[p].view = view]_recoveryVars

\* Coordinators, checkpoints and moving leases add nothing to what a run's
\* stream can become.
ImplementsStream == Spec

\* The strengthening: as long as the journal has not grown, the run is what the
\* coordinator read, and one that returned needed no recovery.
SeenIsJournal ==
    \A p \in Coordinators :
        rec[p].stage \in {"append", "returned"} /\ rec[p].revision = revision =>
            /\ rec[p].view = view
            /\ rec[p].stage = "returned" => ~Unsafe(view)

\* README.md:18 and README.md:70: after a restart no validation is without a durable
\* outcome and no request unresolved.  The coordinator looks at the phases of
\* `unsafe` only, and so passes over a paused run with any of these open, and over
\* an admission request that a pause and a resume left open.
ReturnedHasNothingOpen ==
    \A p \in Coordinators : rec[p].stage = "returned" /\ rec[p].revision = revision =>
        /\ view.validation.status # "PENDING"
        /\ view.admission.status # "PENDING"
        /\ view.hitl.status # "PENDING"

\* README.md:18: an attempt or a validation without a durable outcome becomes
\* PAUSED_RECOVERED, so a coordinator that owns the run is refused for its key
\* only if the run has been recovered.
CollisionMeansRecovered ==
    \A p \in Coordinators : rec[p].stage = "collided" => ~Unsafe(rec[p].view)
=============================================================================
