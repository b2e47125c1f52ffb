---------------------- MODULE RecoveryCoordinator_proofs ---------------------
(***************************************************************************)
(* Proofs about RecoveryCoordinator for any number of coordinators and any *)
(* length of the journal: the composition implements RunStream, and what a *)
(* coordinator returns and appends is about the journal.                   *)
(***************************************************************************)
EXTENDS RecoveryCoordinator, RunStream_proofs

CoordinatorInv == RecoveryTypeOK /\ SeenIsJournal

\* The values a coordinator starts from have their types.
LEMMA RecordsTyped ==
  /\ NoCheckpoint \in Checkpoints
  /\ \A stage \in InRecover \union {"idle", "returned", "collided"}, cp \in Checkpoints,
        r \in Nat, v \in RunView \union {None} :
        /\ Rec(stage, cp, r, v) \in Recs
        /\ Rec(stage, cp, r, v).stage = stage
        /\ Rec(stage, cp, r, v).revision = r
        /\ Rec(stage, cp, r, v).view = v
  /\ Idle \in Recs /\ Idle.stage = "idle" /\ Idle.revision = 0
BY DEF NoCheckpoint, Checkpoints, Rec, Recs, Idle, InRecover

\* A new run, no checkpoint, nobody recovering.
LEMMA CoordinatorInit == RecoveryInit => IInv /\ CoordinatorInv
<1> SUFFICES ASSUME RecoveryInit PROVE IInv /\ CoordinatorInv
  OBVIOUS
<1>1. IInv
  BY InitInv DEF RecoveryInit
<1>2. /\ revision = 1 /\ keyUsed = FALSE /\ owner = Worker
      /\ checkpoint = NoCheckpoint /\ rec = [p \in Coordinators |-> Idle]
  BY DEF RecoveryInit
<1>3. rec \in [Coordinators -> Recs]
  BY <1>2, RecordsTyped
<1>4. \A p \in Coordinators : rec[p].stage = "idle" /\ rec[p].revision = 0
  BY <1>2, RecordsTyped
<1>5. RecoveryTypeOK
  <2>1. TypeOK
    BY <1>1 DEF IInv
  <2>2. revision \in Nat /\ \A p \in Coordinators : rec[p].revision <= revision
    BY <1>2, <1>4
  <2>3. keyUsed \in BOOLEAN /\ owner \in Coordinators \union {Worker} /\ checkpoint \in Checkpoints
    BY <1>2, RecordsTyped
  <2> QED BY <1>3, <2>1, <2>2, <2>3 DEF RecoveryTypeOK
<1> QED BY <1>1, <1>4, <1>5 DEF CoordinatorInv, SeenIsJournal

\* A step of the composition is a step of the stream or leaves it alone.
LEMMA RecoveryNextIsStream == [RecoveryNext]_recoveryVars => [Next]_vars
<1>1. ASSUME NEW p \in Coordinators, AppendRecovery(p) PROVE Next
  BY <1>1 DEF AppendRecovery, Next, ProcessStep
<1>2. ASSUME NEW p \in Coordinators, RecoverStep(p), ~AppendRecovery(p) PROVE UNCHANGED vars
  BY <1>2 DEF RecoverStep, ReadCheckpoint, ReadJournal, AppendCollides, AppendThrows,
              RereadAfterCollision, Answer
<1>3. ASSUME NEW p \in Coordinators, CoordinatorDies(p) PROVE UNCHANGED vars
  BY <1>3 DEF CoordinatorDies
<1>4. ASSUME NEW p, LeaseMoves(p) PROVE UNCHANGED vars
  BY <1>4 DEF LeaseMoves
<1>5. SaveCheckpoint => UNCHANGED vars
  BY DEF SaveCheckpoint
<1>6. UNCHANGED recoveryVars => UNCHANGED vars
  BY DEF recoveryVars
<1> QED BY <1>1, <1>2, <1>3, <1>4, <1>5, <1>6 DEF RecoveryNext, WorkerAppends

\* What a coordinator's record has to say for the invariant to hold of it.
AboutJournal(r) ==
  /\ r.revision <= revision
  /\ r.stage \in {"append", "returned"} =>
        r.view = view /\ (r.stage = "returned" => ~Unsafe(view))

\* A coordinator's record is replaced and nothing else changes: the invariant
\* holds again if the new record has a type, and is about the journal.
LEMMA RecordReplaced ==
  ASSUME CoordinatorInv, NEW p \in Coordinators, NEW new \in Recs,
         rec' = [rec EXCEPT ![p] = new],
         UNCHANGED <<vars, storeVars, checkpoint>>,
         AboutJournal(new)
  PROVE  CoordinatorInv'
<1>1. /\ view' = view /\ revision' = revision /\ keyUsed' = keyUsed /\ owner' = owner
      /\ checkpoint' = checkpoint /\ UNCHANGED vars
  BY DEF vars, storeVars
<1>2. rec \in [Coordinators -> Recs]
  BY DEF CoordinatorInv, RecoveryTypeOK
<1>3. \A q \in Coordinators : rec'[q] = IF q = p THEN new ELSE rec[q]
  BY <1>2
<1>4. rec' \in [Coordinators -> Recs]
  BY <1>2
<1>5. TypeOK'
  BY <1>1 DEF CoordinatorInv, RecoveryTypeOK, TypeOK, vars
<1>6. RecoveryTypeOK'
  BY <1>1, <1>3, <1>4, <1>5 DEF CoordinatorInv, RecoveryTypeOK, AboutJournal
<1>7. SeenIsJournal'
  BY <1>1, <1>3 DEF CoordinatorInv, SeenIsJournal, AboutJournal, Unsafe
<1> QED BY <1>6, <1>7 DEF CoordinatorInv

\* A coordinator's stage is replaced.
LEMMA StageReplaced ==
  ASSUME NEW p \in Coordinators, rec \in [Coordinators -> Recs],
         NEW stage \in InRecover, rec' = [rec EXCEPT ![p].stage = stage]
  PROVE  \E new \in Recs : /\ rec' = [rec EXCEPT ![p] = new]
                           /\ new.stage = stage /\ new.revision = rec[p].revision
<1> DEFINE new == [rec[p] EXCEPT !.stage = stage]
<1>1. new \in Recs /\ new.stage = stage /\ new.revision = rec[p].revision
  BY DEF Recs
<1>2. rec' = [rec EXCEPT ![p] = new]
  OBVIOUS
<1> QED BY <1>1, <1>2

\* What a step does to the coordinator that makes it: the invariant of that
\* coordinator holds again, and those of the others if the journal stayed.
LEMMA CoordinatorSteps ==
  ASSUME IInv, CoordinatorInv, NEW p \in Coordinators,
         RecoverStep(p) \/ CoordinatorDies(p), TypeOK'
  PROVE  CoordinatorInv'
<1>0. /\ rec \in [Coordinators -> Recs] /\ revision \in Nat /\ checkpoint \in Checkpoints
      /\ view \in RunView
      /\ \A q \in Coordinators : rec[q].revision \in Nat /\ rec[q].revision <= revision
  <2>1. /\ rec \in [Coordinators -> Recs] /\ revision \in Nat /\ checkpoint \in Checkpoints
        /\ TypeOK
        /\ \A q \in Coordinators : rec[q].revision <= revision
    BY DEF CoordinatorInv, RecoveryTypeOK
  <2>2. \A r \in Recs : r.revision \in Nat
    BY DEF Recs
  <2>3. view \in RunView
    BY <2>1 DEF TypeOK
  <2> QED BY <2>1, <2>2, <2>3
<1>2. CASE ReadCheckpoint(p)
  <2> DEFINE new == Rec("journal", checkpoint, 0, None)
  <2>1. new \in Recs /\ new.stage = "journal" /\ new.revision = 0
    BY <1>0, RecordsTyped DEF InRecover
  <2>2. rec' = [rec EXCEPT ![p] = new] /\ UNCHANGED <<vars, storeVars, checkpoint>>
    BY <1>2 DEF ReadCheckpoint
  <2>3. AboutJournal(new)
    BY <1>0, <2>1 DEF AboutJournal
  <2> QED BY <2>1, <2>2, <2>3, RecordReplaced
<1>3. CASE ReadJournal(p)
  <2>1. Decided(p) = view
    BY DEF Decided
  <2>2. UNCHANGED <<vars, storeVars, checkpoint>>
    BY <1>3 DEF ReadJournal
  <2>3. CASE Unsafe(view)
    <3> DEFINE new == Rec("append", NoCheckpoint, revision, view)
    <3>1. new \in Recs /\ new.stage = "append" /\ new.revision = revision /\ new.view = view
      BY <1>0, RecordsTyped DEF InRecover
    <3>2. rec' = [rec EXCEPT ![p] = new]
      BY <1>3, <2>1, <2>3, Zenon DEF ReadJournal
    <3>3. AboutJournal(new)
      BY <1>0, <3>1 DEF AboutJournal
    <3> QED BY <2>2, <3>1, <3>2, <3>3, RecordReplaced
  <2>4. CASE ~Unsafe(view)
    <3> DEFINE new == Rec("returned", NoCheckpoint, revision, view)
    <3>1. new \in Recs /\ new.stage = "returned" /\ new.revision = revision /\ new.view = view
      BY <1>0, RecordsTyped DEF InRecover
    <3>2. rec' = [rec EXCEPT ![p] = new]
      BY <1>3, <2>1, <2>4, Zenon DEF ReadJournal, Return
    <3>3. AboutJournal(new)
      BY <1>0, <2>4, <3>1 DEF AboutJournal
    <3> QED BY <2>2, <3>1, <3>2, <3>3, RecordReplaced
  <2> QED BY <2>3, <2>4
<1>4. CASE AppendRecovery(p)
  <2>1. /\ revision' = revision + 1 /\ keyUsed' = TRUE /\ UNCHANGED <<owner, checkpoint>>
        /\ rec' = [rec EXCEPT ![p].stage = "answer"]
    BY <1>4 DEF AppendRecovery
  <2>2. PICK new \in Recs : /\ rec' = [rec EXCEPT ![p] = new]
                            /\ new.stage = "answer" /\ new.revision = rec[p].revision
    BY <1>0, <2>1, StageReplaced DEF InRecover
  <2>3. \A q \in Coordinators : rec'[q] = IF q = p THEN new ELSE rec[q]
    BY <1>0, <2>2
  <2>4. rec' \in [Coordinators -> Recs]
    BY <1>0, <2>2
  <2>6. revision' \in Nat /\ \A q \in Coordinators : rec'[q].revision <= revision'
    <3>1. \A q \in Coordinators : rec'[q].revision = rec[q].revision
      BY <2>2, <2>3
    <3> QED BY <1>0, <2>1, <3>1
  <2>7. RecoveryTypeOK'
    BY <2>1, <2>4, <2>6 DEF CoordinatorInv, RecoveryTypeOK
  <2>8. SeenIsJournal'
    <3>1. \A q \in Coordinators : rec'[q].revision # revision'
      <4>1. \A q \in Coordinators : rec'[q].revision = rec[q].revision
        BY <2>2, <2>3
      <4> QED BY <1>0, <2>1, <4>1
    <3> QED BY <3>1 DEF SeenIsJournal
  <2> QED BY <2>7, <2>8 DEF CoordinatorInv
<1>5. CASE AppendCollides(p)
  <2>1. /\ rec' = [rec EXCEPT ![p].stage = "collision"]
        /\ UNCHANGED <<vars, storeVars, checkpoint>>
    BY <1>5 DEF AppendCollides
  <2>2. PICK new \in Recs : /\ rec' = [rec EXCEPT ![p] = new]
                            /\ new.stage = "collision" /\ new.revision = rec[p].revision
    BY <1>0, <2>1, StageReplaced DEF InRecover
  <2>3. AboutJournal(new)
    BY <1>0, <2>2 DEF AboutJournal
  <2> QED BY <2>1, <2>2, <2>3, RecordReplaced
<1>6. CASE AppendThrows(p) \/ Answer(p) \/ CoordinatorDies(p)
  <2>1. rec' = [rec EXCEPT ![p] = Idle] /\ UNCHANGED <<vars, storeVars, checkpoint>>
    BY <1>6 DEF AppendThrows, Answer, CoordinatorDies
  <2>2. Idle \in Recs /\ AboutJournal(Idle)
    BY <1>0, RecordsTyped DEF AboutJournal
  <2> QED BY <2>1, <2>2, RecordReplaced
<1>7. CASE RereadAfterCollision(p)
  <2>1. UNCHANGED <<vars, storeVars, checkpoint>>
    BY <1>7 DEF RereadAfterCollision
  <2>2. CASE view.phase = "PAUSED_RECOVERED"
    <3> DEFINE new == Rec("returned", NoCheckpoint, revision, view)
    <3>1. new \in Recs /\ new.stage = "returned" /\ new.revision = revision /\ new.view = view
      BY <1>0, RecordsTyped DEF InRecover
    <3>2. rec' = [rec EXCEPT ![p] = new]
      BY <1>7, <2>2 DEF RereadAfterCollision, Return
    <3>3. ~Unsafe(view)
      BY <2>2 DEF Unsafe
    <3>4. AboutJournal(new)
      BY <1>0, <3>1, <3>3 DEF AboutJournal
    <3> QED BY <2>1, <3>1, <3>2, <3>4, RecordReplaced
  <2>3. CASE view.phase # "PAUSED_RECOVERED"
    <3> DEFINE new == Rec("collided", NoCheckpoint, revision, view)
    <3>1. new \in Recs /\ new.stage = "collided" /\ new.revision = revision
      BY <1>0, RecordsTyped DEF InRecover
    <3>2. rec' = [rec EXCEPT ![p] = new]
      BY <1>7, <2>3 DEF RereadAfterCollision, Return
    <3>3. AboutJournal(new)
      BY <1>0, <3>1 DEF AboutJournal
    <3> QED BY <2>1, <3>1, <3>2, <3>3, RecordReplaced
  <2> QED BY <2>2, <2>3
<1> QED BY <1>2, <1>3, <1>4, <1>5, <1>6, <1>7 DEF RecoverStep

\* The worker, a lease that moves, a checkpoint that is saved.
LEMMA OthersStep ==
  ASSUME IInv, CoordinatorInv, TypeOK',
         \/ WorkerAppends \/ SaveCheckpoint
         \/ \E p \in Coordinators \union {Worker} : LeaseMoves(p)
         \/ UNCHANGED recoveryVars
  PROVE  CoordinatorInv'
<1> USE DEF CoordinatorInv
<1>1. CASE WorkerAppends
  <2>1. revision' = revision + 1 /\ UNCHANGED <<keyUsed, owner, checkpoint, rec>>
    BY <1>1 DEF WorkerAppends
  <2>2. RecoveryTypeOK'
    BY <2>1 DEF RecoveryTypeOK, Recs
  <2>3. SeenIsJournal'
    BY <2>1 DEF RecoveryTypeOK, Recs, SeenIsJournal
  <2> QED BY <2>2, <2>3
<1>2. CASE SaveCheckpoint
  <2>1. PICK v \in {view, [view EXCEPT !.phase = "READY"]} : checkpoint' = Checkpoint(revision, v)
    BY <1>2 DEF SaveCheckpoint
  <2>2. v \in RunView
    BY <2>1 DEF RecoveryTypeOK, TypeOK, RunView, Phases
  <2>3. checkpoint' \in Checkpoints
    BY <2>1, <2>2 DEF Checkpoint, Checkpoints, RecoveryTypeOK
  <2> QED BY <1>2, <2>3 DEF SaveCheckpoint, RecoveryTypeOK, SeenIsJournal, Unsafe,
                            storeVars, vars
<1>3. CASE \E p \in Coordinators \union {Worker} : LeaseMoves(p)
  BY <1>3 DEF LeaseMoves, RecoveryTypeOK, SeenIsJournal, Unsafe, vars
<1>4. CASE UNCHANGED recoveryVars
  BY <1>4 DEF recoveryVars, storeVars, vars, RecoveryTypeOK, SeenIsJournal, Unsafe
<1> QED BY <1>1, <1>2, <1>3, <1>4

\* The invariants of the stream and of the coordinators hold together.
LEMMA CoordinatorInvPreserved ==
  ASSUME IInv, CoordinatorInv, [RecoveryNext]_recoveryVars
  PROVE  (IInv /\ CoordinatorInv)'
<1>1. IInv'
  BY RecoveryNextIsStream, NextPreserves
<1>2. TypeOK'
  BY <1>1 DEF IInv
<1> QED BY <1>1, <1>2, CoordinatorSteps, OthersStep DEF RecoveryNext

\* The invariants of the stream and of the coordinators, together.
THEOREM RecoveryInvariance == RecoverySpec => [](IInv /\ CoordinatorInv)
<1>1. IInv /\ CoordinatorInv /\ [RecoveryNext]_recoveryVars => (IInv /\ CoordinatorInv)'
  BY CoordinatorInvPreserved
<1> QED BY <1>1, CoordinatorInit, PTL DEF RecoverySpec

\* Every variable of the composition keeps its type.
THEOREM RecoveryTypeCorrectness == RecoverySpec => []RecoveryTypeOK
<1>1. CoordinatorInv => RecoveryTypeOK
  BY DEF CoordinatorInv
<1> QED BY <1>1, RecoveryInvariance, PTL

\* What recover returns without an event needs none while the journal has not grown:
\* the view was read in that journal, and its phase shows everything but what a pause
\* holds back (and an admission request).
THEOREM RecoveryReturnsSafe == RecoverySpec => []ReturnedIsSafe
<1>1. ASSUME IInv, CoordinatorInv PROVE ReturnedIsSafe
  <2>1. SUFFICES ASSUME ~Unsafe(view)
                 PROVE  /\ view.active.status = "NONE"
                        /\ view.phase \notin {"AWAITING_ADMISSION_HITL", "PAUSE_REQUESTED"}
                        /\ view.validation.status = "PENDING" \/ view.hitl.status = "PENDING" =>
                               view.phase = "PAUSED"
    BY <1>1 DEF CoordinatorInv, SeenIsJournal, ReturnedIsSafe
  <2>2. PhaseCoherent
    BY <1>1 DEF IInv
  <2> QED BY <2>1, <2>2 DEF Unsafe, PhaseCoherent
<1> QED BY <1>1, RecoveryInvariance, PTL

\* Coordinators, checkpoints and moving leases add nothing to the stream.
THEOREM RecoveryIsStream == RecoverySpec => ImplementsStream
<1>1. RecoveryInit => Init
  BY DEF RecoveryInit
<1>2. QED
  BY <1>1, RecoveryNextIsStream, PTL DEF RecoverySpec, ImplementsStream, Spec

\* The recovery event is appended to the very view the coordinator looked at.
THEOREM RecoverySweepsWhatWasSeen == RecoverySpec => RecoveryIsOfWhatWasSeen
<1>1. ASSUME IInv, CoordinatorInv, [RecoveryNext]_recoveryVars,
             NEW p \in Coordinators, rec[p].stage = "append", rec'[p].stage = "answer"
      PROVE  rec[p].view = view
  <2>1. PICK q \in Coordinators : RecoverStep(q) \/ CoordinatorDies(q)
    BY <1>1 DEF RecoveryNext, WorkerAppends, LeaseMoves, SaveCheckpoint, recoveryVars
  <2>2. CASE AppendRecovery(q)
    <3>1. q = p
      BY <1>1, <2>2 DEF AppendRecovery, CoordinatorInv, RecoveryTypeOK
    <3> QED BY <1>1, <2>2, <3>1 DEF AppendRecovery, CoordinatorInv, SeenIsJournal
  <2>3. CASE ~AppendRecovery(q)
    <3>1. \E new : rec' = [rec EXCEPT ![q] = new] /\ new.stage # "answer"
      BY <2>1, <2>3, RecordsTyped, <1>1
      DEF RecoverStep, CoordinatorDies, ReadCheckpoint, ReadJournal, AppendCollides, Rec,
          AppendThrows, RereadAfterCollision, Answer, Return, Idle, CoordinatorInv,
          RecoveryTypeOK, Recs
    <3> QED BY <1>1, <3>1 DEF CoordinatorInv, RecoveryTypeOK
  <2> QED BY <2>2, <2>3
<1>2. IInv /\ CoordinatorInv /\ [RecoveryNext]_recoveryVars =>
        [\A p \in Coordinators :
           rec[p].stage = "append" /\ rec'[p].stage = "answer" => rec[p].view = view]_recoveryVars
  BY <1>1
<1> QED BY <1>2, RecoveryInvariance, PTL DEF RecoverySpec, RecoveryIsOfWhatWasSeen
=============================================================================
