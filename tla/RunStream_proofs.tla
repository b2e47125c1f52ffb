-------------------------- MODULE RunStream_proofs --------------------------
(***************************************************************************)
(* Proofs about RunStream for every set of attempts, generations and       *)
(* graphs and every bound: the inductive invariant IInv holds, the safety  *)
(* properties follow from it, and every step is a step of PromotionGate.   *)
(***************************************************************************)
EXTENDS RunStream, TLAPS

\* The empty records of the reducer have the types of their fields.
LEMMA EmptyRecordsTyped ==
  /\ NoAttempt \in ActiveAttempt
  /\ EmptyValidation \in ValidationState
  /\ EmptyAdmission \in AdmissionState
  /\ EmptyHitl \in HitlState
BY DEF NoAttempt, EmptyValidation, EmptyAdmission, EmptyHitl,
       ActiveAttempt, ValidationState, AdmissionState, HitlState

\* A created run satisfies the invariant.
LEMMA InitInv == Init => IInv
<1> SUFFICES ASSUME Init PROVE IInv
  OBVIOUS
<1>1. PICK spec \in LoopSpecs, requiresHitl \in BOOLEAN :
        view = InitialView(spec, requiresHitl)
  BY InitialSpecsAreSpecs DEF Init
<1>2. spec.entry \in spec.nodes /\ spec.entry \in Nodes
  BY LoopSpecsCanonical DEF CanonicalLoopSpec, Nodes
<1>3. TypeOK
  BY <1>1, <1>2, EmptyRecordsTyped DEF Init, TypeOK, InitialView, RunView, Phases
<1>4. QED
  BY <1>1, <1>2, <1>3
  DEF Init, InitialView, NoAttempt, EmptyValidation, EmptyAdmission, EmptyHitl, IInv,
      PhaseCoherent, ExecutableNodeInActiveGraph, ActiveGraphIsSnapshot, IdsIssued,
      GenerationsPreparedOnce, SpentEvidenceIsRefused, EvidenceIsCurrent, EvidenceAccepted,
      ApprovalIsRecorded, PromotedWasApproved, RefusedEvidenceNeverPromotes,
      LostWorkLeavesNoEvidence, RevokedRequestNeverReturns, PauseHeld

-----------------------------------------------------------------------------
(* Each action preserves the invariant. *)

\* A recorded lease changes nothing the invariant mentions.
LEMMA RecordLeasePreserves ==
  ASSUME IInv, NEW token \in 1..MaxToken, RecordLease(token)
  PROVE  IInv'
<1>1. TypeOK'
  BY DEF IInv, TypeOK, RunView, Phases, RecordLease, MayRecordLease,
         LeaseRecorded
<1>2. /\ PhaseCoherent'
      /\ ExecutableNodeInActiveGraph'
      /\ ActiveGraphIsSnapshot'
      /\ IdsIssued'
      /\ GenerationsPreparedOnce'
      /\ SpentEvidenceIsRefused'
      /\ EvidenceIsCurrent'
      /\ ApprovalIsRecorded'
      /\ PromotedWasApproved'
      /\ RefusedEvidenceNeverPromotes'
      /\ LostWorkLeavesNoEvidence'
      /\ RevokedRequestNeverReturns'
      /\ PauseHeld'
  BY DEF IInv, TypeOK, RunView, RecordLease, LeaseRecorded, PhaseCoherent,
         ExecutableNodeInActiveGraph, ActiveGraphIsSnapshot, IdsIssued,
         GenerationsPreparedOnce, SpentEvidenceIsRefused, EvidenceIsCurrent,
         ApprovalIsRecorded, PromotedWasApproved,
         RefusedEvidenceNeverPromotes, LostWorkLeavesNoEvidence,
         RevokedRequestNeverReturns, PauseHeld, Withheld, EvidenceAccepted,
         HitlCandidate
<1>3. QED
  BY <1>1, <1>2 DEF IInv

\* Opening the admission gate takes a fresh request id.
LEMMA RequestAdmissionPreserves ==
  ASSUME IInv, RequestAdmission
  PROVE  IInv'
<1>1. TypeOK'
  <2>1. /\ NextRequest \in Nat
        /\ [status |-> "PENDING", request |-> NextRequest] \in AdmissionState
    BY DEF IInv, TypeOK, NextRequest, AdmissionState
  <2>2. QED
    BY <2>1
       DEF IInv, TypeOK, RunView, Phases, RequestAdmission,
           MayRequestAdmission, AdmissionRequested, NextRequest
<1>2. /\ ExecutableNodeInActiveGraph'
      /\ ActiveGraphIsSnapshot'
      /\ GenerationsPreparedOnce'
      /\ EvidenceIsCurrent'
      /\ ApprovalIsRecorded'
      /\ PromotedWasApproved'
      /\ RefusedEvidenceNeverPromotes'
      /\ LostWorkLeavesNoEvidence'
  BY DEF IInv, TypeOK, RunView, RequestAdmission, AdmissionRequested,
         NextRequest, ExecutableNodeInActiveGraph, ActiveGraphIsSnapshot,
         GenerationsPreparedOnce, EvidenceIsCurrent, ApprovalIsRecorded,
         PromotedWasApproved, RefusedEvidenceNeverPromotes,
         LostWorkLeavesNoEvidence, EvidenceAccepted, Withheld, HitlCandidate
<1>3. /\ PhaseCoherent'
      /\ SpentEvidenceIsRefused'
      /\ PauseHeld'
  BY DEF IInv, TypeOK, RunView, RequestAdmission, MayRequestAdmission,
         AdmissionRequested, NextRequest, PhaseCoherent,
         SpentEvidenceIsRefused, PauseHeld, Withheld
<1>4. IdsIssued'
  BY DEF IInv, TypeOK, RunView, RequestAdmission, MayRequestAdmission,
         AdmissionRequested, NextRequest, IdsIssued, AdmissionState,
         HitlState
<1>5. RevokedRequestNeverReturns'
  BY DEF IInv, TypeOK, RunView, RequestAdmission, MayRequestAdmission,
         AdmissionRequested, NextRequest, RevokedRequestNeverReturns,
         IdsIssued, AdmissionState
<1>6. QED
  BY <1>1, <1>2, <1>3, <1>4, <1>5 DEF IInv

\* An admission decision moves the phase only out of AWAITING_ADMISSION_HITL.
LEMMA DecideAdmissionPreserves ==
  ASSUME IInv, NEW r \in 1..issued.request, NEW decision \in Decisions, DecideAdmission(r, decision)
  PROVE  IInv'
<1>1. TypeOK'
  <2>1. [status |-> decision, request |-> r] \in AdmissionState
    BY DEF IInv, TypeOK, AdmissionState
  <2>2. QED
    BY <2>1
       DEF IInv, TypeOK, RunView, Phases, DecideAdmission,
           MayDecideAdmission, AdmissionDecided
<1>2. /\ ExecutableNodeInActiveGraph'
      /\ ActiveGraphIsSnapshot'
      /\ GenerationsPreparedOnce'
      /\ EvidenceIsCurrent'
      /\ ApprovalIsRecorded'
      /\ PromotedWasApproved'
      /\ RefusedEvidenceNeverPromotes'
      /\ LostWorkLeavesNoEvidence'
  BY DEF IInv, TypeOK, RunView, DecideAdmission, AdmissionDecided, Decisions,
         ExecutableNodeInActiveGraph, ActiveGraphIsSnapshot,
         GenerationsPreparedOnce, EvidenceIsCurrent, ApprovalIsRecorded,
         PromotedWasApproved, RefusedEvidenceNeverPromotes,
         LostWorkLeavesNoEvidence, EvidenceAccepted, Withheld, HitlCandidate
<1>3. /\ PhaseCoherent'
      /\ IdsIssued'
      /\ SpentEvidenceIsRefused'
      /\ RevokedRequestNeverReturns'
      /\ PauseHeld'
  BY DEF IInv, TypeOK, RunView, DecideAdmission, MayDecideAdmission,
         AdmissionDecided, Decisions, PhaseCoherent, IdsIssued,
         SpentEvidenceIsRefused, RevokedRequestNeverReturns, PauseHeld,
         Withheld
<1>4. QED
  BY <1>1, <1>2, <1>3 DEF IInv

\* A dispatch makes the graph in force the graph its evidence will be about.
LEMMA DispatchPreserves ==
  ASSUME IInv, NEW n \in Nodes, NEW a \in Attempts, Dispatch(n, a)
  PROVE  IInv'
<1>1. TypeOK'
  <2>1. [status |-> "DISPATCH_REQUESTED", node |-> n, attempt |-> a] \in ActiveAttempt
    BY DEF ActiveAttempt
  <2>2. QED
    BY <2>1
       DEF IInv, TypeOK, RunView, Phases, Dispatch, MayDispatch,
           Dispatched
<1>2. /\ ActiveGraphIsSnapshot'
      /\ IdsIssued'
      /\ GenerationsPreparedOnce'
      /\ EvidenceIsCurrent'
      /\ ApprovalIsRecorded'
      /\ PromotedWasApproved'
      /\ RefusedEvidenceNeverPromotes'
      /\ RevokedRequestNeverReturns'
  BY DEF IInv, TypeOK, RunView, Dispatch, Dispatched, ActiveGraphIsSnapshot,
         IdsIssued, GenerationsPreparedOnce, EvidenceIsCurrent,
         ApprovalIsRecorded, PromotedWasApproved,
         RefusedEvidenceNeverPromotes, RevokedRequestNeverReturns,
         EvidenceAccepted, Withheld, HitlCandidate
<1>3. /\ PhaseCoherent'
      /\ ExecutableNodeInActiveGraph'
      /\ SpentEvidenceIsRefused'
      /\ PauseHeld'
  BY DEF IInv, TypeOK, RunView, Dispatch, MayDispatch, Dispatched,
         PhaseCoherent, ExecutableNodeInActiveGraph, SpentEvidenceIsRefused,
         PauseHeld, Withheld
<1>4. LostWorkLeavesNoEvidence'
  BY NoneIsNoValue
     DEF IInv, TypeOK, RunView, Dispatch, MayDispatch, Dispatched,
         LostWorkLeavesNoEvidence
<1>5. QED
  BY <1>1, <1>2, <1>3, <1>4 DEF IInv

\* Starting keeps the attempt that was dispatched.
LEMMA StartPreserves ==
  ASSUME IInv, NEW n \in Nodes, NEW a \in Attempts, Start(n, a)
  PROVE  IInv'
<1>1. TypeOK'
  <2>1. [status |-> "STARTED", node |-> n, attempt |-> a] \in ActiveAttempt
    BY DEF ActiveAttempt
  <2>2. QED
    BY <2>1
       DEF IInv, TypeOK, RunView, Phases, Start, MayStart, Started,
           SameAttempt
<1>2. /\ ActiveGraphIsSnapshot'
      /\ IdsIssued'
      /\ GenerationsPreparedOnce'
      /\ ApprovalIsRecorded'
      /\ PromotedWasApproved'
      /\ RefusedEvidenceNeverPromotes'
      /\ LostWorkLeavesNoEvidence'
      /\ RevokedRequestNeverReturns'
      /\ PauseHeld'
  BY DEF IInv, TypeOK, RunView, Start, Started, SameAttempt,
         ActiveGraphIsSnapshot, IdsIssued, GenerationsPreparedOnce,
         ApprovalIsRecorded, PromotedWasApproved,
         RefusedEvidenceNeverPromotes, LostWorkLeavesNoEvidence,
         RevokedRequestNeverReturns, PauseHeld, HitlCandidate
<1>3. /\ PhaseCoherent'
      /\ ExecutableNodeInActiveGraph'
      /\ SpentEvidenceIsRefused'
      /\ EvidenceIsCurrent'
  BY DEF IInv, TypeOK, RunView, Start, MayStart, Started, SameAttempt,
         PhaseCoherent, ExecutableNodeInActiveGraph, SpentEvidenceIsRefused,
         EvidenceIsCurrent, Withheld, EvidenceAccepted
<1>4. QED
  BY <1>1, <1>2, <1>3 DEF IInv

\* A failed settlement clears every authority.
LEMMA SettleFailedPreserves ==
  ASSUME IInv, NEW n \in Nodes, NEW a \in Attempts, SettleFailed(n, a)
  PROVE  IInv'
<1>1. TypeOK'
  BY EmptyRecordsTyped
     DEF IInv, TypeOK, RunView, Phases, SettleFailed, MaySettle,
         SettledFailed, SameAttempt
<1>2. /\ PhaseCoherent'
      /\ ActiveGraphIsSnapshot'
      /\ IdsIssued'
      /\ GenerationsPreparedOnce'
      /\ SpentEvidenceIsRefused'
      /\ EvidenceIsCurrent'
      /\ ApprovalIsRecorded'
      /\ PromotedWasApproved'
      /\ RefusedEvidenceNeverPromotes'
      /\ LostWorkLeavesNoEvidence'
      /\ PauseHeld'
  BY DEF IInv, TypeOK, RunView, SettleFailed, SettledFailed, SameAttempt,
         NoAttempt, EmptyValidation, EmptyHitl, PhaseCoherent,
         ActiveGraphIsSnapshot, IdsIssued, GenerationsPreparedOnce,
         SpentEvidenceIsRefused, EvidenceIsCurrent, ApprovalIsRecorded,
         PromotedWasApproved, RefusedEvidenceNeverPromotes,
         LostWorkLeavesNoEvidence, PauseHeld, Withheld, EvidenceAccepted,
         HitlCandidate
<1>3. ExecutableNodeInActiveGraph'
  BY DEF IInv, TypeOK, RunView, SettleFailed, MaySettle, SettledFailed,
         SameAttempt, NoAttempt, EmptyValidation, EmptyHitl,
         ExecutableNodeInActiveGraph
<1>4. RevokedRequestNeverReturns'
  BY DEF IInv, TypeOK, RunView, SettleFailed, MaySettle, SettledFailed,
         SameAttempt, NoAttempt, EmptyValidation, EmptyHitl,
         RevokedRequestNeverReturns, IdsIssued
<1>5. QED
  BY <1>1, <1>2, <1>3, <1>4 DEF IInv

\* A successful settlement leaves pending evidence about the current graph.
LEMMA SettleSucceededPreserves ==
  ASSUME IInv, NEW n \in Nodes, NEW a \in Attempts, SettleSucceeded(n, a)
  PROVE  IInv'
<1>1. TypeOK'
  <2>1. [status |-> "PENDING", node |-> n, attempt |-> a, id |-> 0] \in ValidationState
    BY DEF ValidationState
  <2>2. QED
    BY <2>1, EmptyRecordsTyped
       DEF IInv, TypeOK, RunView, Phases, SettleSucceeded, MaySettle,
           SettledSucceeded, SameAttempt
<1>2. /\ PhaseCoherent'
      /\ ExecutableNodeInActiveGraph'
      /\ ActiveGraphIsSnapshot'
      /\ IdsIssued'
      /\ GenerationsPreparedOnce'
      /\ SpentEvidenceIsRefused'
      /\ ApprovalIsRecorded'
      /\ PromotedWasApproved'
      /\ RefusedEvidenceNeverPromotes'
  BY DEF IInv, TypeOK, RunView, SettleSucceeded, SettledSucceeded,
         SameAttempt, NoAttempt, EmptyHitl, PhaseCoherent,
         ExecutableNodeInActiveGraph, ActiveGraphIsSnapshot, IdsIssued,
         GenerationsPreparedOnce, SpentEvidenceIsRefused, ApprovalIsRecorded,
         PromotedWasApproved, RefusedEvidenceNeverPromotes, Withheld,
         HitlCandidate
<1>3. /\ EvidenceIsCurrent'
      /\ PauseHeld'
  BY DEF IInv, TypeOK, RunView, SettleSucceeded, MaySettle, SettledSucceeded,
         SameAttempt, NoAttempt, EmptyHitl, EvidenceIsCurrent, PauseHeld,
         EvidenceAccepted, Withheld
<1>4. LostWorkLeavesNoEvidence'
  BY NoneIsNoValue
     DEF IInv, TypeOK, RunView, SettleSucceeded, MaySettle,
         SettledSucceeded, SameAttempt, NoAttempt, EmptyHitl,
         LostWorkLeavesNoEvidence, EvidenceIsCurrent
<1>5. RevokedRequestNeverReturns'
  BY DEF IInv, TypeOK, RunView, SettleSucceeded, MaySettle, SettledSucceeded,
         SameAttempt, NoAttempt, EmptyHitl, RevokedRequestNeverReturns,
         IdsIssued
<1>6. QED
  BY <1>1, <1>2, <1>3, <1>4, <1>5 DEF IInv

\* A validation takes a fresh id, so nothing was prepared on it or refused.
LEMMA RecordValidationPreserves ==
  ASSUME IInv, NEW n \in Nodes, NEW a \in Attempts, NEW passed \in BOOLEAN,
         RecordValidation(n, a, passed)
  PROVE  IInv'
<1>1. TypeOK'
  <2>1. /\ NextValidation \in Nat
        /\ [status |-> IF passed THEN "PASSED" ELSE "FAILED",
            node |-> n, attempt |-> a, id |-> NextValidation] \in ValidationState
    BY DEF IInv, TypeOK, NextValidation, ValidationState
  <2>2. QED
    BY <2>1
       DEF IInv, TypeOK, RunView, Phases, RecordValidation,
           MayRecordValidation, ValidationRecorded, NextValidation
<1>2. /\ ExecutableNodeInActiveGraph'
      /\ ActiveGraphIsSnapshot'
      /\ GenerationsPreparedOnce'
      /\ ApprovalIsRecorded'
      /\ PromotedWasApproved'
      /\ RefusedEvidenceNeverPromotes'
      /\ RevokedRequestNeverReturns'
  BY DEF IInv, TypeOK, RunView, RecordValidation, ValidationRecorded,
         NextValidation, ExecutableNodeInActiveGraph, ActiveGraphIsSnapshot,
         GenerationsPreparedOnce, ApprovalIsRecorded, PromotedWasApproved,
         RefusedEvidenceNeverPromotes, RevokedRequestNeverReturns,
         HitlCandidate
<1>3. /\ PhaseCoherent'
      /\ LostWorkLeavesNoEvidence'
      /\ PauseHeld'
  BY DEF IInv, TypeOK, RunView, RecordValidation, MayRecordValidation,
         ValidationRecorded, NextValidation, PhaseCoherent,
         LostWorkLeavesNoEvidence, PauseHeld
<1>4. IdsIssued'
  BY DEF IInv, TypeOK, RunView, RecordValidation, MayRecordValidation,
         ValidationRecorded, NextValidation, IdsIssued, ValidationState,
         PreparedGeneration
<1>5. SpentEvidenceIsRefused'
  BY DEF IInv, TypeOK, RunView, RecordValidation, MayRecordValidation,
         ValidationRecorded, NextValidation, SpentEvidenceIsRefused,
         Withheld, IdsIssued, PhaseCoherent
<1>6. EvidenceIsCurrent'
  BY DEF IInv, TypeOK, RunView, RecordValidation, MayRecordValidation,
         ValidationRecorded, NextValidation, EvidenceIsCurrent,
         EvidenceAccepted, Withheld, IdsIssued, SpentEvidenceIsRefused,
         PreparedGeneration
<1>7. QED
  BY <1>1, <1>2, <1>3, <1>4, <1>5, <1>6 DEF IInv

\* Consuming evidence follows an edge of the graph in force.
LEMMA SupersedePreserves ==
  ASSUME IInv, NEW n \in Nodes, Supersede(n)
  PROVE  IInv'
<1>1. TypeOK'
  BY EmptyRecordsTyped
     DEF IInv, TypeOK, RunView, Phases, Supersede, MaySupersede,
         Superseded
<1>2. /\ ActiveGraphIsSnapshot'
      /\ IdsIssued'
      /\ GenerationsPreparedOnce'
      /\ SpentEvidenceIsRefused'
      /\ EvidenceIsCurrent'
      /\ ApprovalIsRecorded'
      /\ PromotedWasApproved'
      /\ RefusedEvidenceNeverPromotes'
      /\ LostWorkLeavesNoEvidence'
  BY DEF IInv, TypeOK, RunView, Supersede, Superseded, EmptyValidation,
         EmptyHitl, ActiveGraphIsSnapshot, IdsIssued,
         GenerationsPreparedOnce, SpentEvidenceIsRefused, EvidenceIsCurrent,
         ApprovalIsRecorded, PromotedWasApproved,
         RefusedEvidenceNeverPromotes, LostWorkLeavesNoEvidence, Withheld,
         EvidenceAccepted, HitlCandidate
<1>3. /\ PhaseCoherent'
      /\ PauseHeld'
  BY DEF IInv, TypeOK, RunView, Supersede, MaySupersede, Superseded,
         EmptyValidation, EmptyHitl, PhaseCoherent, PauseHeld
<1>4. ExecutableNodeInActiveGraph'
  BY LoopSpecsCanonical
     DEF IInv, TypeOK, RunView, Supersede, MaySupersede, Superseded,
         EmptyValidation, EmptyHitl, ExecutableNodeInActiveGraph,
         PhaseCoherent, CanonicalLoopSpec
<1>5. RevokedRequestNeverReturns'
  BY DEF IInv, TypeOK, RunView, Supersede, MaySupersede, Superseded,
         EmptyValidation, EmptyHitl, RevokedRequestNeverReturns, IdsIssued
<1>6. QED
  BY <1>1, <1>2, <1>3, <1>4, <1>5 DEF IInv

\* A pause request changes the phase only.
LEMMA RequestPausePreserves ==
  ASSUME IInv, RequestPause
  PROVE  IInv'
<1>1. TypeOK'
  BY DEF IInv, TypeOK, RunView, Phases, RequestPause, MayRequestPause,
         PauseRequested
<1>2. /\ PhaseCoherent'
      /\ ExecutableNodeInActiveGraph'
      /\ ActiveGraphIsSnapshot'
      /\ IdsIssued'
      /\ GenerationsPreparedOnce'
      /\ SpentEvidenceIsRefused'
      /\ EvidenceIsCurrent'
      /\ ApprovalIsRecorded'
      /\ PromotedWasApproved'
      /\ RefusedEvidenceNeverPromotes'
      /\ LostWorkLeavesNoEvidence'
      /\ RevokedRequestNeverReturns'
      /\ PauseHeld'
  BY DEF IInv, TypeOK, RunView, RequestPause, PauseRequested, PhaseCoherent,
         ExecutableNodeInActiveGraph, ActiveGraphIsSnapshot, IdsIssued,
         GenerationsPreparedOnce, SpentEvidenceIsRefused, EvidenceIsCurrent,
         ApprovalIsRecorded, PromotedWasApproved,
         RefusedEvidenceNeverPromotes, LostWorkLeavesNoEvidence,
         RevokedRequestNeverReturns, PauseHeld, Withheld, EvidenceAccepted,
         HitlCandidate
<1>3. QED
  BY <1>1, <1>2 DEF IInv

\* Committing a pause changes the phase only.
LEMMA PausePreserves ==
  ASSUME IInv, Pause
  PROVE  IInv'
<1>1. TypeOK'
  BY DEF IInv, TypeOK, RunView, Phases, Pause, MayPause, Paused
<1>2. /\ ExecutableNodeInActiveGraph'
      /\ ActiveGraphIsSnapshot'
      /\ IdsIssued'
      /\ GenerationsPreparedOnce'
      /\ SpentEvidenceIsRefused'
      /\ EvidenceIsCurrent'
      /\ ApprovalIsRecorded'
      /\ PromotedWasApproved'
      /\ RefusedEvidenceNeverPromotes'
      /\ LostWorkLeavesNoEvidence'
      /\ RevokedRequestNeverReturns'
      /\ PauseHeld'
  BY DEF IInv, TypeOK, RunView, Pause, Paused, ExecutableNodeInActiveGraph,
         ActiveGraphIsSnapshot, IdsIssued, GenerationsPreparedOnce,
         SpentEvidenceIsRefused, EvidenceIsCurrent, ApprovalIsRecorded,
         PromotedWasApproved, RefusedEvidenceNeverPromotes,
         LostWorkLeavesNoEvidence, RevokedRequestNeverReturns, PauseHeld,
         Withheld, EvidenceAccepted, HitlCandidate
<1>3. PhaseCoherent'
  BY DEF IInv, TypeOK, RunView, Pause, MayPause, Paused, PhaseCoherent
<1>4. QED
  BY <1>1, <1>2, <1>3 DEF IInv

\* A resume returns to the phase the validation record calls for.
LEMMA ResumePreserves ==
  ASSUME IInv, Resume
  PROVE  IInv'
<1>1. TypeOK'
  BY DEF IInv, TypeOK, RunView, Phases, Resume, MayResume, Resumed,
         PhaseAfterResume
<1>2. /\ ExecutableNodeInActiveGraph'
      /\ ActiveGraphIsSnapshot'
      /\ IdsIssued'
      /\ GenerationsPreparedOnce'
      /\ SpentEvidenceIsRefused'
      /\ EvidenceIsCurrent'
      /\ ApprovalIsRecorded'
      /\ PromotedWasApproved'
      /\ RefusedEvidenceNeverPromotes'
      /\ LostWorkLeavesNoEvidence'
      /\ RevokedRequestNeverReturns'
      /\ PauseHeld'
  BY DEF IInv, TypeOK, RunView, Resume, Resumed, PhaseAfterResume,
         ExecutableNodeInActiveGraph, ActiveGraphIsSnapshot, IdsIssued,
         GenerationsPreparedOnce, SpentEvidenceIsRefused, EvidenceIsCurrent,
         ApprovalIsRecorded, PromotedWasApproved,
         RefusedEvidenceNeverPromotes, LostWorkLeavesNoEvidence,
         RevokedRequestNeverReturns, PauseHeld, Withheld, EvidenceAccepted,
         HitlCandidate
<1>3. PhaseCoherent'
  BY DEF IInv, TypeOK, RunView, Resume, MayResume, Resumed, PhaseAfterResume,
         PhaseCoherent
<1>4. QED
  BY <1>1, <1>2, <1>3 DEF IInv

\* Recovery revokes exactly the requests that were open, all of them issued.
LEMMA RecoverRevokes ==
  ASSUME IInv, Recover
  PROVE  TypeOK' /\ IdsIssued' /\ RevokedRequestNeverReturns'
<1>1. view \in RunView /\ view.admission \in AdmissionState /\ view.hitl \in HitlState
  BY DEF IInv, TypeOK, RunView
<1>2. /\ OpenRequests(view) \subseteq Nat
      /\ \A r \in OpenRequests(view) :
            \/ view.admission.status = "PENDING" /\ r = view.admission.request
            \/ view.hitl.status = "PENDING" /\ r = view.hitl.request
  BY <1>1 DEF OpenRequests, AdmissionState, HitlState
<1>3. PICK validation \in ValidationState, admission \in AdmissionState, hitl \in HitlState :
        /\ view' = [view EXCEPT !.phase = "PAUSED_RECOVERED", !.active = NoAttempt,
                 !.validation = validation, !.admission = admission,
                 !.hitl = hitl, !.pauseRequested = FALSE]
        /\ validation \in {view.validation, EmptyValidation}
        /\ admission = IF view.admission.status = "PENDING" THEN EmptyAdmission ELSE view.admission
        /\ hitl = view.hitl \/ hitl = EmptyHitl
        /\ view.hitl.status = "PENDING" => hitl = EmptyHitl
  BY <1>1, EmptyRecordsTyped DEF IInv, TypeOK, RunView, Recover, RecoveredUncertain
<1>4. /\ view' \in RunView
      /\ view'.admission = admission /\ view'.hitl = hitl
      /\ view'.validation = validation /\ view'.prepared = view.prepared
  BY <1>1, <1>3, EmptyRecordsTyped DEF RunView, Phases
<1>5. revoked' = revoked \union OpenRequests(view) /\ issued' = issued /\ refused' = refused
  BY DEF Recover
<1>6. TypeOK'
  BY <1>2, <1>4, <1>5 DEF IInv, TypeOK, Recover
<1>7. IdsIssued /\ RevokedRequestNeverReturns /\ revoked \subseteq Nat
      /\ issued \in [validation : Nat, request : Nat]
  BY DEF IInv, TypeOK
<1>8. revoked' \subseteq 1..issued.request
  <2>1. ASSUME NEW r \in OpenRequests(view) PROVE r \in 1..issued.request
    BY <1>2, <1>7, <2>1 DEF IdsIssued
  <2>2. QED BY <1>5, <1>7, <2>1 DEF IdsIssued
<1>9. IdsIssued'
  BY <1>1, <1>3, <1>4, <1>5, <1>7, <1>8
  DEF IdsIssued, EmptyValidation, EmptyAdmission, EmptyHitl, AdmissionState, HitlState
<1>10. RevokedRequestNeverReturns'
  <2>1. view'.admission.request \notin revoked'
    BY <1>2, <1>3, <1>4, <1>5, <1>7, <1>8
    DEF IdsIssued, EmptyAdmission, RevokedRequestNeverReturns
  <2>2. view'.hitl.request \notin revoked'
    BY <1>2, <1>3, <1>4, <1>5, <1>7, <1>8
    DEF IdsIssued, EmptyHitl, RevokedRequestNeverReturns
  <2>3. QED BY <2>1, <2>2 DEF RevokedRequestNeverReturns
<1>11. QED BY <1>6, <1>9, <1>10

\* Recovery withdraws open requests and uncertain work.
LEMMA RecoverPreserves ==
  ASSUME IInv, Recover
  PROVE  IInv'
<1>1. TypeOK' /\ IdsIssued' /\ RevokedRequestNeverReturns'
  BY RecoverRevokes
<1>2. /\ PhaseCoherent'
      /\ ExecutableNodeInActiveGraph'
      /\ ActiveGraphIsSnapshot'
      /\ GenerationsPreparedOnce'
      /\ SpentEvidenceIsRefused'
      /\ EvidenceIsCurrent'
      /\ ApprovalIsRecorded'
      /\ PromotedWasApproved'
      /\ RefusedEvidenceNeverPromotes'
      /\ LostWorkLeavesNoEvidence'
      /\ PauseHeld'
  BY DEF IInv, TypeOK, RunView, Recover, RecoveredUncertain, LostWork,
         OpenRequests, NoAttempt, EmptyValidation, EmptyAdmission, EmptyHitl,
         PhaseCoherent, ExecutableNodeInActiveGraph, ActiveGraphIsSnapshot,
         GenerationsPreparedOnce, SpentEvidenceIsRefused, EvidenceIsCurrent,
         ApprovalIsRecorded, PromotedWasApproved,
         RefusedEvidenceNeverPromotes, LostWorkLeavesNoEvidence, PauseHeld,
         Withheld, EvidenceAccepted, HitlCandidate
<1>3. QED
  BY <1>1, <1>2 DEF IInv

\* Preparation adds one new generation, a later revision of the graph in force.
LEMMA PreparePreserves ==
  ASSUME IInv, NEW g \in Generations, NEW spec \in LoopSpecs, Prepare(g, spec)
  PROVE  IInv'
<1>1. TypeOK'
  <2>1. [gen |-> g, val |-> view.validation.id, spec |-> spec] \in PreparedGeneration
    BY DEF IInv, TypeOK, RunView, ValidationState, PreparedGeneration
  <2>2. QED
    BY <2>1
       DEF IInv, TypeOK, RunView, Phases, Prepare, MayPrepare, Prepared,
           SameIdentity
<1>2. /\ PhaseCoherent'
      /\ ExecutableNodeInActiveGraph'
      /\ ActiveGraphIsSnapshot'
      /\ IdsIssued'
      /\ SpentEvidenceIsRefused'
      /\ ApprovalIsRecorded'
      /\ PromotedWasApproved'
      /\ LostWorkLeavesNoEvidence'
      /\ RevokedRequestNeverReturns'
      /\ PauseHeld'
  BY DEF IInv, TypeOK, RunView, Prepare, Prepared, SameIdentity,
         PhaseCoherent, ExecutableNodeInActiveGraph, ActiveGraphIsSnapshot,
         IdsIssued, SpentEvidenceIsRefused, ApprovalIsRecorded,
         PromotedWasApproved, LostWorkLeavesNoEvidence,
         RevokedRequestNeverReturns, PauseHeld, Withheld, HitlCandidate
<1>3. GenerationsPreparedOnce'
  BY DEF IInv, TypeOK, RunView, Prepare, MayPrepare, Prepared, SameIdentity,
         GenerationsPreparedOnce
<1>4. EvidenceIsCurrent'
  BY DEF IInv, TypeOK, RunView, Prepare, MayPrepare, Prepared, SameIdentity,
         EvidenceIsCurrent, EvidenceAccepted, Withheld,
         GenerationsPreparedOnce
<1>5. RefusedEvidenceNeverPromotes'
  BY DEF IInv, TypeOK, RunView, Prepare, MayPrepare, Prepared, SameIdentity,
         RefusedEvidenceNeverPromotes, GenerationsPreparedOnce
<1>6. QED
  BY <1>1, <1>2, <1>3, <1>4, <1>5 DEF IInv

\* A promotion request takes a fresh id and names a prepared candidate.
LEMMA RequestHitlPreserves ==
  ASSUME IInv, NEW p \in view.prepared, RequestHitl(p)
  PROVE  IInv'
<1>1. TypeOK'
  <2>1. [status |-> "PENDING", request |-> NextRequest,
         gen |-> p.gen, spec |-> p.spec, val |-> p.val] \in HitlState
    BY DEF IInv, TypeOK, RunView, NextRequest, HitlState,
           PreparedGeneration
  <2>2. QED
    BY <2>1
       DEF IInv, TypeOK, RunView, Phases, RequestHitl, MayRequestHitl,
           HitlRequested, NextRequest
<1>2. /\ ExecutableNodeInActiveGraph'
      /\ ActiveGraphIsSnapshot'
      /\ GenerationsPreparedOnce'
      /\ PromotedWasApproved'
      /\ RefusedEvidenceNeverPromotes'
      /\ LostWorkLeavesNoEvidence'
      /\ PauseHeld'
  BY DEF IInv, TypeOK, RunView, RequestHitl, HitlRequested, NextRequest,
         ExecutableNodeInActiveGraph, ActiveGraphIsSnapshot,
         GenerationsPreparedOnce, PromotedWasApproved,
         RefusedEvidenceNeverPromotes, LostWorkLeavesNoEvidence, PauseHeld
<1>3. /\ PhaseCoherent'
      /\ SpentEvidenceIsRefused'
      /\ EvidenceIsCurrent'
  BY DEF IInv, TypeOK, RunView, RequestHitl, MayRequestHitl, HitlRequested,
         NextRequest, PhaseCoherent, SpentEvidenceIsRefused,
         EvidenceIsCurrent, Withheld, EvidenceAccepted
<1>4. IdsIssued'
  BY DEF IInv, TypeOK, RunView, RequestHitl, MayRequestHitl, HitlRequested,
         NextRequest, IdsIssued, AdmissionState, HitlState
<1>5. ApprovalIsRecorded'
  BY DEF IInv, TypeOK, RunView, RequestHitl, MayRequestHitl, HitlRequested,
         NextRequest, ApprovalIsRecorded, HitlCandidate, PreparedGeneration
<1>6. RevokedRequestNeverReturns'
  BY DEF IInv, TypeOK, RunView, RequestHitl, MayRequestHitl, HitlRequested,
         NextRequest, RevokedRequestNeverReturns, IdsIssued
<1>7. QED
  BY <1>1, <1>2, <1>3, <1>4, <1>5, <1>6 DEF IInv

\* A decision records an approval, or marks the evidence refused.
LEMMA DecideHitlPreserves ==
  ASSUME IInv, NEW r \in 1..issued.request, NEW decision \in Decisions, DecideHitl(r, decision)
  PROVE  IInv'
<1>1. TypeOK'
  <2>1. [view.hitl EXCEPT !.status = decision] \in HitlState
    BY DEF IInv, TypeOK, RunView, HitlState
  <2>2. QED
    BY <2>1
       DEF IInv, TypeOK, RunView, Phases, DecideHitl, MayDecideHitl,
           HitlDecided, HitlCandidate, PreparedGeneration,
           ApprovalIsRecorded, ValidationState
<1>2. /\ ExecutableNodeInActiveGraph'
      /\ ActiveGraphIsSnapshot'
      /\ GenerationsPreparedOnce'
      /\ PromotedWasApproved'
      /\ LostWorkLeavesNoEvidence'
  BY DEF IInv, TypeOK, RunView, DecideHitl, HitlDecided, Decisions,
         ExecutableNodeInActiveGraph, ActiveGraphIsSnapshot,
         GenerationsPreparedOnce, PromotedWasApproved,
         LostWorkLeavesNoEvidence
<1>3. PauseHeld'
  BY DEF IInv, TypeOK, RunView, DecideHitl, MayDecideHitl, HitlDecided,
         Decisions, PauseHeld
<1>4. PhaseCoherent'
  BY DEF IInv, TypeOK, RunView, DecideHitl, MayDecideHitl, HitlDecided,
         Decisions, PhaseCoherent, HitlState
<1>5. IdsIssued'
  BY DEF IInv, TypeOK, RunView, DecideHitl, MayDecideHitl, HitlDecided,
         Decisions, IdsIssued, HitlState, ValidationState, PhaseCoherent
<1>6. SpentEvidenceIsRefused'
  BY DEF IInv, TypeOK, RunView, DecideHitl, MayDecideHitl, HitlDecided,
         Decisions, SpentEvidenceIsRefused, Withheld, HitlState,
         PhaseCoherent
<1>7. EvidenceIsCurrent'
  BY DEF IInv, TypeOK, RunView, DecideHitl, MayDecideHitl, HitlDecided,
         Decisions, EvidenceIsCurrent, EvidenceAccepted, Withheld, HitlState
<1>8. ApprovalIsRecorded'
  BY DEF IInv, TypeOK, RunView, DecideHitl, MayDecideHitl, HitlDecided,
         Decisions, ApprovalIsRecorded, HitlCandidate, HitlState
<1>9. RefusedEvidenceNeverPromotes'
  BY DEF IInv, TypeOK, RunView, DecideHitl, MayDecideHitl, HitlDecided,
         Decisions, RefusedEvidenceNeverPromotes, EvidenceIsCurrent,
         PhaseCoherent
<1>10. RevokedRequestNeverReturns'
  BY DEF IInv, TypeOK, RunView, DecideHitl, MayDecideHitl, HitlDecided,
         Decisions, RevokedRequestNeverReturns, HitlState
<1>11. QED
  BY <1>1, <1>2, <1>3, <1>4, <1>5, <1>6, <1>7, <1>8, <1>9, <1>10 DEF IInv

\* A promotion spends evidence that no human refused.
LEMMA PromotePreserves ==
  ASSUME IInv, NEW p \in view.prepared, Promote(p)
  PROVE  IInv'
<1>1. TypeOK'
  <2>1. /\ p.gen \in Generations /\ p.spec \in LoopSpecs /\ p.spec.entry \in Nodes
        /\ [gen |-> p.gen, spec |-> p.spec] \in PromotedGeneration
    BY LoopSpecsCanonical
       DEF IInv, TypeOK, RunView, PreparedGeneration,
           PromotedGeneration, Nodes, CanonicalLoopSpec
  <2>2. QED
    BY <2>1, EmptyRecordsTyped
       DEF IInv, TypeOK, RunView, Phases, Promote, MayPromote, Promoted,
           HitlSatisfied
<1>2. /\ IdsIssued'
      /\ GenerationsPreparedOnce'
      /\ SpentEvidenceIsRefused'
      /\ ApprovalIsRecorded'
      /\ LostWorkLeavesNoEvidence'
      /\ RevokedRequestNeverReturns'
  BY DEF IInv, TypeOK, RunView, Promote, Promoted, HitlSatisfied,
         EmptyValidation, IdsIssued, GenerationsPreparedOnce,
         SpentEvidenceIsRefused, ApprovalIsRecorded,
         LostWorkLeavesNoEvidence, RevokedRequestNeverReturns, Withheld,
         HitlCandidate
<1>3. /\ PhaseCoherent'
      /\ PauseHeld'
  BY DEF IInv, TypeOK, RunView, Promote, MayPromote, Promoted, HitlSatisfied,
         EmptyValidation, PhaseCoherent, PauseHeld
<1>4. ExecutableNodeInActiveGraph'
  BY LoopSpecsCanonical
     DEF IInv, TypeOK, RunView, Promote, MayPromote, Promoted,
         HitlSatisfied, EmptyValidation, ExecutableNodeInActiveGraph,
         PhaseCoherent, CanonicalLoopSpec, PreparedGeneration
<1>5. ActiveGraphIsSnapshot'
  BY NoneIsNoValue
     DEF IInv, TypeOK, RunView, Promote, MayPromote, Promoted,
         HitlSatisfied, EmptyValidation, ActiveGraphIsSnapshot,
         PreparedGeneration
<1>6. EvidenceIsCurrent'
  BY DEF IInv, TypeOK, RunView, Promote, MayPromote, Promoted, HitlSatisfied,
         EmptyValidation, EvidenceIsCurrent, EvidenceAccepted, Withheld,
         PhaseCoherent
<1>7. PromotedWasApproved'
  BY DEF IInv, TypeOK, RunView, Promote, MayPromote, Promoted, HitlSatisfied,
         EmptyValidation, PromotedWasApproved, ApprovalIsRecorded,
         HitlCandidate, PreparedGeneration
<1>8. RefusedEvidenceNeverPromotes'
  BY DEF IInv, TypeOK, RunView, Promote, MayPromote, Promoted, HitlSatisfied,
         EmptyValidation, RefusedEvidenceNeverPromotes,
         SpentEvidenceIsRefused, Withheld, GenerationsPreparedOnce
<1>9. QED
  BY <1>1, <1>2, <1>3, <1>4, <1>5, <1>6, <1>7, <1>8 DEF IInv

\* A rollback happens only where no live evidence remains.
LEMMA RollBackPreserves ==
  ASSUME IInv, NEW q \in view.promoted, RollBack(q)
  PROVE  IInv'
<1>1. TypeOK'
  <2>1. /\ q.gen \in Generations /\ q.spec \in LoopSpecs /\ q.spec.entry \in Nodes
    BY LoopSpecsCanonical
       DEF IInv, TypeOK, RunView, PromotedGeneration, Nodes,
           CanonicalLoopSpec
  <2>2. QED
    BY <2>1
       DEF IInv, TypeOK, RunView, Phases, RollBack, MayRollBack,
           RolledBack
<1>2. /\ PhaseCoherent'
      /\ IdsIssued'
      /\ GenerationsPreparedOnce'
      /\ SpentEvidenceIsRefused'
      /\ ApprovalIsRecorded'
      /\ PromotedWasApproved'
      /\ RefusedEvidenceNeverPromotes'
      /\ LostWorkLeavesNoEvidence'
      /\ RevokedRequestNeverReturns'
      /\ PauseHeld'
  BY DEF IInv, TypeOK, RunView, RollBack, RolledBack, PhaseCoherent,
         IdsIssued, GenerationsPreparedOnce, SpentEvidenceIsRefused,
         ApprovalIsRecorded, PromotedWasApproved,
         RefusedEvidenceNeverPromotes, LostWorkLeavesNoEvidence,
         RevokedRequestNeverReturns, PauseHeld, Withheld, HitlCandidate
<1>3. ExecutableNodeInActiveGraph'
  BY LoopSpecsCanonical
     DEF IInv, TypeOK, RunView, RollBack, MayRollBack, RolledBack,
         ExecutableNodeInActiveGraph, CanonicalLoopSpec,
         PromotedGeneration
<1>4. ActiveGraphIsSnapshot'
  BY NoneIsNoValue
     DEF IInv, TypeOK, RunView, RollBack, MayRollBack, RolledBack,
         ActiveGraphIsSnapshot, PromotedGeneration
<1>5. EvidenceIsCurrent'
  BY DEF IInv, TypeOK, RunView, RollBack, MayRollBack, RolledBack,
         EvidenceIsCurrent, EvidenceAccepted, Withheld,
         SpentEvidenceIsRefused, PhaseCoherent
<1>6. QED
  BY <1>1, <1>2, <1>3, <1>4, <1>5 DEF IInv

\* The invariant depends on the variables only.
LEMMA StutterPreserves ==
  ASSUME IInv, UNCHANGED vars
  PROVE  IInv'
BY DEF vars, IInv, TypeOK, PhaseCoherent, ExecutableNodeInActiveGraph,
       ActiveGraphIsSnapshot, IdsIssued, GenerationsPreparedOnce, Withheld,
       SpentEvidenceIsRefused, EvidenceIsCurrent, EvidenceAccepted, HitlCandidate,
       ApprovalIsRecorded, PromotedWasApproved, RefusedEvidenceNeverPromotes,
       LostWorkLeavesNoEvidence, RevokedRequestNeverReturns, PauseHeld

\* Every step preserves the invariant.
LEMMA NextPreserves == IInv /\ [Next]_vars => IInv'
<1> SUFFICES ASSUME IInv, [Next]_vars PROVE IInv'
  OBVIOUS
<1>1. CASE AttemptStep
  BY <1>1, DispatchPreserves, StartPreserves, SettleFailedPreserves,
     SettleSucceededPreserves, RecordValidationPreserves DEF AttemptStep
<1>2. CASE HumanStep
  BY <1>2, RequestAdmissionPreserves, RequestHitlPreserves,
     DecideAdmissionPreserves, DecideHitlPreserves DEF HumanStep
<1>3. CASE OperatorStep
  BY <1>3, RequestPausePreserves, PausePreserves, ResumePreserves, SupersedePreserves,
     PreparePreserves, PromotePreserves, RollBackPreserves DEF OperatorStep
<1>4. CASE ProcessStep
  BY <1>4, RecordLeasePreserves, RecoverPreserves DEF ProcessStep
<1>5. QED
  BY <1>1, <1>2, <1>3, <1>4, StutterPreserves DEF Next

-----------------------------------------------------------------------------
\* The inductive invariant of the event stream.
THEOREM Invariance == Spec => []IInv
BY InitInv, NextPreserves, PTL DEF Spec

\* The reducer's view is well typed after every accepted event.
THEOREM TypeCorrectness == Spec => []TypeOK
<1>1. IInv => TypeOK
  BY DEF IInv
<1>2. QED
  BY <1>1, Invariance, PTL

\* A phase claims only what the records hold, and what is open shows in the phase,
\* but for an admission request, which is only known to be gone after a recovery.
THEOREM PhasesCohere == Spec => []PhaseCoherent
<1>1. IInv => PhaseCoherent
  BY DEF IInv
<1>2. QED
  BY <1>1, Invariance, PTL

\* The node the run is at belongs to the graph in force, after promotions and
\* rollbacks in any order.
THEOREM NodeIsExecutable == Spec => []ExecutableNodeInActiveGraph
<1>1. IInv => ExecutableNodeInActiveGraph
  BY DEF IInv
<1>2. QED
  BY <1>1, Invariance, PTL

\* The graph in force is the snapshot of the active generation.
THEOREM GraphIsSnapshot == Spec => []ActiveGraphIsSnapshot
<1>1. IInv => ActiveGraphIsSnapshot
  BY DEF IInv
<1>2. QED
  BY <1>1, Invariance, PTL

\* Under a configured gate nothing is promoted without a human's approval of
\* exactly that generation, validation and graph.
THEOREM PromotionNeedsApproval == Spec => []PromotedWasApproved
<1>1. IInv => PromotedWasApproved
  BY DEF IInv
<1>2. QED
  BY <1>1, Invariance, PTL

\* Evidence a human refused never promotes, whatever is paused and resumed.
THEOREM RefusedStaysRefused == Spec => []RefusedEvidenceNeverPromotes
<1>1. IInv => RefusedEvidenceNeverPromotes
  BY DEF IInv
<1>2. QED
  BY <1>1, Invariance, PTL

\* An attempt lost to a recovery leaves no evidence.
THEOREM LostWorkIsLost == Spec => []LostWorkLeavesNoEvidence
<1>1. IInv => LostWorkLeavesNoEvidence
  BY DEF IInv
<1>2. QED
  BY <1>1, Invariance, PTL

\* A request that was open at a recovery is never the run's request again.
THEOREM RevokedStaysRevoked == Spec => []RevokedRequestNeverReturns
<1>1. IInv => RevokedRequestNeverReturns
  BY DEF IInv
<1>2. QED
  BY <1>1, Invariance, PTL

\* A pause lasts until a resume, a failed settlement or a recovery ends it.
THEOREM PauseIsHeld == Spec => []PauseHeld
<1>1. IInv => PauseHeld
  BY DEF IInv
<1>2. QED
  BY <1>1, Invariance, PTL

-----------------------------------------------------------------------------
(* The stream implements PromotionGate: each action is one of its steps or *)
(* leaves its variables alone.                                             *)

\* The gate does not see RecordLease.
LEMMA RecordLeaseInvisible ==
  ASSUME IInv, NEW token \in 1..MaxToken, RecordLease(token)
  PROVE  UNCHANGED Gate!vars
BY DEF IInv, TypeOK, RunView, RecordLease, MayRecordLease, LeaseRecorded,
       EvidenceAccepted, Withheld, Gate!vars

\* The gate does not see RequestAdmission.
LEMMA RequestAdmissionInvisible ==
  ASSUME IInv, RequestAdmission
  PROVE  UNCHANGED Gate!vars
BY DEF IInv, TypeOK, RunView, RequestAdmission, MayRequestAdmission,
       AdmissionRequested, NextRequest, EvidenceAccepted, Withheld, Gate!vars

\* The gate does not see DecideAdmission.
LEMMA DecideAdmissionInvisible ==
  ASSUME IInv, NEW r \in 1..issued.request, NEW decision \in Decisions, DecideAdmission(r, decision)
  PROVE  UNCHANGED Gate!vars
BY DEF IInv, TypeOK, RunView, DecideAdmission, MayDecideAdmission,
       AdmissionDecided, EvidenceAccepted, Withheld, Gate!vars

\* The gate does not see Dispatch.
LEMMA DispatchInvisible ==
  ASSUME IInv, NEW n \in Nodes, NEW a \in Attempts, Dispatch(n, a)
  PROVE  UNCHANGED Gate!vars
BY DEF IInv, TypeOK, RunView, Dispatch, MayDispatch, Dispatched,
       EvidenceAccepted, Withheld, Gate!vars, SpentEvidenceIsRefused

\* The gate does not see Start.
LEMMA StartInvisible ==
  ASSUME IInv, NEW n \in Nodes, NEW a \in Attempts, Start(n, a)
  PROVE  UNCHANGED Gate!vars
BY DEF IInv, TypeOK, RunView, Start, MayStart, Started, SameAttempt,
       EvidenceAccepted, Withheld, Gate!vars

\* The gate does not see SettleFailed.
LEMMA SettleFailedInvisible ==
  ASSUME IInv, NEW n \in Nodes, NEW a \in Attempts, SettleFailed(n, a)
  PROVE  UNCHANGED Gate!vars
BY DEF IInv, TypeOK, RunView, SettleFailed, MaySettle, SettledFailed,
       SameAttempt, NoAttempt, EmptyValidation, EmptyHitl, EvidenceAccepted,
       Withheld, Gate!vars, SpentEvidenceIsRefused

\* The gate does not see SettleSucceeded.
LEMMA SettleSucceededInvisible ==
  ASSUME IInv, NEW n \in Nodes, NEW a \in Attempts, SettleSucceeded(n, a)
  PROVE  UNCHANGED Gate!vars
BY DEF IInv, TypeOK, RunView, SettleSucceeded, MaySettle, SettledSucceeded,
       SameAttempt, NoAttempt, EmptyHitl, EvidenceAccepted, Withheld,
       Gate!vars, SpentEvidenceIsRefused

\* The gate does not see RequestPause.
LEMMA RequestPauseInvisible ==
  ASSUME IInv, RequestPause
  PROVE  UNCHANGED Gate!vars
BY DEF IInv, TypeOK, RunView, RequestPause, MayRequestPause, PauseRequested,
       EvidenceAccepted, Withheld, Gate!vars

\* The gate does not see Pause.
LEMMA PauseInvisible ==
  ASSUME IInv, Pause
  PROVE  UNCHANGED Gate!vars
BY DEF IInv, TypeOK, RunView, Pause, MayPause, Paused, EvidenceAccepted,
       Withheld, Gate!vars

\* The gate does not see Resume.
LEMMA ResumeInvisible ==
  ASSUME IInv, Resume
  PROVE  UNCHANGED Gate!vars
BY DEF IInv, TypeOK, RunView, Resume, MayResume, Resumed, PhaseAfterResume,
       EvidenceAccepted, Withheld, Gate!vars

\* The gate does not see Recover.
LEMMA RecoverInvisible ==
  ASSUME IInv, Recover
  PROVE  UNCHANGED Gate!vars
BY DEF IInv, TypeOK, RunView, Recover, MayRecover, RecoveredUncertain,
       LostWork, OpenRequests, NoAttempt, EmptyValidation, EmptyAdmission,
       EmptyHitl, EvidenceAccepted, Withheld, Gate!vars,
       SpentEvidenceIsRefused, PhaseCoherent

\* The gate does not see Prepare.
LEMMA PrepareInvisible ==
  ASSUME IInv, NEW g \in Generations, NEW spec \in LoopSpecs, Prepare(g, spec)
  PROVE  UNCHANGED Gate!vars
BY DEF IInv, TypeOK, RunView, Prepare, MayPrepare, Prepared, SameIdentity,
       EvidenceAccepted, Withheld, Gate!vars

\* The gate does not see RequestHitl.
LEMMA RequestHitlInvisible ==
  ASSUME IInv, NEW p \in view.prepared, RequestHitl(p)
  PROVE  UNCHANGED Gate!vars
BY DEF IInv, TypeOK, RunView, RequestHitl, MayRequestHitl, HitlRequested,
       NextRequest, EvidenceAccepted, Withheld, Gate!vars


\* A passed validation is accepted evidence, a failed one is invisible.
LEMMA RecordValidationAccepts ==
  ASSUME IInv, NEW n \in Nodes, NEW a \in Attempts, NEW passed \in BOOLEAN,
         RecordValidation(n, a, passed)
  PROVE  [Gate!Next]_(Gate!vars)
<1>1. CASE passed
  <2>1. Gate!AcceptEvidence
    BY <1>1 DEF IInv, TypeOK, RunView, RecordValidation, MayRecordValidation,
       ValidationRecorded, SpentEvidenceIsRefused, EvidenceIsCurrent, EvidenceAccepted,
       Withheld, Gate!AcceptEvidence
  <2>2. QED
    BY <2>1 DEF Gate!Next
<1>2. CASE ~passed
  BY <1>2 DEF IInv, TypeOK, RunView, RecordValidation, MayRecordValidation,
     ValidationRecorded, EvidenceAccepted, Gate!vars
<1>3. QED
  BY <1>1, <1>2

\* Consuming evidence to advance the loop discards it.
LEMMA SupersedeDiscards ==
  ASSUME IInv, NEW n \in Nodes, Supersede(n)
  PROVE  [Gate!Next]_(Gate!vars)
<1>1. Gate!DiscardEvidence
  BY DEF IInv, TypeOK, RunView, Supersede, Superseded, EmptyValidation, EvidenceAccepted,
     Gate!DiscardEvidence
<1>2. QED
  BY <1>1 DEF Gate!Next

\* A human's decision approves the candidate or discards the evidence.
LEMMA DecideHitlApprovesOrDiscards ==
  ASSUME IInv, NEW r \in 1..issued.request, NEW decision \in Decisions,
         DecideHitl(r, decision)
  PROVE  [Gate!Next]_(Gate!vars)
<1>1. view \in RunView /\ view.hitl \in HitlState
  BY DEF IInv, TypeOK, RunView
<1>2. /\ view' = [view EXCEPT !.phase = view'.phase,
                              !.hitl = [view.hitl EXCEPT !.status = decision]]
      /\ view'.hitl.status = decision /\ view'.hitl.spec = view.hitl.spec
      /\ UNCHANGED evidenceGraph
  BY <1>1 DEF DecideHitl, HitlDecided, RunView, HitlState
<1>3. /\ view'.validation = view.validation /\ view'.loopSpec = view.loopSpec
      /\ view'.promoted = view.promoted /\ view'.requiresHitl = view.requiresHitl
  BY <1>1, <1>2 DEF RunView
<1>4. CASE decision = "APPROVED"
  <2>1. EvidenceAccepted /\ EvidenceAccepted' /\ view.hitl.status = "PENDING"
    BY <1>2, <1>3, <1>4 DEF IInv, PhaseCoherent, DecideHitl, MayDecideHitl,
       EvidenceAccepted, Withheld
  <2>2. view.hitl.spec \in LoopSpecs
    BY <2>1 DEF IInv, TypeOK, RunView, ApprovalIsRecorded, HitlCandidate, PreparedGeneration
  <2>3. evidenceGraph # None
    BY <2>1 DEF IInv, LostWorkLeavesNoEvidence, EvidenceAccepted
  <2>4. Gate!Approve(view.hitl.spec)
    BY <1>2, <1>3, <1>4, <2>1, <2>3 DEF Gate!Approve
  <2>5. QED
    BY <2>2, <2>4 DEF Gate!Next
<1>5. CASE decision # "APPROVED"
  <2>1. Gate!DiscardEvidence
    BY <1>2, <1>3, <1>5 DEF Decisions, EvidenceAccepted, Withheld, Gate!DiscardEvidence
  <2>2. QED
    BY <2>1 DEF Gate!Next
<1>6. QED
  BY <1>4, <1>5

\* What a promotion spends and brings into force.
LEMMA PromoteSpends ==
  ASSUME IInv, NEW p \in view.prepared, Promote(p)
  PROVE  /\ EvidenceAccepted /\ evidenceGraph = view.loopSpec
         /\ p.spec \in LoopSpecs
         /\ p.spec.specId = view.loopSpec.specId
         /\ p.spec.revision > view.loopSpec.revision
         /\ view.requiresHitl => view.hitl.status = "APPROVED" /\ view.hitl.spec = p.spec
         /\ view'.loopSpec = p.spec
         /\ view'.promoted = view.promoted \union {[gen |-> p.gen, spec |-> p.spec]}
         /\ view'.requiresHitl = view.requiresHitl
         /\ view'.validation = EmptyValidation
<1>1. EvidenceAccepted
  BY DEF IInv, TypeOK, RunView, Promote, MayPromote, HitlSatisfied, EvidenceAccepted, Withheld
<1>2. p.spec \in LoopSpecs
  BY DEF IInv, TypeOK, RunView, PreparedGeneration
<1>3. /\ evidenceGraph = view.loopSpec
      /\ p.spec.specId = view.loopSpec.specId
      /\ p.spec.revision > view.loopSpec.revision
  BY <1>1 DEF IInv, EvidenceIsCurrent, Promote, MayPromote
<1>4. view.requiresHitl => view.hitl.status = "APPROVED" /\ view.hitl.spec = p.spec
  BY DEF Promote, MayPromote, HitlSatisfied
<1>5. /\ view'.loopSpec = p.spec
      /\ view'.promoted = view.promoted \union {[gen |-> p.gen, spec |-> p.spec]}
      /\ view'.requiresHitl = view.requiresHitl
      /\ view'.validation = EmptyValidation
  BY DEF IInv, TypeOK, RunView, Promote, Promoted
<1>6. QED
  BY <1>1, <1>2, <1>3, <1>4, <1>5

\* A promotion is a promotion of the gate.
LEMMA PromotePromotes ==
  ASSUME IInv, NEW p \in view.prepared, Promote(p)
  PROVE  [Gate!Next]_(Gate!vars)
<1>1. {q.spec : q \in view'.promoted} = {q.spec : q \in view.promoted} \union {p.spec}
  <2> DEFINE new == [gen |-> p.gen, spec |-> p.spec]
  <2>1. view'.promoted = view.promoted \union {new} /\ new.spec = p.spec
    BY PromoteSpends
  <2> HIDE DEF new
  <2>2. QED
    BY <2>1
<1>2. ~EvidenceAccepted'
  BY PromoteSpends DEF EvidenceAccepted, EmptyValidation
<1>3. Gate!Promote(p.spec)
  BY <1>1, <1>2, PromoteSpends DEF Gate!Promote
<1>4. QED
  BY <1>3, PromoteSpends DEF Gate!Next

\* A rollback restores a promoted graph while no evidence is live.
LEMMA RollBackRestores ==
  ASSUME IInv, NEW q \in view.promoted, RollBack(q)
  PROVE  [Gate!Next]_(Gate!vars)
<1>1. q.spec \in LoopSpecs /\ q.spec \in {x.spec : x \in view.promoted}
  BY DEF IInv, TypeOK, RunView, PromotedGeneration
<1>2. ~EvidenceAccepted /\ ~EvidenceAccepted'
  BY DEF IInv, TypeOK, RunView, RollBack, MayRollBack, RolledBack, SpentEvidenceIsRefused,
     EvidenceAccepted, Withheld
<1>3. /\ view'.loopSpec = q.spec /\ view'.promoted = view.promoted
      /\ view'.requiresHitl = view.requiresHitl
  BY DEF IInv, TypeOK, RunView, RollBack, RolledBack
<1>4. Gate!RollBack(q.spec)
  BY <1>1, <1>2, <1>3 DEF Gate!RollBack
<1>5. QED
  BY <1>1, <1>4 DEF Gate!Next

\* An initial view is an initial state of the gate.
LEMMA InitGate == Init => Gate!Init
BY InitialSpecsAreSpecs
DEF Init, InitialView, EmptyValidation, EvidenceAccepted, Gate!Init

\* Every step of the stream is a step of the gate or leaves it unchanged.
LEMMA NextGate == IInv /\ [Next]_vars => [Gate!Next]_(Gate!vars)
<1> SUFFICES ASSUME IInv, [Next]_vars PROVE [Gate!Next]_(Gate!vars)
  OBVIOUS
<1>1. CASE AttemptStep
  BY <1>1, DispatchInvisible, StartInvisible, SettleFailedInvisible,
     SettleSucceededInvisible, RecordValidationAccepts DEF AttemptStep
<1>2. CASE HumanStep
  BY <1>2, RequestAdmissionInvisible, RequestHitlInvisible,
     DecideAdmissionInvisible, DecideHitlApprovesOrDiscards DEF HumanStep
<1>3. CASE OperatorStep
  BY <1>3, RequestPauseInvisible, PauseInvisible, ResumeInvisible, SupersedeDiscards,
     PrepareInvisible, PromotePromotes, RollBackRestores DEF OperatorStep
<1>4. CASE ProcessStep
  BY <1>4, RecordLeaseInvisible, RecoverInvisible DEF ProcessStep
<1>5. CASE UNCHANGED vars
  BY <1>5 DEF vars, EvidenceAccepted, Withheld, Gate!vars
<1>6. QED
  BY <1>1, <1>2, <1>3, <1>4, <1>5 DEF Next

\* The stream of accepted events implements the promotion gate.
THEOREM Refinement == Spec => ImplementsGate
<1>1. Init => Gate!Init
  BY InitGate
<1>2. IInv /\ [Next]_vars => [Gate!Next]_(Gate!vars)
  BY NextGate
<1>3. QED
  BY <1>1, <1>2, Invariance, PTL DEF Spec, ImplementsGate, Gate!Spec

\* A promotion rests on evidence about the graph it replaces and raises its
\* revision.
THEOREM PromotionAdvances == Spec => PromotionAdvancesTestedGraph
<1> DEFINE Advances ==
      view'.promoted # view.promoted =>
          /\ evidenceGraph = view.loopSpec
          /\ view'.loopSpec.specId = view.loopSpec.specId
          /\ view'.loopSpec.revision > view.loopSpec.revision
<1>1. IInv /\ [Next]_vars => [Advances]_vars
  <2> SUFFICES ASSUME IInv, Next PROVE Advances
    OBVIOUS
  <2> USE DEF IInv, TypeOK, RunView
  <2>1. CASE AttemptStep
    BY <2>1 DEF AttemptStep, Dispatch, Dispatched, Start, Started, SettleFailed, SettledFailed,
       SettleSucceeded, SettledSucceeded, RecordValidation, ValidationRecorded
  <2>2. CASE HumanStep
    BY <2>2 DEF HumanStep, RequestAdmission, AdmissionRequested, RequestHitl, HitlRequested,
       DecideAdmission, AdmissionDecided, DecideHitl, HitlDecided
  <2>3. CASE OperatorStep
    BY <2>3, PromoteSpends DEF OperatorStep, RequestPause, PauseRequested, Pause, Paused,
       Resume, Resumed, Supersede, Superseded, Prepare, Prepared, RollBack, RolledBack
  <2>4. CASE ProcessStep
    BY <2>4 DEF ProcessStep, RecordLease, LeaseRecorded, Recover, RecoveredUncertain
  <2>5. QED
    BY <2>1, <2>2, <2>3, <2>4 DEF Next
<1>2. QED
  BY <1>1, Invariance, PTL DEF Spec, PromotionAdvancesTestedGraph

\* A revision names one graph: a candidate is prepared under an identity that
\* no earlier candidate has, above the graph in force, and only a prepared graph
\* comes into force.
LEMMA RevisionNamesGraphPreserved ==
  ASSUME IInv, RevisionNamesGraph, [Next]_vars
  PROVE  RevisionNamesGraph'
<1> USE DEF IInv, TypeOK, RunView
<1>1. ASSUME view'.prepared = view.prepared, view'.loopSpec = view.loopSpec
      PROVE  RevisionNamesGraph'
  BY <1>1 DEF RevisionNamesGraph
<1>2. CASE AttemptStep
  BY <1>1, <1>2 DEF AttemptStep, Dispatch, Dispatched, Start, Started, SettleFailed,
     SettledFailed, SettleSucceeded, SettledSucceeded, RecordValidation, ValidationRecorded
<1>3. CASE HumanStep
  BY <1>1, <1>3 DEF HumanStep, RequestAdmission, AdmissionRequested, RequestHitl,
     HitlRequested, DecideAdmission, AdmissionDecided, DecideHitl, HitlDecided
<1>4. ASSUME NEW g \in Generations, NEW spec \in LoopSpecs, Prepare(g, spec)
      PROVE  RevisionNamesGraph'
  <2> DEFINE new == [gen |-> g, val |-> view.validation.id, spec |-> spec]
  <2>1. view'.prepared = view.prepared \union {new} /\ view'.loopSpec = view.loopSpec
    BY <1>4 DEF Prepare, Prepared
  <2>2. /\ spec.specId = view.loopSpec.specId
        /\ spec.revision # view.loopSpec.revision
        /\ \A p \in view.prepared :
              ~SameIdentity(p.spec, new.spec) /\ ~SameIdentity(new.spec, p.spec)
    BY <1>4, LoopSpecsCanonical
    DEF Prepare, MayPrepare, SameIdentity, CanonicalLoopSpec
  <2>3. QED
    BY <2>1, <2>2 DEF RevisionNamesGraph
<1>5. ASSUME NEW p \in view.prepared, view'.prepared = view.prepared, view'.loopSpec = p.spec
      PROVE  RevisionNamesGraph'
  BY <1>5 DEF RevisionNamesGraph, SameIdentity
<1>6. ASSUME NEW p \in view.prepared, Promote(p)
      PROVE  RevisionNamesGraph'
  BY <1>5, <1>6 DEF Promote, Promoted
<1>7. ASSUME NEW q \in view.promoted, RollBack(q)
      PROVE  RevisionNamesGraph'
  <2>1. PICK p \in view.prepared : p.spec = q.spec
    BY DEF GenerationsPreparedOnce
  <2>2. QED
    BY <1>5, <1>7, <2>1 DEF RollBack, RolledBack
<1>8. CASE OperatorStep
  BY <1>1, <1>4, <1>6, <1>7, <1>8 DEF OperatorStep, RequestPause, PauseRequested, Pause,
     Paused, Resume, Resumed, Supersede, Superseded
<1>9. CASE ProcessStep
  BY <1>1, <1>9 DEF ProcessStep, RecordLease, LeaseRecorded, Recover, RecoveredUncertain
<1>10. CASE UNCHANGED vars
  BY <1>10 DEF vars, RevisionNamesGraph
<1>11. QED
  BY <1>2, <1>3, <1>8, <1>9, <1>10 DEF Next

\* Through refusals, supersessions, promotions and rollbacks the revision under
\* which a human is asked to approve a graph never comes to mean another one.
THEOREM RevisionsNameGraphs == Spec => []RevisionNamesGraph
<1>1. Init => RevisionNamesGraph
  BY DEF Init, InitialView, RevisionNamesGraph
<1>2. IInv /\ RevisionNamesGraph /\ [Next]_vars => RevisionNamesGraph'
  BY RevisionNamesGraphPreserved
<1>3. QED
  BY <1>1, <1>2, Invariance, PTL DEF Spec
=============================================================================
