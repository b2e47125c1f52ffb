----------------------------- MODULE RunStream ------------------------------
(***************************************************************************)
(* Everything one run's event stream can become: the view at the head of   *)
(* the journal, and one action per event type the reducer accepts, offered *)
(* by callers that may submit any event at any time (the supervisor, the   *)
(* operator CLI, a harness bridge, a recovering process).                  *)
(*                                                                         *)
(* The caller's id factory hands out every validation id and request id    *)
(* once (issued); attempt ids may repeat.  Four history variables, which   *)
(* no guard reads, record what the properties are about.                   *)
(***************************************************************************)
EXTENDS RunReducer, FiniteSets

CONSTANTS
    InitialSpecs,     \* graphs a run may be created with
    MaxValidations,   \* bound: validation ids issued
    MaxRequests,      \* bound: human request ids issued
    MaxToken          \* bound: fencing tokens recorded

ASSUME InitialSpecsAreSpecs == InitialSpecs \subseteq LoopSpecs
ASSUME BoundsAreNaturals ==
    MaxValidations \in Nat /\ MaxRequests \in Nat /\ MaxToken \in Nat

VARIABLES
    view,            \* RunView, the reducer's projection of the journal
    issued,          \* ids handed out so far, by namespace
    approvals,       \* history: the exact candidates a human approved
    refused,         \* history: validations whose approval a human withheld
    revoked,         \* history: requests that were open at a recovery
    evidenceGraph,   \* history: graph the last attempt not lost ran under
    pauseHeld        \* history: a pause is in force

vars == <<view, issued, approvals, refused, revoked, evidenceGraph, pauseHeld>>

NextValidation == issued.validation + 1
NextRequest == issued.request + 1

TypeOK ==
    /\ view \in RunView
    /\ issued \in [validation : Nat, request : Nat]
    /\ approvals \subseteq PreparedGeneration
    /\ refused \subseteq Nat
    /\ revoked \subseteq Nat
    /\ evidenceGraph \in LoopSpecs \union {None}
    /\ pauseHeld \in BOOLEAN

Init ==
    /\ \E spec \in InitialSpecs, requiresHitl \in BOOLEAN :
           view = InitialView(spec, requiresHitl)
    /\ issued = [validation |-> 0, request |-> 0]
    /\ approvals = {} /\ refused = {} /\ revoked = {}
    /\ evidenceGraph = None
    /\ pauseHeld = FALSE

-----------------------------------------------------------------------------
RecordLease(token) ==
    /\ MayRecordLease(view, token)
    /\ view' = LeaseRecorded(view, token)
    /\ UNCHANGED <<issued, approvals, refused, revoked, evidenceGraph, pauseHeld>>

RequestAdmission ==
    /\ issued.request < MaxRequests
    /\ MayRequestAdmission(view)
    /\ view' = AdmissionRequested(view, NextRequest)
    /\ issued' = [issued EXCEPT !.request = NextRequest]
    /\ UNCHANGED <<approvals, refused, revoked, evidenceGraph, pauseHeld>>

\* A decision may be late: r is any id a request was ever given.
DecideAdmission(r, decision) ==
    /\ MayDecideAdmission(view, r)
    /\ view' = AdmissionDecided(view, r, decision)
    /\ UNCHANGED <<issued, approvals, refused, revoked, evidenceGraph, pauseHeld>>

Dispatch(n, a) ==
    /\ MayDispatch(view, n)
    /\ view' = Dispatched(view, n, a)
    /\ evidenceGraph' = view.loopSpec
    /\ UNCHANGED <<issued, approvals, refused, revoked, pauseHeld>>

Start(n, a) ==
    /\ MayStart(view, n, a)
    /\ view' = Started(view, n, a)
    /\ UNCHANGED <<issued, approvals, refused, revoked, evidenceGraph, pauseHeld>>

SettleFailed(n, a) ==
    /\ MaySettle(view, n, a)
    /\ view' = SettledFailed(view, n)
    /\ pauseHeld' = FALSE
    /\ UNCHANGED <<issued, approvals, refused, revoked, evidenceGraph>>

SettleSucceeded(n, a) ==
    /\ MaySettle(view, n, a)
    /\ view' = SettledSucceeded(view, n, a)
    /\ UNCHANGED <<issued, approvals, refused, revoked, evidenceGraph, pauseHeld>>

RecordValidation(n, a, passed) ==
    /\ issued.validation < MaxValidations
    /\ MayRecordValidation(view, n, a)
    /\ view' = ValidationRecorded(view, n, a, NextValidation, passed)
    /\ issued' = [issued EXCEPT !.validation = NextValidation]
    /\ UNCHANGED <<approvals, refused, revoked, evidenceGraph, pauseHeld>>

Supersede(n) ==
    /\ MaySupersede(view, n)
    /\ view' = Superseded(view, n)
    /\ UNCHANGED <<issued, approvals, refused, revoked, evidenceGraph, pauseHeld>>

RequestPause ==
    /\ MayRequestPause(view)
    /\ view' = PauseRequested(view)
    /\ pauseHeld' = TRUE
    /\ UNCHANGED <<issued, approvals, refused, revoked, evidenceGraph>>

Pause ==
    /\ MayPause(view)
    /\ view' = Paused(view)
    /\ UNCHANGED <<issued, approvals, refused, revoked, evidenceGraph, pauseHeld>>

Resume ==
    /\ MayResume(view)
    /\ view' = Resumed(view)
    /\ pauseHeld' = FALSE
    /\ UNCHANGED <<issued, approvals, refused, revoked, evidenceGraph>>

OpenRequests(v) ==
    (IF v.admission.status = "PENDING" THEN {v.admission.request} ELSE {})
        \union (IF v.hitl.status = "PENDING" THEN {v.hitl.request} ELSE {})

Recover ==
    /\ MayRecover(view)
    /\ view' = RecoveredUncertain(view)
    /\ revoked' = revoked \union OpenRequests(view)
    /\ evidenceGraph' = IF LostWork(view) THEN None ELSE evidenceGraph
    /\ pauseHeld' = FALSE
    /\ UNCHANGED <<issued, approvals, refused>>

Prepare(g, spec) ==
    /\ MayPrepare(view, g, view.validation.id, spec)
    /\ view' = Prepared(view, g, view.validation.id, spec)
    /\ UNCHANGED <<issued, approvals, refused, revoked, evidenceGraph, pauseHeld>>

RequestHitl(p) ==
    /\ issued.request < MaxRequests
    /\ MayRequestHitl(view, p)
    /\ view' = HitlRequested(view, p, NextRequest)
    /\ issued' = [issued EXCEPT !.request = NextRequest]
    /\ UNCHANGED <<approvals, refused, revoked, evidenceGraph, pauseHeld>>

HitlCandidate ==
    [gen |-> view.hitl.gen, val |-> view.hitl.val, spec |-> view.hitl.spec]

DecideHitl(r, decision) ==
    /\ MayDecideHitl(view, r)
    /\ view' = HitlDecided(view, decision)
    /\ IF decision = "APPROVED"
       THEN /\ approvals' = approvals \union {HitlCandidate}
            /\ UNCHANGED refused
       ELSE /\ refused' = refused \union {view.validation.id}
            /\ UNCHANGED approvals
    /\ UNCHANGED <<issued, revoked, evidenceGraph, pauseHeld>>

Promote(p) ==
    /\ MayPromote(view, p)
    /\ view' = Promoted(view, p)
    /\ UNCHANGED <<issued, approvals, refused, revoked, evidenceGraph, pauseHeld>>

RollBack(q) ==
    /\ MayRollBack(view, q)
    /\ view' = RolledBack(view, q)
    /\ UNCHANGED <<issued, approvals, refused, revoked, evidenceGraph, pauseHeld>>

-----------------------------------------------------------------------------
AttemptStep ==
    \E n \in Nodes, a \in Attempts :
        \/ Dispatch(n, a)
        \/ Start(n, a)
        \/ SettleFailed(n, a)
        \/ SettleSucceeded(n, a)
        \/ \E passed \in BOOLEAN : RecordValidation(n, a, passed)

HumanStep ==
    \/ RequestAdmission
    \/ \E p \in view.prepared : RequestHitl(p)
    \/ \E r \in 1..issued.request, decision \in Decisions :
          DecideAdmission(r, decision) \/ DecideHitl(r, decision)

OperatorStep ==
    \/ RequestPause
    \/ Pause
    \/ Resume
    \/ \E n \in Nodes : Supersede(n)
    \/ \E g \in Generations, spec \in LoopSpecs : Prepare(g, spec)
    \/ \E p \in view.prepared : Promote(p)
    \/ \E q \in view.promoted : RollBack(q)

ProcessStep ==
    \/ \E token \in 1..MaxToken : RecordLease(token)
    \/ Recover

Next == AttemptStep \/ HumanStep \/ OperatorStep \/ ProcessStep

Spec == Init /\ [][Next]_vars

-----------------------------------------------------------------------------
(* Safety. *)

\* A phase claims only what the records hold (an attempt under RUNNING, a pending
\* validation under VALIDATING, passed evidence under VALIDATED, a request under
\* AWAITING_ADMISSION_HITL), and an attempt in flight, a pending validation, an open
\* promotion request and a requested pause show in the phase.  An open admission
\* request does not: a pause and a resume leave it open in READY and in what
\* follows (see AdmissionGateClosed); only a recovered run has none for certain.
PhaseCoherent ==
    /\ view.pauseRequested <=> view.phase = "PAUSE_REQUESTED"
    /\ view.active.status # "NONE" => view.phase \in {"RUNNING", "PAUSE_REQUESTED"}
    /\ view.phase = "RUNNING" => view.active.status # "NONE"
    /\ view.phase = "VALIDATING" => view.validation.status = "PENDING"
    /\ view.phase = "VALIDATED" => view.validation.status = "PASSED"
    /\ view.phase = "AWAITING_ADMISSION_HITL" => view.admission.status = "PENDING"
    /\ view.phase = "PAUSED_RECOVERED" => view.admission.status # "PENDING"
    /\ view.validation.status = "PENDING" =>
          view.phase \in {"VALIDATING", "PAUSE_REQUESTED", "PAUSED"}
    /\ view.hitl.status = "PENDING" =>
          /\ view.phase \in {"VALIDATED", "PAUSE_REQUESTED", "PAUSED"}
          /\ view.validation.status = "PASSED"

\* The executable node belongs to the graph in force, and an attempt in flight
\* is an attempt of that node, whatever promotions and rollbacks intervened.
ExecutableNodeInActiveGraph ==
    /\ view.nextNode \in view.loopSpec.nodes
    /\ view.active.status # "NONE" => view.active.node = view.nextNode

\* The graph in force is the exact snapshot stored with the active generation.
ActiveGraphIsSnapshot ==
    IF view.activeGen = None
    THEN view.promoted = {}
    ELSE [gen |-> view.activeGen, spec |-> view.loopSpec] \in view.promoted

\* Under a configured gate every promotion was approved by a human for exactly
\* that generation, that validation and that graph.
PromotedWasApproved ==
    view.requiresHitl =>
        \A q \in view.promoted : \E p \in approvals :
            p \in view.prepared /\ p.gen = q.gen /\ p.spec = q.spec

\* A validation on which a human withheld approval promotes nothing, before or
\* after any pause, resume, rollback or recovery, gate configured or not.
RefusedEvidenceNeverPromotes ==
    \A q \in view.promoted, p \in view.prepared :
        p.gen = q.gen => p.val \notin refused

\* A version identity names one graph of the run for ever: no two prepared
\* candidates share a revision, nor one with another graph in force, so the
\* revision an approval is asked for and given under means one graph.
RevisionNamesGraph ==
    \A p \in view.prepared :
        /\ p.spec.specId = view.loopSpec.specId
        /\ p.spec.revision = view.loopSpec.revision => p.spec = view.loopSpec
        /\ \A q \in view.prepared : SameIdentity(p.spec, q.spec) => p = q

\* An attempt or a validation whose outcome a recovery declared unknown leaves
\* no evidence: evidence always stems from an attempt dispatched after it.
LostWorkLeavesNoEvidence ==
    view.validation.status # "NONE" => evidenceGraph # None

\* A request that was open at a recovery is never heard of again, so its late
\* answer cannot be accepted.
RevokedRequestNeverReturns ==
    view.admission.request \notin revoked /\ view.hitl.request \notin revoked

\* From an accepted pause until a resume, a failed settlement or a recovery the
\* run stays in the pause phases, whatever settles, validates or is decided.
PauseHeld ==
    pauseHeld => view.phase \in {"PAUSE_REQUESTED", "PAUSED"}

\* A promotion rests on evidence gathered under the graph it replaces, keeps
\* the specification's identity and raises its revision.
PromotionAdvancesTestedGraph ==
    [][view'.promoted # view.promoted =>
          /\ evidenceGraph = view.loopSpec
          /\ view'.loopSpec.specId = view.loopSpec.specId
          /\ view'.loopSpec.revision > view.loopSpec.revision]_vars

-----------------------------------------------------------------------------
(* The stream implements PromotionGate. *)

Withheld == view.hitl.status \in {"REJECTED", "UNAVAILABLE"}
EvidenceAccepted == view.validation.status = "PASSED" /\ ~Withheld

Gate == INSTANCE PromotionGate WITH
    graph <- view.loopSpec,
    snapshots <- {q.spec : q \in view.promoted},
    evidence <- IF EvidenceAccepted THEN evidenceGraph ELSE None,
    approved <- IF EvidenceAccepted /\ view.hitl.status = "APPROVED"
                THEN view.hitl.spec ELSE None,
    gated <- view.requiresHitl

\* Every accepted event is a step of the promotion gate or invisible to it: no
\* order of pauses, refusals, rollbacks and recoveries opens another way to
\* change the executed graph.
ImplementsGate == Gate!Spec

-----------------------------------------------------------------------------
(* The strengthening that makes the safety properties inductive. *)

\* Ids in use were issued, an id is never used for two requests, and validation
\* ids recorded anywhere are not the next one.
IdsIssued ==
    /\ view.validation.id <= issued.validation
    /\ view.validation.status = "PASSED" => view.validation.id # 0
    /\ \A p \in view.prepared : p.val <= issued.validation
    /\ refused \subseteq 1..issued.validation
    /\ revoked \subseteq 1..issued.request
    /\ view.hitl.request <= issued.request
    /\ view.admission.request <= issued.request
    /\ view.hitl.request # 0 => view.hitl.request # view.admission.request
    /\ \A x \in {view.hitl, view.admission} : x.status = "PENDING" => x.request # 0

\* A generation is prepared once, and only prepared generations are promoted.
GenerationsPreparedOnce ==
    /\ \A p, q \in view.prepared : p.gen = q.gen => p = q
    /\ \A q \in view.promoted :
          \E p \in view.prepared : p.gen = q.gen /\ p.spec = q.spec

\* Passed evidence outside the phases that may spend it has been refused, and a
\* refusal stays visible for as long as its evidence does.
SpentEvidenceIsRefused ==
    /\ view.validation.status = "PASSED"
          /\ (view.phase \in {"READY", "AWAITING_ADMISSION_HITL"}
              \/ view.active.status # "NONE")
       => Withheld
    /\ view.validation.status = "PASSED" /\ view.validation.id \in refused => Withheld
    /\ view.validation.status = "PENDING" => view.hitl.status = "NOT_REQUESTED"

\* Live evidence is about the graph in force, has promoted nothing yet, and the
\* generations prepared on it are later revisions of that graph.
EvidenceIsCurrent ==
    /\ view.active.status # "NONE" \/ view.validation.status = "PENDING"
          \/ EvidenceAccepted
       => evidenceGraph = view.loopSpec
    /\ view.validation.status = "PASSED" =>
          \A p \in view.prepared, q \in view.promoted :
              p.gen = q.gen => p.val # view.validation.id
    /\ EvidenceAccepted =>
          \A p \in view.prepared :
              p.val = view.validation.id =>
                  /\ p.spec.specId = view.loopSpec.specId
                  /\ p.spec.revision > view.loopSpec.revision

\* A request names a prepared candidate, and an approval is one a human gave.
ApprovalIsRecorded ==
    /\ view.hitl.status # "NOT_REQUESTED" => HitlCandidate \in view.prepared
    /\ view.hitl.status = "APPROVED" => HitlCandidate \in approvals

\* The inductive invariant: the bookkeeping of ids, generations, evidence and
\* approvals on which every safety property of the stream rests.
IInv ==
    /\ TypeOK
    /\ PhaseCoherent
    /\ ExecutableNodeInActiveGraph
    /\ ActiveGraphIsSnapshot
    /\ IdsIssued
    /\ GenerationsPreparedOnce
    /\ SpentEvidenceIsRefused
    /\ EvidenceIsCurrent
    /\ ApprovalIsRecorded
    /\ PromotedWasApproved
    /\ RefusedEvidenceNeverPromotes
    /\ LostWorkLeavesNoEvidence
    /\ RevokedRequestNeverReturns
    /\ PauseHeld

-----------------------------------------------------------------------------
(* What the documentation says and the reducer does not do. *)

\* supervisor.ts:303 calls admission a fail-closed human gate before any
\* external execution begins: no attempt is in flight while it is undecided.
AdmissionGateClosed ==
    view.active.status # "NONE" => view.admission.status # "PENDING"

\* README.md:63: with a pause outstanding, settlement immediately commits PAUSED.
SettlementCommitsPause ==
    [][view.phase = "PAUSE_REQUESTED" /\ view.active.status # "NONE"
          /\ view'.active.status = "NONE"
          => view'.phase \in {"PAUSED", "PAUSED_RECOVERED"}]_vars

\* README.md:44: an approval for a different generation is rejected.
ApprovalBindsGeneration ==
    [][view'.promoted # view.promoted /\ view.hitl.status = "APPROVED"
          => view.hitl.gen = view'.activeGen]_vars
=============================================================================
