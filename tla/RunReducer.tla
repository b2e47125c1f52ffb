----------------------------- MODULE RunReducer -----------------------------
(***************************************************************************)
(* The deterministic reducer of packages/core/src/reducer.ts: a run is the *)
(* fold of its event stream.  For every event type there are two           *)
(* operators, MayX(v, ...), the condition under which the reducer accepts  *)
(* the event in view v, and X(v, ...), the view it then produces.  The     *)
(* module has no variables: the specifications that own a run's journal    *)
(* apply these operators to the view at the journal's head.                *)
(*                                                                         *)
(* A LoopSpec is a record [specId, revision, entry, nodes, edges]; the     *)
(* canonical (sorted, duplicate-free) arrays of the code are sets, so its  *)
(* structural equality sameLoopSpec is equality of records.  Identifiers   *)
(* of validations and of human requests are positive numbers, 0 is null.   *)
(*                                                                         *)
(* An operator marked Mutant is no part of the model: it is a mistake one  *)
(* could make in the definition that follows it, kept to show that the     *)
(* property named in PROJECT.json notices the mistake.                     *)
(***************************************************************************)
EXTENDS Naturals

CONSTANTS
    Attempts,      \* attempt ids a caller may use
    Generations,   \* generation ids an operator may use
    LoopSpecs,     \* execution graphs an operator may submit
    None           \* null

\* isValidLoopSpec: the reducer and the store refuse any other graph.
CanonicalLoopSpec(s) ==
    /\ s.revision \in Nat \ {0}
    /\ s.entry \in s.nodes
    /\ s.edges \subseteq s.nodes \X s.nodes

ASSUME LoopSpecsCanonical == \A s \in LoopSpecs : CanonicalLoopSpec(s)
ASSUME NoneIsNoValue ==
    /\ None \notin Attempts /\ None \notin Generations /\ None \notin LoopSpecs
    /\ \A s \in LoopSpecs : None \notin s.nodes

Nodes == UNION {s.nodes : s \in LoopSpecs}

SameIdentity(s, t) == s.specId = t.specId /\ s.revision = t.revision

Phases == {"READY", "AWAITING_ADMISSION_HITL", "RUNNING", "VALIDATING",
           "VALIDATED", "PAUSE_REQUESTED", "PAUSED", "PAUSED_RECOVERED"}
Decisions == {"APPROVED", "REJECTED", "UNAVAILABLE"}

ActiveAttempt == [status : {"NONE", "DISPATCH_REQUESTED", "STARTED"},
                  node : Nodes \union {None}, attempt : Attempts \union {None}]
ValidationState == [status : {"NONE", "PENDING", "PASSED", "FAILED"},
                    node : Nodes \union {None},
                    attempt : Attempts \union {None}, id : Nat]
AdmissionState == [status : {"NOT_REQUESTED", "PENDING"} \union Decisions,
                   request : Nat]
HitlState == [status : {"NOT_REQUESTED", "PENDING"} \union Decisions,
              request : Nat, gen : Generations \union {None},
              spec : LoopSpecs \union {None}, val : Nat]
PreparedGeneration == [gen : Generations, val : Nat, spec : LoopSpecs]
PromotedGeneration == [gen : Generations, spec : LoopSpecs]

RunView == [phase : Phases, requiresHitl : BOOLEAN,
            loopSpec : LoopSpecs, nextNode : Nodes,
            active : ActiveAttempt, validation : ValidationState,
            admission : AdmissionState, hitl : HitlState,
            pauseRequested : BOOLEAN, lease : Nat,
            prepared : SUBSET PreparedGeneration,
            promoted : SUBSET PromotedGeneration,
            activeGen : Generations \union {None}]

NoAttempt == [status |-> "NONE", node |-> None, attempt |-> None]
EmptyValidation == [status |-> "NONE", node |-> None, attempt |-> None, id |-> 0]
EmptyAdmission == [status |-> "NOT_REQUESTED", request |-> 0]
EmptyHitl == [status |-> "NOT_REQUESTED", request |-> 0,
              gen |-> None, spec |-> None, val |-> 0]

\* run.created
InitialView(spec, requiresHitl) ==
    [phase |-> "READY", requiresHitl |-> requiresHitl,
     loopSpec |-> spec, nextNode |-> spec.entry,
     active |-> NoAttempt, validation |-> EmptyValidation,
     admission |-> EmptyAdmission, hitl |-> EmptyHitl,
     pauseRequested |-> FALSE, lease |-> 0,
     prepared |-> {}, promoted |-> {}, activeGen |-> None]

-----------------------------------------------------------------------------
(* lease.acquired: the view records the greatest fencing token seen. *)

MayRecordLease(v, token) ==
    /\ v.phase # "PAUSED_RECOVERED"
    /\ token > v.lease
LeaseRecorded(v, token) == [v EXCEPT !.lease = token]

-----------------------------------------------------------------------------
(* The human gate in front of an execution. *)

MayRequestAdmission(v) ==
    /\ v.phase = "READY"
    /\ v.active.status = "NONE"
    /\ v.admission.status # "PENDING"
AdmissionRequested(v, r) ==
    [v EXCEPT !.phase = "AWAITING_ADMISSION_HITL",
              !.admission = [status |-> "PENDING", request |-> r]]

MayDecideAdmission(v, r) ==
    /\ v.phase \in {"AWAITING_ADMISSION_HITL", "PAUSED"}
    /\ v.admission.status = "PENDING"
    /\ v.admission.request = r
AdmissionDecided(v, r, decision) ==
    [v EXCEPT !.phase = IF v.phase = "PAUSED" THEN "PAUSED" ELSE "READY",
              !.admission = [status |-> decision, request |-> r]]

-----------------------------------------------------------------------------
(* One attempt of one node: dispatch, start, settlement, validation. *)

SameAttempt(v, n, a) == v.active.node = n /\ v.active.attempt = a

MayDispatch(v, n) ==
    /\ v.phase = "READY"
    /\ ~v.pauseRequested
    /\ v.active.status = "NONE"
    /\ v.nextNode = n
Dispatched(v, n, a) ==
    [v EXCEPT !.phase = "RUNNING",
              !.active = [status |-> "DISPATCH_REQUESTED", node |-> n, attempt |-> a]]

MayStart(v, n, a) ==
    /\ v.phase = "RUNNING"
    /\ v.active.status = "DISPATCH_REQUESTED"
    /\ SameAttempt(v, n, a)
Started(v, n, a) ==
    [v EXCEPT !.active = [status |-> "STARTED", node |-> n, attempt |-> a]]

MaySettle(v, n, a) ==
    /\ v.phase \in {"RUNNING", "PAUSE_REQUESTED"}
    /\ v.active.status = "STARTED"
    /\ SameAttempt(v, n, a)

\* outcome = FAILED: a retry boundary that clears every authority.
SettledFailed(v, n) ==
    [v EXCEPT !.phase = "READY",
              !.active = NoAttempt,
              !.pauseRequested = FALSE,
              !.validation = EmptyValidation,
              !.hitl = EmptyHitl,
              !.nextNode = n]

\* Mutant: the pause commits, its request stays up.
SettledKeepsRequest(v, n, a) ==
    [v EXCEPT !.phase = IF v.phase = "PAUSE_REQUESTED" THEN "PAUSED" ELSE "VALIDATING",
              !.active = NoAttempt,
              !.validation = [status |-> "PENDING", node |-> n, attempt |-> a, id |-> 0],
              !.hitl = EmptyHitl]
\* outcome = SUCCEEDED: the attempt awaits a validator; a pause commits here.
SettledSucceeded(v, n, a) ==
    LET pauseCommitted == v.phase = "PAUSE_REQUESTED" IN
    [v EXCEPT !.phase = IF pauseCommitted THEN "PAUSED" ELSE "VALIDATING",
              !.active = NoAttempt,
              !.pauseRequested = IF pauseCommitted THEN FALSE ELSE @,
              !.validation = [status |-> "PENDING", node |-> n, attempt |-> a, id |-> 0],
              !.hitl = EmptyHitl]

MayRecordValidation(v, n, a) ==
    /\ v.phase \in {"VALIDATING", "PAUSED"}
    /\ v.validation.status = "PENDING"
    /\ v.validation.node = n
    /\ v.validation.attempt = a
\* Mutant: a result that arrives while paused resumes the run.
ValidationResumes(v, n, a, id, passed) ==
    [v EXCEPT !.phase = IF passed THEN "VALIDATED" ELSE "READY",
              !.validation = [status |-> IF passed THEN "PASSED" ELSE "FAILED",
                              node |-> n, attempt |-> a, id |-> id]]
ValidationRecorded(v, n, a, id, passed) ==
    [v EXCEPT !.phase = IF v.phase = "PAUSED" THEN "PAUSED"
                        ELSE IF passed THEN "VALIDATED" ELSE "READY",
              !.validation = [status |-> IF passed THEN "PASSED" ELSE "FAILED",
                              node |-> n, attempt |-> a, id |-> id]]

MaySupersede(v, n) ==
    /\ v.phase = "VALIDATED"
    /\ v.validation.status = "PASSED"
    /\ v.hitl.status # "PENDING"
    /\ <<v.validation.node, n>> \in v.loopSpec.edges
Superseded(v, n) ==
    [v EXCEPT !.phase = "READY", !.validation = EmptyValidation,
              !.hitl = EmptyHitl, !.nextNode = n]

-----------------------------------------------------------------------------
(* Pause, resume and recovery. *)

MayRequestPause(v) ==
    /\ v.phase \in {"READY", "AWAITING_ADMISSION_HITL", "RUNNING",
                    "VALIDATING", "VALIDATED"}
    /\ ~v.pauseRequested
PauseRequested(v) == [v EXCEPT !.phase = "PAUSE_REQUESTED", !.pauseRequested = TRUE]

MayPause(v) ==
    /\ v.phase = "PAUSE_REQUESTED"
    /\ v.pauseRequested
    /\ v.active.status = "NONE"
Paused(v) == [v EXCEPT !.phase = "PAUSED", !.pauseRequested = FALSE]

PhaseAfterResume(validation) ==
    CASE validation.status = "PENDING" -> "VALIDATING"
      [] validation.status = "PASSED"  -> "VALIDATED"
      [] OTHER                         -> "READY"

MayResume(v) ==
    /\ v.phase \in {"PAUSED", "PAUSED_RECOVERED"}
    /\ ~v.pauseRequested
    /\ v.active.status = "NONE"
Resumed(v) == [v EXCEPT !.phase = PhaseAfterResume(v.validation)]

\* Mutant: a requested pause is taken for a safe boundary.
MayRecoverUnlessPausing(v) ==
    \/ v.phase \in {"AWAITING_ADMISSION_HITL", "RUNNING", "VALIDATING"}
    \/ v.phase = "VALIDATED" /\ v.hitl.status = "PENDING"
MayRecover(v) ==
    \/ v.phase \in {"AWAITING_ADMISSION_HITL", "RUNNING", "VALIDATING", "PAUSE_REQUESTED"}
    \/ v.phase = "VALIDATED" /\ v.hitl.status = "PENDING"

LostWork(v) == v.active.status # "NONE" \/ v.validation.status = "PENDING"
\* Mutant: only a pending validation is dropped, not what a lost attempt leaves.
RecoveredKeepsEvidence(v) ==
    [v EXCEPT !.phase = "PAUSED_RECOVERED",
              !.active = NoAttempt,
              !.validation = IF @.status = "PENDING" THEN EmptyValidation ELSE @,
              !.admission = IF @.status = "PENDING" THEN EmptyAdmission ELSE @,
              !.hitl = IF LostWork(v) \/ @.status = "PENDING" THEN EmptyHitl ELSE @,
              !.pauseRequested = FALSE]
\* Mutant: an approval request survives the restart of its caller.
RecoveredKeepsRequest(v) ==
    [v EXCEPT !.phase = "PAUSED_RECOVERED",
              !.active = NoAttempt,
              !.validation = IF LostWork(v) THEN EmptyValidation ELSE @,
              !.admission = IF @.status = "PENDING" THEN EmptyAdmission ELSE @,
              !.hitl = IF LostWork(v) THEN EmptyHitl ELSE @,
              !.pauseRequested = FALSE]
RecoveredUncertain(v) ==
    [v EXCEPT !.phase = "PAUSED_RECOVERED",
              !.active = NoAttempt,
              !.validation = IF LostWork(v) THEN EmptyValidation ELSE @,
              !.admission = IF @.status = "PENDING" THEN EmptyAdmission ELSE @,
              !.hitl = IF LostWork(v) \/ @.status = "PENDING" THEN EmptyHitl ELSE @,
              !.pauseRequested = FALSE]

-----------------------------------------------------------------------------
(* Promotion authority: preparation, human approval, promotion, rollback.  *)
(* A generation is looked up by its id, which preparation keeps unique, so *)
(* the operators take the prepared record p itself; a request must repeat  *)
(* every field of p, so it is determined by p and its own id.              *)

\* Mutant: a candidate may have the revision in force.
MayPrepareSameRevision(v, g, val, spec) ==
    /\ v.validation.status = "PASSED"
    /\ v.validation.id = val
    /\ v.phase = "VALIDATED"
    /\ \A p \in v.prepared : p.gen # g
    /\ spec.specId = v.loopSpec.specId
    /\ spec.revision >= v.loopSpec.revision
    /\ \A p \in v.prepared \union v.promoted : ~SameIdentity(p.spec, spec)
\* Mutant: a candidate that was never promoted leaves its revision free.
MayPrepareReusedRevision(v, g, val, spec) ==
    /\ v.validation.status = "PASSED"
    /\ v.validation.id = val
    /\ v.phase = "VALIDATED"
    /\ \A p \in v.prepared : p.gen # g
    /\ spec.specId = v.loopSpec.specId
    /\ spec.revision > v.loopSpec.revision
    /\ \A q \in v.promoted : ~SameIdentity(q.spec, spec)
MayPrepare(v, g, val, spec) ==
    /\ v.validation.status = "PASSED"
    /\ v.validation.id = val
    /\ v.phase = "VALIDATED"
    /\ \A p \in v.prepared : p.gen # g
    /\ spec.specId = v.loopSpec.specId
    /\ spec.revision > v.loopSpec.revision
    /\ \A p \in v.prepared \union v.promoted : ~SameIdentity(p.spec, spec)
Prepared(v, g, val, spec) ==
    [v EXCEPT !.prepared = @ \union {[gen |-> g, val |-> val, spec |-> spec]}]

\* Mutant: another approval may be asked for once the first was refused.
MayAskAgain(v, p) ==
    /\ v.phase = "VALIDATED"
    /\ v.validation.status = "PASSED"
    /\ v.hitl.status # "PENDING"
    /\ p \in v.prepared
MayRequestHitl(v, p) ==
    /\ v.phase = "VALIDATED"
    /\ v.validation.status = "PASSED"
    /\ v.hitl.status = "NOT_REQUESTED"
    /\ p \in v.prepared
HitlRequested(v, p, r) ==
    [v EXCEPT !.hitl = [status |-> "PENDING", request |-> r,
                        gen |-> p.gen, spec |-> p.spec, val |-> p.val]]

MayDecideHitl(v, r) ==
    /\ v.phase = "VALIDATED"
    /\ v.hitl.status = "PENDING"
    /\ v.hitl.request = r
HitlDecided(v, decision) ==
    [v EXCEPT !.phase = IF decision = "APPROVED" THEN "VALIDATED" ELSE "READY",
              !.hitl.status = decision]

\* Mutant: any approval on this validation will do.
HitlSatisfiedByAny(v, p) ==
    IF v.requiresHitl
    THEN v.hitl.status = "APPROVED" /\ v.hitl.val = v.validation.id
    ELSE v.hitl.status \in {"NOT_REQUESTED", "APPROVED"}
\* The approval must name the exact generation, validation and graph.
HitlSatisfied(v, p) ==
    IF v.requiresHitl
    THEN /\ v.hitl.status = "APPROVED"
         /\ v.hitl.gen = p.gen
         /\ v.hitl.val = v.validation.id
         /\ v.hitl.spec = p.spec
    ELSE v.hitl.status \in {"NOT_REQUESTED", "APPROVED"}

MayPromote(v, p) ==
    /\ v.validation.status = "PASSED"
    /\ p \in v.prepared
    /\ p.val = v.validation.id
    /\ HitlSatisfied(v, p)
    /\ v.phase = "VALIDATED"
    /\ \A q \in v.promoted : q.gen # p.gen
\* Mutant: the next node is left where the replaced graph had it.
PromotedKeepsNode(v, p) ==
    [v EXCEPT !.phase = "READY",
              !.activeGen = p.gen,
              !.loopSpec = p.spec,
              !.validation = EmptyValidation,
              !.promoted = @ \union {[gen |-> p.gen, spec |-> p.spec]}]
Promoted(v, p) ==
    [v EXCEPT !.phase = "READY",
              !.activeGen = p.gen,
              !.loopSpec = p.spec,
              !.nextNode = p.spec.entry,
              !.validation = EmptyValidation,
              !.promoted = @ \union {[gen |-> p.gen, spec |-> p.spec]}]

\* Mutant: any moment without an attempt in flight will do.
MayRollBackAnytime(v, q) ==
    /\ q \in v.promoted
    /\ v.active.status = "NONE"
MayRollBack(v, q) ==
    /\ q \in v.promoted
    /\ v.phase = "READY"
    /\ v.active.status = "NONE"
RolledBack(v, q) ==
    [v EXCEPT !.activeGen = q.gen, !.loopSpec = q.spec, !.nextNode = q.spec.entry]
=============================================================================
