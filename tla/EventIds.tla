------------------------------ MODULE EventIds ------------------------------
(***************************************************************************)
(* The ids a durable bridge gives its events when the host passes no id    *)
(* factory (packages/dsh-adapter/src/index.ts, CounterIds): one counter    *)
(* per process, for every namespace and every run, that starts at zero     *)
(* whenever the process does.  The journal outlives the process and        *)
(* refuses an event id or a key it already has                             *)
(* (packages/storage/src/sqlite-run-store.ts, append).                     *)
(*                                                                         *)
(* RunStream takes validation ids and request ids to be new; this module   *)
(* is about whether they are, and about the bridge getting on with it.     *)
(* A run is reduced to its phase and what is open of it: the bridge and    *)
(* the command line open no promotion request, so there is none here.  The *)
(* command line's events have random ids and are not in the journal.       *)
(***************************************************************************)
EXTENDS Naturals, Sequences, FiniteSets

CONSTANTS
    Bridges,       \* processes with a bridge on the database
    Runs,          \* run ids
    Nobody,        \* no bridge holds the lease
    MaxEvents,     \* bound: events in the journal when new work is begun
    MaxNumber,     \* bound: numbers a process has drawn when it begins new work
    MaxRestarts,   \* bound: restarts
    MaxLapses      \* bound: leases that run out between two appends

ASSUME NobodyAssumption == Nobody \notin Bridges
ASSUME BoundsAssumption == MaxEvents \in Nat /\ MaxNumber \in Nat /\ MaxRestarts \in Nat /\ MaxLapses \in Nat

VARIABLES
    counter,     \* bridge -> the last number its CounterIds gave
    journal,     \* the events, of all runs
    view,        \* run -> its phase and what is open, which the reducer derives
    lease,       \* run -> who holds its lease row, until it expires
    attached,    \* bridge -> the runs it keeps a Supervisor of
    todo,        \* bridge -> run -> the events its operation has yet to append
    restarts,
    lapses

vars == <<counter, journal, view, lease, attached, todo, restarts, lapses>>

Types == {"run.created", "lease.acquired", "recovery.uncertain",
          "admission.hitl.requested", "admission.hitl.decided",
          "node.dispatch.requested", "node.started", "node.settled",
          "validation.recorded", "validation.superseded"}

\* The types whose payload carries an id drawn just before the event's own.
Drawing == {"admission.hitl.requested", "validation.recorded"}

\* drawn: the number of the validation or the request, 0 if there is none.
Event(run, seq, type, number, drawn) ==
    [run |-> run, seq |-> seq, type |-> type, number |-> number, drawn |-> drawn]
Events == [run : Runs, seq : Nat, type : Types, number : Nat, drawn : Nat]

Phases == {"ABSENT", "READY", "AWAITING_ADMISSION_HITL", "RUNNING", "VALIDATING", "VALIDATED",
           "PAUSE_REQUESTED", "PAUSED", "PAUSED_RECOVERED"}

\* attempt: one is in flight; admission: a request has no answer; validation:
\* pending, passed, or neither.
Views == [phase : Phases, attempt : BOOLEAN, validation : {"NONE", "PENDING", "PASSED"},
          admission : BOOLEAN]

TypeOK ==
    /\ counter \in [Bridges -> Nat]
    /\ journal \subseteq Events
    /\ view \in [Runs -> Views]
    /\ lease \in [Runs -> Bridges \union {Nobody}]
    /\ attached \in [Bridges -> SUBSET Runs]
    /\ todo \in [Bridges -> [Runs -> Seq(Types)]]
    /\ restarts \in Nat /\ lapses \in Nat

Init ==
    /\ counter = [b \in Bridges |-> 0]
    /\ journal = {}
    /\ view = [r \in Runs |-> [phase |-> "ABSENT", attempt |-> FALSE, validation |-> "NONE",
                               admission |-> FALSE]]
    /\ lease = [r \in Runs |-> Nobody]
    /\ attached = [b \in Bridges |-> {}]
    /\ todo = [b \in Bridges |-> [r \in Runs |-> <<>>]]
    /\ restarts = 0 /\ lapses = 0

-----------------------------------------------------------------------------
\* Of the events the bridges wrote.
Revision(r) == Cardinality({e \in journal : e.run = r})

\* The phases in which a restart cannot know what became of the work.
Uncertain == {"AWAITING_ADMISSION_HITL", "RUNNING", "VALIDATING", "PAUSE_REQUESTED"}

\* The reducer's guards.
Legal(v, type) ==
    CASE type = "run.created" -> v.phase = "ABSENT"
      [] type = "lease.acquired" -> v.phase \notin {"ABSENT", "PAUSED_RECOVERED"}
      [] type = "recovery.uncertain" -> v.phase \in Uncertain
      [] type = "admission.hitl.requested" -> v.phase = "READY" /\ ~v.attempt /\ ~v.admission
      [] type = "admission.hitl.decided" ->
             v.phase \in {"AWAITING_ADMISSION_HITL", "PAUSED"} /\ v.admission
      [] type = "node.dispatch.requested" -> v.phase = "READY" /\ ~v.attempt
      [] type = "node.started" -> v.phase = "RUNNING" /\ v.attempt
      [] type = "node.settled" -> v.phase \in {"RUNNING", "PAUSE_REQUESTED"} /\ v.attempt
      [] type = "validation.recorded" ->
             v.phase \in {"VALIDATING", "PAUSED"} /\ v.validation = "PENDING"
      [] type = "validation.superseded" -> v.phase = "VALIDATED"

\* What it makes of the view; the bridge settles no attempt as failed.
Reduced(v, type, passed) ==
    CASE type = "run.created" -> [v EXCEPT !.phase = "READY"]
      [] type \in {"lease.acquired", "node.started"} -> v
      [] type = "recovery.uncertain" ->
             [phase |-> "PAUSED_RECOVERED", attempt |-> FALSE, admission |-> FALSE,
              validation |-> IF v.attempt \/ v.validation = "PENDING" THEN "NONE"
                             ELSE v.validation]
      [] type = "admission.hitl.requested" ->
             [v EXCEPT !.phase = "AWAITING_ADMISSION_HITL", !.admission = TRUE]
      [] type = "admission.hitl.decided" ->
             [v EXCEPT !.phase = IF @ = "PAUSED" THEN @ ELSE "READY", !.admission = FALSE]
      [] type = "node.dispatch.requested" -> [v EXCEPT !.phase = "RUNNING", !.attempt = TRUE]
      [] type = "node.settled" ->
             [v EXCEPT !.phase = IF @ = "PAUSE_REQUESTED" THEN "PAUSED" ELSE "VALIDATING",
                       !.attempt = FALSE, !.validation = "PENDING"]
      [] type = "validation.recorded" ->
             [v EXCEPT !.phase = IF @ = "PAUSED" THEN @ ELSE IF passed THEN "VALIDATED" ELSE "READY",
                       !.validation = IF passed THEN "PASSED" ELSE "NONE"]
      [] type = "validation.superseded" -> [v EXCEPT !.phase = "READY", !.validation = "NONE"]

\* What createRun and recover append once they hold the lease.  recover takes a
\* paused run as it is, whatever is open of it.
AttachEvents(r) ==
    CASE view[r].phase = "ABSENT" -> <<"run.created", "lease.acquired">>
      [] view[r].phase = "PAUSED_RECOVERED" -> <<>>
      [] view[r].phase \in Uncertain -> <<"lease.acquired", "recovery.uncertain">>
      [] view[r].phase \in {"READY", "VALIDATED", "PAUSED"} -> <<"lease.acquired">>

Gate == <<"admission.hitl.requested", "admission.hitl.decided">>
Step == <<"node.dispatch.requested", "node.started", "node.settled", "validation.recorded">>

\* #append draws the event id and then the key, and whatever the payload needs
\* before both; nothing of the same process runs between the draws.
DrawnBy(b, type) == IF type \in Drawing THEN counter[b] + 1 ELSE 0
NumberBy(b, type) == counter[b] + (IF type \in Drawing THEN 2 ELSE 1)

\* The unique columns: the key of a run, which carries the type and the number
\* after the event's, and the event id.
KeyTaken(r, type, number) == \E e \in journal : e.run = r /\ e.type = type /\ e.number = number
EventIdTaken(number) == \E e \in journal : e.number = number

\* What preStep and requestAdmissionHitl append: evidence that passed is consumed
\* before the next work.
WorkEvents(r, work) ==
    IF view[r].phase = "VALIDATED" THEN <<"validation.superseded">> \o work ELSE work

\* Mutant: event ids and keys are made random, and only the ids in the payloads
\* are still counted.
RefusedNever(r, type, number) == FALSE

Refused(r, type, number) == KeyTaken(r, type, number) \/ EventIdTaken(number)

-----------------------------------------------------------------------------
\* Mutant: the bridge remembers its Supervisor before it has recovered the run.
AcquireAttached(b, r) ==
    /\ r \notin attached[b] /\ todo[b][r] = <<>> /\ lease[r] = Nobody
    /\ lease' = [lease EXCEPT ![r] = b]
    /\ todo' = [todo EXCEPT ![b][r] = AttachEvents(r)]
    /\ attached' = [attached EXCEPT ![b] = @ \union {r}]
    /\ UNCHANGED <<counter, journal, view, restarts, lapses>>

\* supervisorFor, the run not being in the map: a new Supervisor acquires the
\* lease.  (What recover reads before it holds the lease is in Supervisor.)
Acquire(b, r) ==
    /\ r \notin attached[b] /\ todo[b][r] = <<>> /\ lease[r] = Nobody
    /\ lease' = [lease EXCEPT ![r] = b]
    /\ todo' = [todo EXCEPT ![b][r] = AttachEvents(r)]
    /\ IF AttachEvents(r) = <<>> THEN attached' = [attached EXCEPT ![b] = @ \union {r}]
       ELSE UNCHANGED attached
    /\ UNCHANGED <<counter, journal, view, restarts, lapses>>

\* requestAdmissionHitl and its answer, or beginAttempt and what follows it, by a
\* Supervisor that is kept.
BeginWork(b, r, work) ==
    /\ r \in attached[b] /\ todo[b][r] = <<>>
    /\ view[r].phase \in {"READY", "VALIDATED"} /\ lease[r] = b
    /\ Cardinality(journal) < MaxEvents /\ counter[b] < MaxNumber
    /\ todo' = [todo EXCEPT ![b][r] = WorkEvents(r, work)]
    /\ UNCHANGED <<counter, journal, view, lease, attached, restarts, lapses>>

\* The next event is in the journal; supervisorFor keeps the Supervisor once
\* the last event of createRun or recover is.
AppendEvent(b, r) ==
    /\ todo[b][r] # <<>> /\ lease[r] = b
    /\ LET type == Head(todo[b][r])
           number == NumberBy(b, type)
       IN  /\ ~Refused(r, type, number) /\ Legal(view[r], type)
           /\ journal' = journal \union {Event(r, Revision(r) + 1, type, number, DrawnBy(b, type))}
           /\ counter' = [counter EXCEPT ![b] = number + 1]
           /\ \E passed \in BOOLEAN :
                  view' = [view EXCEPT ![r] = Reduced(view[r], type, passed)]
    /\ todo' = [todo EXCEPT ![b][r] = Tail(@)]
    /\ attached' = IF Tail(todo[b][r]) = <<>> THEN [attached EXCEPT ![b] = @ \union {r}]
                   ELSE attached
    /\ UNCHANGED <<lease, restarts, lapses>>

\* Mutant: a failed append gives its numbers back.
AppendRefusedRefunds(b, r) ==
    /\ todo[b][r] # <<>> /\ lease[r] = b
    /\ LET type == Head(todo[b][r])
       IN  Refused(r, type, NumberBy(b, type)) \/ ~Legal(view[r], type)
    /\ todo' = [todo EXCEPT ![b][r] = <<>>]
    /\ UNCHANGED <<counter, journal, view, lease, attached, restarts, lapses>>

\* IDEMPOTENCY_COLLISION or EVENT_ID_COLLISION, or the reducer refuses the event (a
\* second admission request): the operation throws, and a Supervisor that was only attaching is forgotten while its lease lives on.
AppendRefused(b, r) ==
    /\ todo[b][r] # <<>> /\ lease[r] = b
    /\ LET type == Head(todo[b][r])
       IN  /\ Refused(r, type, NumberBy(b, type)) \/ ~Legal(view[r], type)
           /\ counter' = [counter EXCEPT ![b] = NumberBy(b, type) + 1]
    /\ todo' = [todo EXCEPT ![b][r] = <<>>]
    /\ UNCHANGED <<journal, view, lease, attached, restarts, lapses>>

\* The renewal before an append fails: only what the payload needs was drawn.
RenewalFails(b, r) ==
    /\ todo[b][r] # <<>> /\ lease[r] # b
    /\ counter' = [counter EXCEPT ![b] = IF Head(todo[b][r]) \in Drawing THEN @ + 1 ELSE @]
    /\ todo' = [todo EXCEPT ![b][r] = <<>>]
    /\ UNCHANGED <<journal, view, lease, attached, restarts, lapses>>

\* Nobody needs the lease; or its holder is slow between two appends.
LeaseExpires(r) ==
    /\ lease[r] # Nobody
    /\ todo[lease[r]][r] = <<>>
    /\ lease' = [lease EXCEPT ![r] = Nobody]
    /\ UNCHANGED <<counter, journal, view, attached, todo, restarts, lapses>>

LeaseLapses(r) ==
    /\ lease[r] # Nobody /\ lapses < MaxLapses
    /\ todo[lease[r]][r] # <<>>
    /\ lease' = [lease EXCEPT ![r] = Nobody]
    /\ lapses' = lapses + 1
    /\ UNCHANGED <<counter, journal, view, attached, todo, restarts>>

\* The operator's pause, with the lease: the attempt in flight, or the end of the
\* command between its two events, leaves the pause requested.
Pause(r) ==
    /\ lease[r] = Nobody
    /\ view[r].phase \in {"READY", "AWAITING_ADMISSION_HITL", "RUNNING", "VALIDATING", "VALIDATED"}
    /\ \E phase \in {"PAUSE_REQUESTED"} \union (IF view[r].attempt THEN {} ELSE {"PAUSED"}) :
           view' = [view EXCEPT ![r].phase = phase]
    /\ UNCHANGED <<counter, journal, lease, attached, todo, restarts, lapses>>

\* The operator resumes a run that is paused or was recovered.
Resume(r) ==
    /\ lease[r] = Nobody
    /\ view[r].phase \in {"PAUSED", "PAUSED_RECOVERED"}
    /\ view' = [view EXCEPT ![r].phase = CASE view[r].validation = "PENDING" -> "VALIDATING"
                                          [] view[r].validation = "PASSED" -> "VALIDATED"
                                          [] view[r].validation = "NONE" -> "READY"]
    /\ UNCHANGED <<counter, journal, lease, attached, todo, restarts, lapses>>

\* The process ends and is started again with a new CounterIds.
Restart(b) ==
    /\ restarts < MaxRestarts
    /\ counter' = [counter EXCEPT ![b] = 0]
    /\ attached' = [attached EXCEPT ![b] = {}]
    /\ todo' = [todo EXCEPT ![b] = [r \in Runs |-> <<>>]]
    /\ restarts' = restarts + 1
    /\ UNCHANGED <<journal, view, lease, lapses>>

Next ==
    \/ \E b \in Bridges, r \in Runs :
           \/ Acquire(b, r) \/ AppendEvent(b, r) \/ AppendRefused(b, r) \/ RenewalFails(b, r)
           \/ \E work \in {Gate, Step} : BeginWork(b, r, work)
    \/ \E r \in Runs : LeaseExpires(r) \/ LeaseLapses(r) \/ Pause(r) \/ Resume(r)
    \/ \E b \in Bridges : Restart(b)

Spec == Init /\ [][Next]_vars

\* Code that runs goes on; a lease expires unless it is renewed; an agent that
\* cannot take a step keeps trying and is not always the one to come late.
Fairness ==
    \A r \in Runs :
        /\ WF_vars(LeaseExpires(r))
        /\ \A b \in Bridges :
               /\ WF_vars(AppendEvent(b, r) \/ AppendRefused(b, r) \/ RenewalFails(b, r))
               /\ SF_vars(Acquire(b, r))

FairSpec == Spec /\ Fairness

-----------------------------------------------------------------------------
\* No validation id and no request id is ever recorded twice, however often
\* processes restart and count from zero: the number drawn before an event is
\* spoken for by the number of the event.  This is what RunStream assumes.
DurableIdsNew ==
    \A d, e \in journal : d.drawn # 0 /\ d.drawn = e.drawn => d = e

\* What the code calls safe: no attempt is in flight, the run does not stand at the
\* admission gate, and a validation is pending only behind a pause.
Safe(v) ==
    /\ v.phase \in {"READY", "VALIDATED", "PAUSED", "PAUSED_RECOVERED"}
    /\ ~v.attempt
    /\ v.validation = "PENDING" => v.phase = "PAUSED"
    /\ v.phase = "PAUSED_RECOVERED" => ~v.admission

\* A bridge comes to keep a Supervisor only of a run that is safe, although an
\* attach may fail after each of its events and be done again from there, by this
\* bridge or another, with the operator pausing and resuming in between.  Safe is
\* not empty handed: see AttachLeavesNothingOpen.
AttachesWhenSafe ==
    [][\A b \in Bridges : \A r \in attached'[b] \ attached[b] : Safe(view'[r])]_vars

\* Every collision uses numbers up: a restarted bridge gets past the events it
\* wrote in an earlier life, and attaches.
AttachesInTheEnd == \A b \in Bridges, r \in Runs : []<>(r \in attached[b])

\* What README.md says of a restart: an interrupted validation, approval or pause
\* is recovered to PAUSED_RECOVERED.  The code does not: a paused run is attached
\* with its validation or its admission request open, and a run that was resumed
\* with an admission request open.
AttachLeavesNothingOpen ==
    [][\A b \in Bridges : \A r \in attached'[b] \ attached[b] :
          view'[r].validation # "PENDING" /\ ~view'[r].admission]_vars

\* What README.md says of a restart: the run is resumed from its journal, that
\* is, the first append of a restarted process does not meet its own old ids.
RestartMeetsNoOldId ==
    \A b \in Bridges, r \in Runs :
        todo[b][r] # <<>> /\ lease[r] = b =>
            ~Refused(r, Head(todo[b][r]), NumberBy(b, Head(todo[b][r])))

-----------------------------------------------------------------------------
(* The strengthening that makes the safety properties inductive. *)

NumbersUnique == \A d, e \in journal : d.number = e.number => d = e
DrawnJustBefore == \A e \in journal : e.drawn # 0 => e.number = e.drawn + 1

\* The inductive invariant.
IInv ==
    /\ TypeOK
    /\ IsFiniteSet(journal)
    /\ NumbersUnique
    /\ DrawnJustBefore

\* What is open of a run shows in its phase, but for an admission request.
OpenShows(v) ==
    /\ v.attempt => v.phase \in {"RUNNING", "PAUSE_REQUESTED"}
    /\ v.validation = "PENDING" => v.phase \in {"VALIDATING", "PAUSE_REQUESTED", "PAUSED"}
    /\ v.phase = "PAUSED_RECOVERED" => ~v.admission

OpenByPhase == \A r \in Runs : OpenShows(view[r])

\* A bridge that is attaching has still to append what the phase of the run calls
\* for, or nothing but the recovery of an uncertain one.
AttachesByPhase ==
    \A b \in Bridges, r \in Runs :
        lease[r] = b /\ r \notin attached[b] /\ todo[b][r] # <<>> =>
            \/ todo[b][r] = AttachEvents(r)
            \/ view[r].phase \in Uncertain /\ todo[b][r] = <<"recovery.uncertain">>
=============================================================================
