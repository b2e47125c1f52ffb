--------------------------- MODULE EventIds_proofs ---------------------------
(***************************************************************************)
(* Proofs about EventIds for any number of bridges, runs, restarts and     *)
(* lapses: no validation id and no request id is recorded twice, and a     *)
(* bridge comes to keep a Supervisor only of a run that is safe.           *)
(***************************************************************************)
EXTENDS EventIds, FiniteSetTheorems, TLAPS

\* An empty journal has no ids.
LEMMA InitInv == Init => IInv
<1>1. Init => TypeOK
  BY NobodyAssumption DEF Init, TypeOK, Views, Phases
<1>2. Init => IsFiniteSet(journal) /\ NumbersUnique /\ DrawnJustBefore
  BY FS_EmptySet DEF Init, NumbersUnique, DrawnJustBefore
<1> QED BY <1>1, <1>2 DEF IInv

\* The revision of a run is a number.
LEMMA RevisionTyped ==
  ASSUME IsFiniteSet(journal), NEW r \in Runs
  PROVE  Revision(r) \in Nat
<1>1. IsFiniteSet({e \in journal : e.run = r})
  BY FS_Subset, {e \in journal : e.run = r} \subseteq journal
<1> QED BY <1>1, FS_CardinalityType DEF Revision

\* What an operation appends is a sequence of event types.
LEMMA WorkTyped ==
  ASSUME NEW r \in Runs, view[r] \in Views
  PROVE  /\ AttachEvents(r) \in Seq(Types)
         /\ \A work \in {Gate, Step} : WorkEvents(r, work) \in Seq(Types)
<1>1. <<>> \in Seq(Types) /\ <<"run.created", "lease.acquired">> \in Seq(Types)
  BY DEF Types
<1>2. <<"lease.acquired">> \in Seq(Types)
  BY DEF Types
<1>3. <<"lease.acquired", "recovery.uncertain">> \in Seq(Types)
  BY DEF Types
<1>4. Gate \in Seq(Types)
  BY DEF Types, Gate
<1>5. Step \in Seq(Types)
  BY DEF Types, Step
<1>6. <<"validation.superseded">> \in Seq(Types)
  BY DEF Types
<1>7. AttachEvents(r) \in Seq(Types)
  BY <1>1, <1>2, <1>3 DEF AttachEvents, Views, Phases, Uncertain
<1>8. \A work \in {Gate, Step} : WorkEvents(r, work) \in Seq(Types)
  BY <1>4, <1>5, <1>6 DEF WorkEvents
<1> QED BY <1>7, <1>8

\* The reducer makes a view of a view.
LEMMA ReducedTyped ==
  ASSUME NEW v \in Views, NEW type \in Types, NEW passed \in BOOLEAN
  PROVE  Reduced(v, type, passed) \in Views
<1> USE DEF Views, Phases, Reduced
<1>1. CASE type \in {"run.created", "lease.acquired", "node.started", "recovery.uncertain"}
  BY <1>1
<1>2. CASE type \in {"admission.hitl.requested", "admission.hitl.decided"}
  BY <1>2
<1>3. CASE type \in {"node.dispatch.requested", "node.settled"}
  BY <1>3
<1>4. CASE type \in {"validation.recorded", "validation.superseded"}
  BY <1>4
<1> QED BY <1>1, <1>2, <1>3, <1>4 DEF Types

\* The events an append adds and the numbers it draws.
LEMMA AppendPreserves ==
  ASSUME IInv, NEW b \in Bridges, NEW r \in Runs, AppendEvent(b, r)
  PROVE  IInv'
<1> DEFINE type == Head(todo[b][r])
           number == NumberBy(b, type)
           drawn == DrawnBy(b, type)
           event == Event(r, Revision(r) + 1, type, number, drawn)
<1>1. type \in Types /\ Tail(todo[b][r]) \in Seq(Types)
  BY DEF IInv, TypeOK, AppendEvent
<1>2. number \in Nat /\ drawn \in Nat /\ (drawn # 0 => number = drawn + 1)
  BY <1>1 DEF IInv, TypeOK, NumberBy, DrawnBy
<1>3. event \in Events
  BY <1>1, <1>2, RevisionTyped DEF IInv, Event, Events
<1>4. event.number = number /\ event.drawn = drawn
  BY DEF Event
<1>5. journal' = journal \union {event} /\ ~EventIdTaken(number)
  BY DEF AppendEvent, Refused
<1>6. \A passed \in BOOLEAN : Reduced(view[r], type, passed) \in Views
  BY <1>1, ReducedTyped DEF IInv, TypeOK
<1> HIDE DEF event, number, drawn, type
<1>7. view' \in [Runs -> Views]
  BY <1>6 DEF AppendEvent, IInv, TypeOK, type
<1>8. counter' \in [Bridges -> Nat]
  BY <1>2 DEF AppendEvent, IInv, TypeOK, type, number
<1>9. todo' \in [Bridges -> [Runs -> Seq(Types)]]
  BY <1>1 DEF AppendEvent, IInv, TypeOK
<1>10. attached' \in [Bridges -> SUBSET Runs]
  BY DEF AppendEvent, IInv, TypeOK
<1>11. TypeOK'
  BY <1>3, <1>5, <1>7, <1>8, <1>9, <1>10 DEF IInv, TypeOK, AppendEvent
<1>12. IsFiniteSet(journal')
  BY <1>5, FS_AddElement DEF IInv
<1>13. NumbersUnique'
  BY <1>4, <1>5 DEF IInv, NumbersUnique, EventIdTaken
<1>14. DrawnJustBefore'
  BY <1>2, <1>4, <1>5 DEF IInv, DrawnJustBefore
<1> QED BY <1>11, <1>12, <1>13, <1>14 DEF IInv

\* The other steps of an operation leave the journal alone.
LEMMA OperationTyped ==
  ASSUME IInv, NEW b \in Bridges, NEW r \in Runs,
         \/ Acquire(b, r) \/ \E work \in {Gate, Step} : BeginWork(b, r, work)
         \/ AppendRefused(b, r) \/ RenewalFails(b, r)
  PROVE  TypeOK' /\ journal' = journal
<1> USE DEF IInv, TypeOK
<1>1. CASE Acquire(b, r)
  <2>1. AttachEvents(r) \in Seq(Types)
    BY WorkTyped
  <2>2. todo' \in [Bridges -> [Runs -> Seq(Types)]]
    BY <1>1, <2>1 DEF Acquire
  <2>3. attached' \in [Bridges -> SUBSET Runs]
    <3>1. attached' = [attached EXCEPT ![b] = attached[b] \union {r}] \/ attached' = attached
      BY <1>1, Zenon DEF Acquire
    <3>2. attached[b] \union {r} \in SUBSET Runs
      OBVIOUS
    <3> QED BY <3>1, <3>2
  <2>4. lease' \in [Runs -> Bridges \union {Nobody}]
    BY <1>1 DEF Acquire
  <2>5. UNCHANGED <<counter, journal, view, restarts, lapses>>
    BY <1>1 DEF Acquire
  <2> QED BY <2>5, <2>2, <2>3, <2>4 DEF Acquire
<1>2. CASE \E work \in {Gate, Step} : BeginWork(b, r, work)
  <2>1. PICK work \in {Gate, Step} : BeginWork(b, r, work)
    BY <1>2
  <2>2. todo' \in [Bridges -> [Runs -> Seq(Types)]]
    BY <2>1, WorkTyped DEF BeginWork
  <2> QED BY <2>1, <2>2 DEF BeginWork
<1>3. CASE AppendRefused(b, r)
  <2>1. NumberBy(b, Head(todo[b][r])) + 1 \in Nat
    BY DEF NumberBy
  <2>2. counter' \in [Bridges -> Nat]
    BY <1>3, <2>1 DEF AppendRefused
  <2>3. todo' \in [Bridges -> [Runs -> Seq(Types)]]
    BY <1>3 DEF AppendRefused
  <2> QED BY <1>3, <2>2, <2>3 DEF AppendRefused
<1>4. CASE RenewalFails(b, r)
  <2>1. counter' \in [Bridges -> Nat]
    BY <1>4 DEF RenewalFails
  <2>2. todo' \in [Bridges -> [Runs -> Seq(Types)]]
    BY <1>4 DEF RenewalFails
  <2> QED BY <1>4, <2>1, <2>2 DEF RenewalFails
<1> QED BY <1>1, <1>2, <1>3, <1>4

\* Nor do leases that run out, the operator or a restart touch it.
LEMMA WorldTyped ==
  ASSUME IInv,
         \/ \E r \in Runs : LeaseExpires(r) \/ LeaseLapses(r) \/ Pause(r) \/ Resume(r)
         \/ \E b \in Bridges : Restart(b)
  PROVE  TypeOK' /\ journal' = journal
<1> USE DEF IInv, TypeOK
<1>1. CASE \E r \in Runs : LeaseExpires(r) \/ LeaseLapses(r)
  <2>1. PICK r \in Runs : LeaseExpires(r) \/ LeaseLapses(r)
    BY <1>1
  <2>2. lease' = [lease EXCEPT ![r] = Nobody] /\ (lapses' = lapses \/ lapses' = lapses + 1)
    BY <2>1 DEF LeaseExpires, LeaseLapses
  <2>3. UNCHANGED <<counter, journal, view, attached, todo, restarts>>
    BY <2>1 DEF LeaseExpires, LeaseLapses
  <2> QED BY <2>2, <2>3
<1>2. CASE \E r \in Runs : Pause(r) \/ Resume(r)
  <2>1. PICK r \in Runs : Pause(r) \/ Resume(r)
    BY <1>2
  <2>2. PICK phase \in Phases : view' = [view EXCEPT ![r].phase = phase]
    BY <2>1 DEF Pause, Resume, Phases, Views
  <2>3. view' \in [Runs -> Views]
    BY <2>2 DEF Views
  <2>4. UNCHANGED <<counter, journal, lease, attached, todo, restarts, lapses>>
    BY <2>1 DEF Pause, Resume
  <2> QED BY <2>3, <2>4
<1>3. CASE \E b \in Bridges : Restart(b)
  <2>1. PICK b \in Bridges : Restart(b)
    BY <1>3
  <2>2. [r \in Runs |-> <<>>] \in [Runs -> Seq(Types)]
    OBVIOUS
  <2>3. todo' \in [Bridges -> [Runs -> Seq(Types)]]
    BY <2>1, <2>2 DEF Restart
  <2>4. attached' \in [Bridges -> SUBSET Runs]
    BY <2>1 DEF Restart
  <2> QED BY <2>1, <2>3, <2>4 DEF Restart
<1> QED BY <1>1, <1>2, <1>3

\* The invariant is inductive.
LEMMA NextPreserves == IInv /\ [Next]_vars => IInv'
<1> SUFFICES ASSUME IInv, [Next]_vars PROVE IInv'
  OBVIOUS
<1>1. CASE \E b \in Bridges, r \in Runs : AppendEvent(b, r)
  BY <1>1, AppendPreserves
<1>2. CASE UNCHANGED vars
  BY <1>2 DEF vars, IInv, TypeOK, NumbersUnique, DrawnJustBefore
<1>3. ASSUME TypeOK', journal' = journal PROVE IInv'
  BY <1>3 DEF IInv, NumbersUnique, DrawnJustBefore
<1>4. CASE \E b \in Bridges, r \in Runs :
             \/ Acquire(b, r) \/ \E work \in {Gate, Step} : BeginWork(b, r, work)
             \/ AppendRefused(b, r) \/ RenewalFails(b, r)
  BY <1>3, <1>4, OperationTyped
<1>5. CASE \/ \E r \in Runs : LeaseExpires(r) \/ LeaseLapses(r) \/ Pause(r) \/ Resume(r)
           \/ \E b \in Bridges : Restart(b)
  BY <1>3, <1>5, WorldTyped
<1> QED BY <1>1, <1>2, <1>4, <1>5 DEF Next

\* The inductive invariant holds of every behaviour.
THEOREM Invariance == Spec => []IInv
BY InitInv, NextPreserves, PTL DEF Spec

\* Every variable keeps its type.
THEOREM TypeCorrectness == Spec => []TypeOK
<1>1. IInv => TypeOK
  BY DEF IInv
<1> QED BY <1>1, Invariance, PTL

\* No validation id and no request id is recorded twice, although every process
\* counts from zero: the number of the event after it would be there already.
THEOREM IdsAreNew == Spec => []DurableIdsNew
<1>1. IInv => DurableIdsNew
  BY DEF IInv, NumbersUnique, DrawnJustBefore, DurableIdsNew
<1> QED BY <1>1, Invariance, PTL

-----------------------------------------------------------------------------
(* Attaching: createRun and recover append by the phase they found.        *)

\* What is open shows in the phase after every event the reducer accepts.
LEMMA ReducedShows ==
  ASSUME NEW v \in Views, NEW type \in Types, NEW passed \in BOOLEAN,
         OpenShows(v), Legal(v, type)
  PROVE  OpenShows(Reduced(v, type, passed))
<1> USE DEF Views, Phases, OpenShows, Legal, Reduced, Uncertain
<1>1. CASE type \in {"run.created", "lease.acquired", "node.started", "recovery.uncertain"}
  BY <1>1
<1>2. CASE type \in {"admission.hitl.requested", "admission.hitl.decided"}
  BY <1>2
<1>3. CASE type \in {"node.dispatch.requested", "node.settled"}
  BY <1>3
<1>4. CASE type \in {"validation.recorded", "validation.superseded"}
  BY <1>4
<1> QED BY <1>1, <1>2, <1>3, <1>4 DEF Types

\* So it does after every step.
LEMMA OpenPreserved ==
  ASSUME TypeOK, OpenByPhase, [Next]_vars
  PROVE  OpenByPhase'
<1> SUFFICES ASSUME NEW q \in Runs PROVE OpenShows(view'[q])
  BY DEF OpenByPhase
<1>1. view[q] \in Views /\ OpenShows(view[q])
  BY DEF TypeOK, OpenByPhase
<1>2. ASSUME NEW b \in Bridges, NEW r \in Runs, AppendEvent(b, r)
      PROVE  OpenShows(view'[q])
  <2>1. CASE r = q
    <3>1. Head(todo[b][r]) \in Types /\ Legal(view[r], Head(todo[b][r]))
      BY <1>2 DEF AppendEvent, TypeOK
    <3>2. PICK passed \in BOOLEAN : view'[r] = Reduced(view[r], Head(todo[b][r]), passed)
      BY <1>2 DEF AppendEvent, TypeOK
    <3>3. QED
      BY <1>1, <2>1, <3>1, <3>2, ReducedShows
  <2>2. CASE r # q
    BY <1>1, <1>2, <2>2 DEF AppendEvent, TypeOK
  <2>3. QED
    BY <2>1, <2>2
<1>3. ASSUME NEW r \in Runs, Pause(r) \/ Resume(r)
      PROVE  OpenShows(view'[q])
  <2>1. view \in [Runs -> Views]
    BY DEF TypeOK
  <2>2. PICK phase \in Phases :
          /\ view' = [view EXCEPT ![r].phase = phase]
          /\ view[r].attempt => phase = "PAUSE_REQUESTED"
          /\ view[r].validation = "PENDING" => phase \in {"VALIDATING", "PAUSE_REQUESTED", "PAUSED"}
          /\ phase # "PAUSED_RECOVERED"
    <3>1. view[r] \in Views /\ OpenShows(view[r])
      BY <2>1 DEF OpenByPhase
    <3>2. CASE Pause(r)
      BY <3>1, <3>2 DEF Pause, Views, Phases, OpenShows
    <3>3. CASE Resume(r)
      BY <3>1, <3>3 DEF Resume, Views, Phases, OpenShows
    <3>4. QED
      BY <1>3, <3>2, <3>3
  <2>3. CASE r = q
    <3>1. view'[q] = [view[q] EXCEPT !.phase = phase]
      BY <2>1, <2>2, <2>3
    <3>2. QED
      BY <1>1, <2>2, <2>3, <3>1 DEF OpenShows, Views
  <2>4. CASE r # q
    BY <1>1, <2>1, <2>2, <2>4
  <2>5. QED
    BY <2>3, <2>4
<1>4. ASSUME view' = view PROVE OpenShows(view'[q])
  BY <1>1, <1>4
<1>5. QED
  BY <1>2, <1>3, <1>4 DEF Next, vars, Acquire, BeginWork, AppendRefused, RenewalFails,
     LeaseExpires, LeaseLapses, Restart

\* What is still to append decides the phase the next event leads to.
LEMMA AttachSequences ==
  ASSUME NEW r \in Runs, view[r] \in Views
  PROVE  /\ view[r].phase = "ABSENT" => AttachEvents(r) = <<"run.created", "lease.acquired">>
         /\ view[r].phase \in {"READY", "VALIDATED", "PAUSED"} =>
               AttachEvents(r) = <<"lease.acquired">>
         /\ view[r].phase \in Uncertain =>
               AttachEvents(r) = <<"lease.acquired", "recovery.uncertain">>
         /\ view[r].phase = "PAUSED_RECOVERED" <=> AttachEvents(r) = <<>>
         /\ \/ view[r].phase \in {"ABSENT", "READY", "VALIDATED", "PAUSED", "PAUSED_RECOVERED"}
            \/ view[r].phase \in Uncertain
BY DEF AttachEvents, Views, Phases, Uncertain

\* An append of a bridge that is attaching leads from one stage to the next, and
\* the last one leaves the run safe.
LEMMA AttachingAppend ==
  ASSUME TypeOK, OpenByPhase, AttachesByPhase, NEW b \in Bridges, NEW r \in Runs,
         AppendEvent(b, r), r \notin attached[b]
  PROVE  \/ todo'[b][r] = <<>> /\ Safe(view'[r])
         \/ view'[r].phase = "READY" /\ todo'[b][r] = <<"lease.acquired">>
         \/ view'[r].phase \in Uncertain /\ todo'[b][r] = <<"recovery.uncertain">>
<1>1. /\ view[r] \in Views /\ OpenShows(view[r])
      /\ todo'[b][r] = Tail(todo[b][r]) /\ todo[b][r] # <<>> /\ lease[r] = b
  BY DEF AppendEvent, TypeOK, OpenByPhase
<1>2. PICK passed \in BOOLEAN : view'[r] = Reduced(view[r], Head(todo[b][r]), passed)
  BY DEF AppendEvent, TypeOK
<1>3. \/ todo[b][r] = AttachEvents(r)
      \/ view[r].phase \in Uncertain /\ todo[b][r] = <<"recovery.uncertain">>
  BY <1>1 DEF AttachesByPhase
<1>4. CASE view[r].phase = "ABSENT" /\ todo[b][r] = <<"run.created", "lease.acquired">>
  <2>1. view'[r].phase = "READY"
    BY <1>1, <1>2, <1>4 DEF Reduced, Views
  <2>2. QED
    BY <1>1, <1>4, <2>1
<1>5. CASE view[r].phase \in {"READY", "VALIDATED", "PAUSED"} /\ todo[b][r] = <<"lease.acquired">>
  <2>1. view'[r] = view[r] /\ todo'[b][r] = <<>>
    BY <1>1, <1>2, <1>5 DEF Reduced
  <2>2. QED
    BY <1>1, <1>5, <2>1 DEF Safe, OpenShows, Views
<1>6. CASE view[r].phase \in Uncertain /\ todo[b][r] = <<"lease.acquired", "recovery.uncertain">>
  <2>1. view'[r] = view[r]
    BY <1>2, <1>6 DEF Reduced
  <2>2. todo'[b][r] = <<"recovery.uncertain">>
    BY <1>1, <1>6
  <2>3. QED
    BY <1>6, <2>1, <2>2
<1>7. CASE view[r].phase \in Uncertain /\ todo[b][r] = <<"recovery.uncertain">>
  <2>1. todo'[b][r] = <<>>
    BY <1>1, <1>7
  <2>2. Safe(view'[r])
    BY <1>2, <1>7 DEF Reduced, Safe
  <2>3. QED
    BY <2>1, <2>2
<1>8. QED
  BY <1>1, <1>3, <1>4, <1>5, <1>6, <1>7, AttachSequences DEF Uncertain

\* What a bridge that is attaching still has to append.
LEMMA AttachingPreserved ==
  ASSUME TypeOK, OpenByPhase, AttachesByPhase, [Next]_vars
  PROVE  AttachesByPhase'
<1> DEFINE Pending(c, q) ==
      \/ todo'[c][q] = AttachEvents(q)'
      \/ view'[q].phase \in Uncertain /\ todo'[c][q] = <<"recovery.uncertain">>
<1> SUFFICES ASSUME NEW c \in Bridges, NEW q \in Runs,
                    lease'[q] = c, q \notin attached'[c], todo'[c][q] # <<>>
             PROVE  Pending(c, q)
  BY DEF AttachesByPhase
<1>ok. /\ lease \in [Runs -> Bridges \union {Nobody}] /\ attached \in [Bridges -> SUBSET Runs]
       /\ todo \in [Bridges -> [Runs -> Seq(Types)]] /\ view \in [Runs -> Views]
  BY DEF TypeOK
\* A step that leaves the bridge, the run and its lease alone.
<1>1. ASSUME lease'[q] = lease[q], view'[q] = view[q], todo'[c][q] = todo[c][q],
             q \in attached[c] => q \in attached'[c]
      PROVE  Pending(c, q)
  BY <1>1 DEF AttachesByPhase, AttachEvents
<1>2. ASSUME NEW b \in Bridges, NEW r \in Runs, Acquire(b, r)
      PROVE  Pending(c, q)
  <2>1. CASE b = c /\ r = q
    <3>1. todo'[c][q] = AttachEvents(q) /\ view' = view
      BY <1>ok, <1>2, <2>1 DEF Acquire
    <3>2. QED
      BY <3>1 DEF AttachEvents
  <2>2. CASE r # q
    <3>1. /\ lease'[q] = lease[q] /\ view' = view /\ todo'[c][q] = todo[c][q]
      BY <1>ok, <1>2, <2>2 DEF Acquire
    <3>2. q \in attached[c] => q \in attached'[c]
      BY <1>ok, <1>2, <2>2 DEF Acquire
    <3>3. QED
      BY <1>1, <3>1, <3>2
  <2>3. CASE r = q /\ b # c
    BY <1>ok, <1>2, <2>3 DEF Acquire
  <2>4. QED
    BY <2>1, <2>2, <2>3
<1>3. ASSUME NEW b \in Bridges, NEW r \in Runs, AppendEvent(b, r)
      PROVE  Pending(c, q)
  <2>1. lease' = lease /\ lease[r] = b /\ (q \in attached[c] => q \in attached'[c])
    <3>1. attached' = attached \/ attached' = [attached EXCEPT ![b] = attached[b] \union {r}]
      BY <1>3, Zenon DEF AppendEvent
    <3>2. QED
      BY <1>ok, <1>3, <3>1 DEF AppendEvent
  <2>2. CASE r = q
    <3>1. b = c
      BY <2>1, <2>2
    <3>2. \/ todo'[b][r] = <<>> /\ Safe(view'[r])
          \/ view'[r].phase = "READY" /\ todo'[b][r] = <<"lease.acquired">>
          \/ view'[r].phase \in Uncertain /\ todo'[b][r] = <<"recovery.uncertain">>
      BY <1>3, <2>1, <2>2, <3>1, AttachingAppend
    <3>3. view'[r].phase = "READY" => AttachEvents(r)' = <<"lease.acquired">>
      BY DEF AttachEvents, Uncertain
    <3>4. QED
      BY <2>2, <3>1, <3>2, <3>3
  <2>3. CASE r # q
    <3>1. view'[q] = view[q] /\ todo'[c][q] = todo[c][q]
      BY <1>ok, <1>3, <2>3 DEF AppendEvent
    <3>2. QED
      BY <1>1, <2>1, <3>1
  <2>4. QED
    BY <2>2, <2>3
<1>4. ASSUME NEW b \in Bridges, NEW r \in Runs, NEW work \in {Gate, Step}, BeginWork(b, r, work)
      PROVE  Pending(c, q)
  <2>1. UNCHANGED <<lease, view, attached>> /\ ~(b = c /\ r = q)
    BY <1>4 DEF BeginWork
  <2>2. todo'[c][q] = todo[c][q]
    BY <1>ok, <1>4, <2>1 DEF BeginWork
  <2>3. QED
    BY <1>1, <2>1, <2>2
<1>5. ASSUME NEW b \in Bridges, NEW r \in Runs, AppendRefused(b, r) \/ RenewalFails(b, r)
      PROVE  Pending(c, q)
  <2>1. /\ UNCHANGED <<lease, view, attached>>
        /\ todo' = [todo EXCEPT ![b][r] = <<>>]
    BY <1>5 DEF AppendRefused, RenewalFails
  <2>2. ~(b = c /\ r = q)
    BY <1>ok, <2>1
  <2>3. todo'[c][q] = todo[c][q]
    BY <1>ok, <2>1, <2>2
  <2>4. QED
    BY <1>1, <2>1, <2>3
<1>6. ASSUME NEW r \in Runs, LeaseExpires(r) \/ LeaseLapses(r)
      PROVE  Pending(c, q)
  <2>1. UNCHANGED <<view, attached, todo>> /\ lease' = [lease EXCEPT ![r] = Nobody]
    BY <1>6 DEF LeaseExpires, LeaseLapses
  <2>2. r # q
    BY <1>ok, <2>1, NobodyAssumption
  <2>3. QED
    BY <1>ok, <1>1, <2>1, <2>2
<1>7. ASSUME NEW r \in Runs, Pause(r) \/ Resume(r)
      PROVE  Pending(c, q)
  <2>1. UNCHANGED <<lease, attached, todo>> /\ lease[r] = Nobody
    BY <1>7 DEF Pause, Resume
  <2>2. r # q
    BY <2>1, NobodyAssumption
  <2>3. view'[q] = view[q]
    BY <1>ok, <1>7, <2>2 DEF Pause, Resume
  <2>4. QED
    BY <1>1, <2>1, <2>3
<1>8. ASSUME NEW b \in Bridges, Restart(b)
      PROVE  Pending(c, q)
  <2>1. b # c
    BY <1>ok, <1>8 DEF Restart
  <2>2. QED
    BY <1>ok, <1>1, <1>8, <2>1 DEF Restart
<1>9. CASE UNCHANGED vars
  BY <1>1, <1>9 DEF vars
<1>10. QED
  BY <1>2, <1>3, <1>4, <1>5, <1>6, <1>7, <1>8, <1>9 DEF Next

\* A bridge comes to keep a Supervisor by an attach that has ended.
LEMMA StepAttachesWhenSafe ==
  ASSUME TypeOK, OpenByPhase, AttachesByPhase, [Next]_vars,
         NEW b \in Bridges, NEW r \in attached'[b] \ attached[b]
  PROVE  Safe(view'[r])
<1>ok. /\ attached \in [Bridges -> SUBSET Runs] /\ view \in [Runs -> Views]
       /\ todo \in [Bridges -> [Runs -> Seq(Types)]]
  BY DEF TypeOK
<1>1. ASSUME NEW c \in Bridges, NEW q \in Runs, Acquire(c, q)
      PROVE  Safe(view'[r])
  <2>1. b = c /\ r = q /\ AttachEvents(q) = <<>> /\ view' = view
    BY <1>ok, <1>1 DEF Acquire
  <2>2. view[r].phase = "PAUSED_RECOVERED" /\ OpenShows(view[r]) /\ view[r] \in Views
    BY <1>ok, <2>1, AttachSequences DEF OpenByPhase
  <2>3. QED
    BY <2>1, <2>2 DEF OpenShows, Safe, Views
<1>2. ASSUME NEW c \in Bridges, NEW q \in Runs, AppendEvent(c, q)
      PROVE  Safe(view'[r])
  <2>1. b = c /\ r = q /\ Tail(todo[c][q]) = <<>>
    <3>1. attached' = IF Tail(todo[c][q]) = <<>>
                      THEN [attached EXCEPT ![c] = attached[c] \union {q}] ELSE attached
      BY <1>2, Zenon DEF AppendEvent
    <3>2. Tail(todo[c][q]) = <<>>
      BY <3>1
    <3>3. QED
      BY <1>ok, <3>1, <3>2
  <2>2. todo'[b][r] = <<>>
    BY <1>ok, <1>2, <2>1 DEF AppendEvent
  <2>3. \/ todo'[c][q] = <<>> /\ Safe(view'[q])
        \/ view'[q].phase = "READY" /\ todo'[c][q] = <<"lease.acquired">>
        \/ view'[q].phase \in Uncertain /\ todo'[c][q] = <<"recovery.uncertain">>
    BY <1>2, <2>1, AttachingAppend
  <2>4. <<"recovery.uncertain">> # <<>> /\ <<"lease.acquired">> # <<>>
    OBVIOUS
  <2>5. QED
    BY <2>1, <2>2, <2>3, <2>4
<1>3. ASSUME NEW c \in Bridges, Restart(c)
      PROVE  FALSE
  BY <1>ok, <1>3 DEF Restart
<1>4. QED
  BY <1>1, <1>2, <1>3 DEF Next, BeginWork, AppendRefused, RenewalFails, LeaseExpires,
     LeaseLapses, Pause, Resume, vars

\* A bridge comes to keep a Supervisor only of a run with no attempt in flight and
\* nobody awaited, with a validation pending only behind a pause, however many of
\* its attaches failed half way and whatever the operator paused or resumed.
THEOREM AttachesSafely == Spec => AttachesWhenSafe
<1>1. Init => OpenByPhase /\ AttachesByPhase
  BY DEF Init, OpenByPhase, OpenShows, AttachesByPhase
<1>2. TypeOK /\ OpenByPhase /\ AttachesByPhase /\ [Next]_vars => OpenByPhase' /\ AttachesByPhase'
  BY OpenPreserved, AttachingPreserved
<1>3. TypeOK /\ OpenByPhase /\ AttachesByPhase /\ [Next]_vars
        => [\A b \in Bridges : \A r \in attached'[b] \ attached[b] : Safe(view'[r])]_vars
  BY StepAttachesWhenSafe
<1>4. QED
  BY <1>1, <1>2, <1>3, TypeCorrectness, PTL DEF Spec, AttachesWhenSafe
=============================================================================
