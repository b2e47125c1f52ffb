--------------------------- MODULE RunStore_proofs ---------------------------
(***************************************************************************)
(* Proofs about RunStore for every set of processes, holder ids and keys   *)
(* and every lease time to live: the inductive invariant IInv holds, the   *)
(* safety properties follow, and the store implements FencedLog.           *)
(***************************************************************************)
EXTENDS RunStore, SequenceTheorems, TLAPS

\* The empty values have the types of their variables.
LEMMA EmptyValuesTyped ==
  /\ NoRow \in Lease
  /\ NoGrant \in [token : Nat, expires : Nat]
  /\ Idle \in Call
BY DEF NoRow, NoGrant, Idle, Lease, Call

\* An empty database satisfies the invariant.
LEMMA InitInv == Init => IInv
BY EmptyValuesTyped, HoldersAssumption
DEF Init, IInv, TypeOK, CounterIsLastToken, GrantMirrorsRow, CallsAreFromThePast,
    TokenHasOneOwner, JournalIsFenced, NoRow, NoGrant, Idle

-----------------------------------------------------------------------------
(* Each step of a process preserves the invariant. *)

\* A process reads the clock before acquiring.
LEMMA CallAcquirePreserves ==
  ASSUME IInv, NEW p \in Processes, CallAcquire(p)
  PROVE  IInv'
<1> USE HoldersAssumption, TimeAssumption, KeysAssumption, EmptyValuesTyped
<1>1. TypeOK'
  BY DEF IInv, TypeOK, CallAcquire, Lease, Call, Event, Idle
<1>2. CounterIsLastToken'
  BY DEF IInv, TypeOK, CounterIsLastToken, CallAcquire, Lease, NoRow, NoGrant, Event
<1>3. GrantMirrorsRow'
  BY DEF IInv, TypeOK, CounterIsLastToken, GrantMirrorsRow, CallsAreFromThePast,
         TokenHasOneOwner, CallAcquire, Lease, Call, NoRow, NoGrant
<1>4. CallsAreFromThePast'
  BY DEF IInv, TypeOK, CallsAreFromThePast, CallAcquire, Call, Idle
<1>5. TokenHasOneOwner'
  BY DEF IInv, TypeOK, CounterIsLastToken, TokenHasOneOwner, CallAcquire, NoGrant
<1>6. JournalIsFenced'
  BY DEF IInv, TypeOK, CounterIsLastToken, JournalIsFenced, CallAcquire, Event, Lease
<1>7. QED
  BY <1>1, <1>2, <1>3, <1>4, <1>5, <1>6 DEF IInv

\* A lease is granted over a row that has expired for every owner.
LEMMA AcquirePreserves ==
  ASSUME IInv, NEW p \in Processes, Acquire(p)
  PROVE  IInv'
<1> DEFINE granted == [token |-> counter + 1, expires |-> call[p].at + TTL]
<1> USE HoldersAssumption, TimeAssumption
<1>1. /\ call[p].at \in Nat /\ call[p].at <= now /\ row.expires <= call[p].at
      /\ granted \in [token : Nat, expires : Nat]
  BY DEF IInv, TypeOK, CallsAreFromThePast, Acquire, Call
<1>2. /\ counter' = counter + 1
      /\ row' = [holder |-> HolderOf[p], token |-> counter + 1,
                 expires |-> call[p].at + TTL]
      /\ grant' = [grant EXCEPT ![p] = granted]
      /\ call' = [call EXCEPT ![p] = Idle]
      /\ UNCHANGED <<now, journal>>
  BY DEF Acquire, Return
<1>3. TypeOK'
  BY <1>1, <1>2, EmptyValuesTyped DEF IInv, TypeOK, Lease
<1>4. CounterIsLastToken'
  <2>1. row'.token = counter' /\ row'.token # 0 /\ row'.holder # None
    BY <1>2 DEF IInv, TypeOK
  <2>2. \A q \in Processes : grant'[q].token <= counter'
    BY <1>1, <1>2 DEF IInv, TypeOK, CounterIsLastToken
  <2>3. \A i \in DOMAIN journal : journal[i].token <= counter'
    <3>1. \A i \in DOMAIN journal : journal[i].token \in Nat /\ journal[i].token <= counter
      <4>1. \A i \in DOMAIN journal : journal[i] \in Event
        BY DEF IInv, TypeOK
      <4>2. QED
        BY <4>1 DEF IInv, CounterIsLastToken, Event
    <3>2. QED
      BY <1>2, <3>1 DEF IInv, TypeOK
  <2>4. QED
    BY <1>2, <2>1, <2>2, <2>3 DEF CounterIsLastToken
<1>5. GrantMirrorsRow'
  <2> SUFFICES ASSUME NEW q \in Processes
               PROVE  IF grant'[q].token = 0 THEN grant'[q].expires = 0
                      ELSE IF row'.token = grant'[q].token
                           THEN row'.holder = HolderOf[q] /\ row'.expires = grant'[q].expires
                           ELSE grant'[q].expires <= now
    BY <1>2 DEF GrantMirrorsRow
  <2>1. CASE q = p
    BY <1>1, <1>2, <2>1 DEF IInv, TypeOK
  <2>2. CASE q # p
    <3>1. grant'[q] = grant[q] /\ grant[q].token <= counter /\ row.expires <= now
      BY <1>1, <1>2, <2>2 DEF IInv, TypeOK, CounterIsLastToken, Lease
    <3>2. grant[q].token # row'.token
      BY <1>2, <3>1 DEF IInv, TypeOK
    <3>3. QED
      BY <1>1, <3>1, <3>2 DEF IInv, TypeOK, GrantMirrorsRow
  <2>3. QED
    BY <2>1, <2>2
<1>6. CallsAreFromThePast'
  BY <1>2 DEF IInv, TypeOK, CallsAreFromThePast, Call, Idle
<1>7. TokenHasOneOwner'
  BY <1>1, <1>2 DEF IInv, TypeOK, CounterIsLastToken, TokenHasOneOwner
<1>8. JournalIsFenced'
  BY <1>2 DEF IInv, JournalIsFenced
<1>9. QED
  BY <1>3, <1>4, <1>5, <1>6, <1>7, <1>8 DEF IInv

\* A refused acquisition changes nothing durable.
LEMMA AcquireRefusedPreserves ==
  ASSUME IInv, NEW p \in Processes, AcquireRefused(p)
  PROVE  IInv'
<1> USE HoldersAssumption, TimeAssumption, KeysAssumption, EmptyValuesTyped
<1>1. TypeOK'
  BY DEF IInv, TypeOK, AcquireRefused, Return, Lease, Call, Event, Idle
<1>2. CounterIsLastToken'
  BY DEF IInv, TypeOK, CounterIsLastToken, AcquireRefused, Return, Lease, NoRow, NoGrant, Event
<1>3. GrantMirrorsRow'
  BY DEF IInv, TypeOK, CounterIsLastToken, GrantMirrorsRow, CallsAreFromThePast,
         TokenHasOneOwner, AcquireRefused, Return, Lease, Call, NoRow, NoGrant
<1>4. CallsAreFromThePast'
  BY DEF IInv, TypeOK, CallsAreFromThePast, AcquireRefused, Return, Call, Idle
<1>5. TokenHasOneOwner'
  BY DEF IInv, TypeOK, CounterIsLastToken, TokenHasOneOwner, AcquireRefused, NoGrant
<1>6. JournalIsFenced'
  BY DEF IInv, TypeOK, CounterIsLastToken, JournalIsFenced, AcquireRefused, Event, Lease
<1>7. QED
  BY <1>1, <1>2, <1>3, <1>4, <1>5, <1>6 DEF IInv

\* A process reads the clock before renewing.
LEMMA CallRenewPreserves ==
  ASSUME IInv, NEW p \in Processes, CallRenew(p)
  PROVE  IInv'
<1> USE HoldersAssumption, TimeAssumption, KeysAssumption, EmptyValuesTyped
<1>1. TypeOK'
  BY DEF IInv, TypeOK, CallRenew, Lease, Call, Event, Idle
<1>2. CounterIsLastToken'
  BY DEF IInv, TypeOK, CounterIsLastToken, CallRenew, Lease, NoRow, NoGrant, Event
<1>3. GrantMirrorsRow'
  BY DEF IInv, TypeOK, CounterIsLastToken, GrantMirrorsRow, CallsAreFromThePast,
         TokenHasOneOwner, CallRenew, Lease, Call, NoRow, NoGrant
<1>4. CallsAreFromThePast'
  BY DEF IInv, TypeOK, CallsAreFromThePast, CallRenew, Call, Idle
<1>5. TokenHasOneOwner'
  BY DEF IInv, TypeOK, CounterIsLastToken, TokenHasOneOwner, CallRenew, NoGrant
<1>6. JournalIsFenced'
  BY DEF IInv, TypeOK, CounterIsLastToken, JournalIsFenced, CallRenew, Event, Lease
<1>7. QED
  BY <1>1, <1>2, <1>3, <1>4, <1>5, <1>6 DEF IInv

\* A renewal moves the row and the grant it mirrors together.
LEMMA RenewPreserves ==
  ASSUME IInv, NEW p \in Processes, Renew(p)
  PROVE  IInv'
<1> USE HoldersAssumption, TimeAssumption
<1>1. /\ call[p].at \in Nat /\ call[p].at + TTL \in Nat
      /\ row.holder = HolderOf[p] /\ row.token = grant[p].token /\ row.token # 0
  <2>1. row.holder = HolderOf[p] /\ row.token = grant[p].token
    BY DEF Renew, Owns
  <2>2. call[p].at \in Nat /\ call[p].at + TTL \in Nat
    BY DEF IInv, TypeOK, Call
  <2>3. QED
    BY <2>1, <2>2 DEF IInv, CounterIsLastToken
<1>2. /\ row' = [row EXCEPT !.expires = call[p].at + TTL]
      /\ grant' = [grant EXCEPT ![p].expires = call[p].at + TTL]
      /\ call' = [call EXCEPT ![p] = Idle]
      /\ UNCHANGED <<now, counter, journal>>
  BY DEF Renew, Return, IInv, TypeOK, Lease
<1>3. TypeOK'
  BY <1>1, <1>2, EmptyValuesTyped DEF IInv, TypeOK, Lease
<1>4. CounterIsLastToken'
  BY <1>1, <1>2 DEF IInv, TypeOK, CounterIsLastToken, Lease
<1>5. GrantMirrorsRow'
  BY <1>1, <1>2 DEF IInv, TypeOK, GrantMirrorsRow, TokenHasOneOwner, Lease
<1>6. CallsAreFromThePast'
  BY <1>2 DEF IInv, TypeOK, CallsAreFromThePast, Call, Idle
<1>7. TokenHasOneOwner'
  BY <1>2 DEF IInv, TypeOK, TokenHasOneOwner
<1>8. JournalIsFenced'
  BY <1>2 DEF IInv, JournalIsFenced
<1>9. QED
  BY <1>3, <1>4, <1>5, <1>6, <1>7, <1>8 DEF IInv

\* A refused renewal changes nothing durable.
LEMMA RenewRefusedPreserves ==
  ASSUME IInv, NEW p \in Processes, RenewRefused(p)
  PROVE  IInv'
<1> USE HoldersAssumption, TimeAssumption, KeysAssumption, EmptyValuesTyped
<1>1. TypeOK'
  BY DEF IInv, TypeOK, RenewRefused, Owns, Return, Lease, Call, Event, Idle
<1>2. CounterIsLastToken'
  BY DEF IInv, TypeOK, CounterIsLastToken, RenewRefused, Owns, Return, Lease, NoRow, NoGrant, Event
<1>3. GrantMirrorsRow'
  BY DEF IInv, TypeOK, CounterIsLastToken, GrantMirrorsRow, CallsAreFromThePast,
         TokenHasOneOwner, RenewRefused, Owns, Return, Lease, Call, NoRow, NoGrant
<1>4. CallsAreFromThePast'
  BY DEF IInv, TypeOK, CallsAreFromThePast, RenewRefused, Owns, Return, Call, Idle
<1>5. TokenHasOneOwner'
  BY DEF IInv, TypeOK, CounterIsLastToken, TokenHasOneOwner, RenewRefused, Owns, NoGrant
<1>6. JournalIsFenced'
  BY DEF IInv, TypeOK, CounterIsLastToken, JournalIsFenced, RenewRefused, Owns, Event, Lease
<1>7. QED
  BY <1>1, <1>2, <1>3, <1>4, <1>5, <1>6 DEF IInv

\* A release removes the row only under the releaser's own token.
LEMMA ReleasePreserves ==
  ASSUME IInv, NEW p \in Processes, Release(p)
  PROVE  IInv'
<1> USE HoldersAssumption, TimeAssumption, KeysAssumption, EmptyValuesTyped
<1>1. TypeOK'
  BY DEF IInv, TypeOK, Release, Lease, Call, Event, Idle
<1>2. CounterIsLastToken'
  BY DEF IInv, TypeOK, CounterIsLastToken, Release, Lease, NoRow, NoGrant, Event
<1>3. GrantMirrorsRow'
  BY DEF IInv, TypeOK, CounterIsLastToken, GrantMirrorsRow, CallsAreFromThePast,
         TokenHasOneOwner, Release, Lease, Call, NoRow, NoGrant
<1>4. CallsAreFromThePast'
  BY DEF IInv, TypeOK, CallsAreFromThePast, Release, Call, Idle
<1>5. TokenHasOneOwner'
  BY DEF IInv, TypeOK, CounterIsLastToken, TokenHasOneOwner, Release, NoGrant
<1>6. JournalIsFenced'
  BY DEF IInv, TypeOK, CounterIsLastToken, JournalIsFenced, Release, Event, Lease
<1>7. QED
  BY <1>1, <1>2, <1>3, <1>4, <1>5, <1>6 DEF IInv

\* A process builds an event on the journal it read.
LEMMA BuildEventPreserves ==
  ASSUME IInv, NEW p \in Processes, NEW key \in Keys, BuildEvent(p, key)
  PROVE  IInv'
<1> USE HoldersAssumption, TimeAssumption, KeysAssumption, EmptyValuesTyped
<1>1. TypeOK'
  <2>1. [op |-> "event", at |-> 0, expected |-> Len(journal), key |-> key] \in Call
    BY DEF IInv, TypeOK, Call
  <2>2. call' = [call EXCEPT ![p] = [op |-> "event", at |-> 0,
                                     expected |-> Len(journal), key |-> key]]
    BY DEF BuildEvent
  <2>3. QED
    BY <2>1, <2>2 DEF IInv, TypeOK, BuildEvent
<1>2. CounterIsLastToken'
  BY DEF IInv, TypeOK, CounterIsLastToken, BuildEvent, Lease, NoRow, NoGrant, Event
<1>3. GrantMirrorsRow'
  BY DEF IInv, TypeOK, CounterIsLastToken, GrantMirrorsRow, CallsAreFromThePast,
         TokenHasOneOwner, BuildEvent, Lease, Call, NoRow, NoGrant
<1>4. CallsAreFromThePast'
  BY DEF IInv, TypeOK, CallsAreFromThePast, BuildEvent, Call, Idle
<1>5. TokenHasOneOwner'
  BY DEF IInv, TypeOK, CounterIsLastToken, TokenHasOneOwner, BuildEvent, NoGrant
<1>6. JournalIsFenced'
  BY DEF IInv, TypeOK, CounterIsLastToken, JournalIsFenced, BuildEvent, Event, Lease
<1>7. QED
  BY <1>1, <1>2, <1>3, <1>4, <1>5, <1>6 DEF IInv

\* A process reads the clock before appending.
LEMMA CallAppendPreserves ==
  ASSUME IInv, NEW p \in Processes, CallAppend(p)
  PROVE  IInv'
<1> USE HoldersAssumption, TimeAssumption, KeysAssumption, EmptyValuesTyped
<1>1. TypeOK'
  BY DEF IInv, TypeOK, CallAppend, Lease, Call, Event, Idle
<1>2. CounterIsLastToken'
  BY DEF IInv, TypeOK, CounterIsLastToken, CallAppend, Lease, NoRow, NoGrant, Event
<1>3. GrantMirrorsRow'
  BY DEF IInv, TypeOK, CounterIsLastToken, GrantMirrorsRow, CallsAreFromThePast,
         TokenHasOneOwner, CallAppend, Lease, Call, NoRow, NoGrant
<1>4. CallsAreFromThePast'
  BY DEF IInv, TypeOK, CallsAreFromThePast, CallAppend, Call, Idle
<1>5. TokenHasOneOwner'
  BY DEF IInv, TypeOK, CounterIsLastToken, TokenHasOneOwner, CallAppend, NoGrant
<1>6. JournalIsFenced'
  BY DEF IInv, TypeOK, CounterIsLastToken, JournalIsFenced, CallAppend, Event, Lease
<1>7. QED
  BY <1>1, <1>2, <1>3, <1>4, <1>5, <1>6 DEF IInv

\* An accepted append carries the last token granted.
LEMMA AppendEventPreserves ==
  ASSUME IInv, NEW p \in Processes, AppendEvent(p)
  PROVE  IInv'
<1> DEFINE event == [token |-> grant[p].token, key |-> call[p].key]
<1>1. /\ event \in Event
      /\ event.token = counter
      /\ journal' = Append(journal, event)
      /\ call' = [call EXCEPT ![p] = Idle]
      /\ UNCHANGED <<now, row, counter, grant>>
  BY HoldersAssumption
  DEF IInv, TypeOK, CounterIsLastToken, CallsAreFromThePast, AppendEvent, Appendable,
      Owns, Return, Event
<1>2. /\ journal' \in Seq(Event) /\ Len(journal') = Len(journal) + 1
      /\ \A i \in 1..Len(journal) : journal'[i] = journal[i]
      /\ journal'[Len(journal) + 1] = event
  BY <1>1 DEF IInv, TypeOK
<1>3. TypeOK'
  BY <1>1, <1>2, EmptyValuesTyped DEF IInv, TypeOK
<1>4. CounterIsLastToken'
  BY <1>1, <1>2 DEF IInv, TypeOK, CounterIsLastToken
<1>5. GrantMirrorsRow'
  BY <1>1 DEF IInv, GrantMirrorsRow
<1>6. CallsAreFromThePast'
  BY <1>1 DEF IInv, TypeOK, CallsAreFromThePast, Call, Idle
<1>7. TokenHasOneOwner'
  BY <1>1 DEF IInv, TokenHasOneOwner
<1>8. JournalIsFenced'
  <2> SUFFICES ASSUME NEW i \in 1..Len(journal) + 1, NEW j \in 1..Len(journal) + 1, i <= j
               PROVE  journal'[i].token <= journal'[j].token
    BY <1>2 DEF JournalIsFenced
  <2>1. CASE j = Len(journal) + 1
    BY <1>1, <1>2, <2>1 DEF IInv, TypeOK, CounterIsLastToken
  <2>2. CASE j \in 1..Len(journal)
    <3>1. i \in DOMAIN journal /\ j \in DOMAIN journal
      BY <2>2 DEF IInv, TypeOK
    <3>2. journal[i].token <= journal[j].token
      BY <3>1 DEF IInv, JournalIsFenced
    <3>3. QED
      BY <1>2, <2>2, <3>1, <3>2 DEF IInv, TypeOK
  <2>3. QED
    BY <2>1, <2>2 DEF IInv, TypeOK
<1>9. QED
  BY <1>3, <1>4, <1>5, <1>6, <1>7, <1>8 DEF IInv

\* A refused append changes nothing durable.
LEMMA AppendRefusedPreserves ==
  ASSUME IInv, NEW p \in Processes, AppendRefused(p)
  PROVE  IInv'
<1> USE HoldersAssumption, TimeAssumption, KeysAssumption, EmptyValuesTyped
<1>1. TypeOK'
  BY DEF IInv, TypeOK, AppendRefused, Return, Lease, Call, Event, Idle
<1>2. CounterIsLastToken'
  BY DEF IInv, TypeOK, CounterIsLastToken, AppendRefused, Return, Lease, NoRow, NoGrant, Event
<1>3. GrantMirrorsRow'
  BY DEF IInv, TypeOK, CounterIsLastToken, GrantMirrorsRow, CallsAreFromThePast,
         TokenHasOneOwner, AppendRefused, Return, Lease, Call, NoRow, NoGrant
<1>4. CallsAreFromThePast'
  BY DEF IInv, TypeOK, CallsAreFromThePast, AppendRefused, Return, Call, Idle
<1>5. TokenHasOneOwner'
  BY DEF IInv, TypeOK, CounterIsLastToken, TokenHasOneOwner, AppendRefused, NoGrant
<1>6. JournalIsFenced'
  BY DEF IInv, TypeOK, CounterIsLastToken, JournalIsFenced, AppendRefused, Event, Lease
<1>7. QED
  BY <1>1, <1>2, <1>3, <1>4, <1>5, <1>6 DEF IInv

\* A crash forgets a grant.
LEMMA CrashPreserves ==
  ASSUME IInv, NEW p \in Processes, Crash(p)
  PROVE  IInv'
<1> USE HoldersAssumption, TimeAssumption, KeysAssumption, EmptyValuesTyped
<1>1. TypeOK'
  BY DEF IInv, TypeOK, Crash, Return, Lease, Call, Event, Idle
<1>2. CounterIsLastToken'
  BY DEF IInv, TypeOK, CounterIsLastToken, Crash, Return, Lease, NoRow, NoGrant, Event
<1>3. GrantMirrorsRow'
  BY DEF IInv, TypeOK, CounterIsLastToken, GrantMirrorsRow, CallsAreFromThePast,
         TokenHasOneOwner, Crash, Return, Lease, Call, NoRow, NoGrant
<1>4. CallsAreFromThePast'
  BY DEF IInv, TypeOK, CallsAreFromThePast, Crash, Return, Call, Idle
<1>5. TokenHasOneOwner'
  BY DEF IInv, TypeOK, CounterIsLastToken, TokenHasOneOwner, Crash, NoGrant
<1>6. JournalIsFenced'
  BY DEF IInv, TypeOK, CounterIsLastToken, JournalIsFenced, Crash, Event, Lease
<1>7. QED
  BY <1>1, <1>2, <1>3, <1>4, <1>5, <1>6 DEF IInv

\* The clock only moves away from the expiry of a grant.
LEMMA TickPreserves == ASSUME IInv, Tick PROVE IInv'
BY TimeAssumption
DEF IInv, TypeOK, CounterIsLastToken, GrantMirrorsRow, CallsAreFromThePast,
    TokenHasOneOwner, JournalIsFenced, Tick, Lease, Call

\* Stuttering changes nothing.
LEMMA StutterPreserves == ASSUME IInv, UNCHANGED vars PROVE IInv'
BY DEF IInv, TypeOK, CounterIsLastToken, GrantMirrorsRow, CallsAreFromThePast,
       TokenHasOneOwner, JournalIsFenced, vars

\* IInv is inductive.
LEMMA NextPreserves == IInv /\ [Next]_vars => IInv'
<1> SUFFICES ASSUME IInv, [Next]_vars PROVE IInv'
  OBVIOUS
<1>1. CASE Tick
  BY <1>1, TickPreserves
<1>2. CASE UNCHANGED vars
  BY <1>2, StutterPreserves
<1>3. ASSUME NEW p \in Processes, LeaseStep(p) PROVE IInv'
  BY <1>3, CallAcquirePreserves, AcquirePreserves, AcquireRefusedPreserves,
     CallRenewPreserves, RenewPreserves, RenewRefusedPreserves, ReleasePreserves
  DEF LeaseStep
<1>4. ASSUME NEW p \in Processes, AppendStep(p) PROVE IInv'
  BY <1>4, BuildEventPreserves, CallAppendPreserves, AppendEventPreserves,
     AppendRefusedPreserves DEF AppendStep
<1>5. ASSUME NEW p \in Processes, Crash(p) PROVE IInv'
  BY <1>5, CrashPreserves
<1>6. QED
  BY <1>1, <1>2, <1>3, <1>4, <1>5 DEF Next

-----------------------------------------------------------------------------
(* The theorems. *)

\* The inductive invariant holds in every reachable state of the store.
THEOREM Invariance == Spec => []IInv
BY InitInv, NextPreserves, PTL DEF Spec

\* The variables of the store have their types.
THEOREM TypeCorrectness == Spec => []TypeOK
<1>1. IInv => TypeOK
  BY DEF IInv
<1>2. QED
  BY <1>1, Invariance, PTL

\* A fencing token belongs to one grant for ever.
THEOREM TokensAreUnique == Spec => []TokenHasOneOwner
<1>1. IInv => TokenHasOneOwner
  BY DEF IInv
<1>2. QED
  BY <1>1, Invariance, PTL

\* The tokens of the journal never go back: a replaced owner never writes again.
THEOREM FencingHolds == Spec => []JournalIsFenced
<1>1. IInv => JournalIsFenced
  BY DEF IInv
<1>2. QED
  BY <1>1, Invariance, PTL

\* While a grant has not expired by the machine's clock, its holder owns the run.
THEOREM GrantIsOwnership == Spec => []LiveGrantIsOwner
<1>1. IInv => LiveGrantIsOwner
  BY DEF IInv, TypeOK, GrantMirrorsRow, LiveGrantIsOwner
<1>2. QED
  BY <1>1, Invariance, PTL

-----------------------------------------------------------------------------
(* Every step of the store is a step of the fenced log or leaves it unchanged. *)

\* Appending an event appends its token to the abstract log.
LEMMA TokensOfAppend ==
  ASSUME NEW s \in Seq(Event), NEW e \in Event
  PROVE  [i \in DOMAIN Append(s, e) |-> Append(s, e)[i].token]
            = Append([i \in DOMAIN s |-> s[i].token], e.token)
<1> DEFINE tokens == [i \in DOMAIN s |-> s[i].token]
           longer == [i \in DOMAIN Append(s, e) |-> Append(s, e)[i].token]
<1> HIDE DEF tokens, longer
<1>1. /\ Append(s, e) \in Seq(Event) /\ Len(Append(s, e)) = Len(s) + 1
      /\ DOMAIN s = 1..Len(s) /\ DOMAIN Append(s, e) = 1..Len(s) + 1
      /\ Len(s) \in Nat
  OBVIOUS
<1>2. tokens \in Seq(Nat) /\ Len(tokens) = Len(s)
  <2>1. \A i \in 1..Len(s) : s[i].token \in Nat
    <3>1. \A i \in 1..Len(s) : s[i] \in Event
      BY ElementOfSeq
    <3>2. QED
      BY <3>1 DEF Event
  <2>2. tokens \in [1..Len(s) -> Nat]
    BY <1>1, <2>1 DEF tokens
  <2>3. QED
    BY <2>2, SeqDef
<1>3. longer \in Seq(Nat) /\ Len(longer) = Len(s) + 1
  <2>1. \A i \in 1..Len(s) + 1 : Append(s, e)[i].token \in Nat
    <3>1. \A i \in 1..Len(s) + 1 : Append(s, e)[i] \in Event
      BY <1>1, ElementOfSeq
    <3>2. QED
      BY <3>1 DEF Event
  <2>2. longer \in [1..Len(s) + 1 -> Nat]
    BY <1>1, <2>1 DEF longer
  <2>3. QED
    BY <2>2, SeqDef
<1>4. e.token \in Nat
  BY DEF Event
<1>5. Append(tokens, e.token) \in Seq(Nat) /\ Len(Append(tokens, e.token)) = Len(s) + 1
  BY <1>2, <1>4
<1>6. ASSUME NEW i \in 1..Len(s) + 1 PROVE longer[i] = Append(tokens, e.token)[i]
  <2>1. longer[i] = Append(s, e)[i].token
    BY <1>1 DEF longer
  <2>2. CASE i = Len(s) + 1
    BY <1>2, <1>4, <2>1, <2>2
  <2>3. CASE i \in 1..Len(s)
    <3>1. tokens[i] = s[i].token
      BY <1>1, <2>3 DEF tokens
    <3>2. QED
      BY <1>2, <1>4, <2>1, <2>3, <3>1
  <2>4. i = Len(s) + 1 \/ i \in 1..Len(s)
    BY <1>1
  <2>5. QED
    BY <2>2, <2>3, <2>4
<1>7. longer = Append(tokens, e.token)
  BY <1>3, <1>5, <1>6, SeqEqual
<1>8. QED
  BY <1>7 DEF longer, tokens

\* A grant opens the next epoch, a release yields it, an append writes as the
\* owner; calls, refusals, renewals, crashes and the clock are invisible.
LEMMA NextFenced == IInv /\ [Next]_vars => [Fenced!Next]_(Fenced!vars)
<1> SUFFICES ASSUME IInv, [Next]_vars PROVE [Fenced!Next]_(Fenced!vars)
  OBVIOUS
<1>1. ASSUME NEW p \in Processes, Acquire(p) PROVE Fenced!Grant
  BY <1>1 DEF Acquire, Fenced!Grant
<1>2. ASSUME NEW p \in Processes, Release(p) PROVE [Fenced!Yield]_(Fenced!vars)
  BY <1>2 DEF Release, NoRow, Fenced!Yield, Fenced!vars
<1>3. ASSUME NEW p \in Processes, AppendEvent(p) PROVE Fenced!Write
  <2>1. grant[p].token = row.token /\ row.token # 0
    BY <1>3, HoldersAssumption
    DEF AppendEvent, Appendable, Owns, IInv, CounterIsLastToken
  <2>2. [token |-> grant[p].token, key |-> call[p].key] \in Event
    BY <1>3 DEF AppendEvent, IInv, TypeOK, CallsAreFromThePast, Event
  <2>3. QED
    BY <1>3, <2>1, <2>2, TokensOfAppend DEF AppendEvent, IInv, TypeOK, Fenced!Write
<1>4. CASE Tick \/ UNCHANGED vars
  BY <1>4 DEF Tick, vars, Fenced!vars
<1>5. ASSUME NEW p \in Processes,
             \/ CallAcquire(p) \/ AcquireRefused(p) \/ CallRenew(p) \/ RenewRefused(p)
             \/ CallAppend(p) \/ AppendRefused(p) \/ Crash(p)
             \/ \E key \in Keys : BuildEvent(p, key)
      PROVE  UNCHANGED Fenced!vars
  BY <1>5 DEF CallAcquire, AcquireRefused, CallRenew, RenewRefused, CallAppend,
              AppendRefused, Crash, BuildEvent, Fenced!vars
<1>6. ASSUME NEW p \in Processes, Renew(p) PROVE UNCHANGED Fenced!vars
  BY <1>6 DEF Renew, IInv, TypeOK, Lease, Fenced!vars
<1>7. QED
  BY <1>1, <1>2, <1>3, <1>4, <1>5, <1>6
  DEF Next, LeaseStep, AppendStep, Fenced!Next

\* The store implements the fenced log.
THEOREM Refinement == Spec => ImplementsFencedLog
<1>1. Init => Fenced!Init
  BY DEF Init, NoRow, Fenced!Init
<1>2. IInv /\ [Next]_vars => [Fenced!Next]_(Fenced!vars)
  BY NextFenced
<1>3. QED
  BY <1>1, <1>2, Invariance, PTL DEF Spec, ImplementsFencedLog, Fenced!Spec
=============================================================================
