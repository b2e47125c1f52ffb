------------------------------ MODULE RunStore ------------------------------
(***************************************************************************)
(* The leases and the journal of one run in packages/storage/src/          *)
(* sqlite-run-store.ts, used by several operating-system processes that    *)
(* open the same database file.                                            *)
(*                                                                         *)
(* Every method reads the clock and then runs one BEGIN IMMEDIATE          *)
(* transaction; a process can be descheduled between the two, so a call is *)
(* two steps: the first leaves what the caller read (the clock, the        *)
(* revision the event extends) in call[p], the second is the transaction.  *)
(* A process may crash at any moment and lose its grant, and the answer of *)
(* a transaction that did commit; it may then come back under the same     *)
(* holder id.  Processes of one operator share a holder id.                *)
(*                                                                         *)
(* An operator marked Mutant is a mistake one could make in the definition *)
(* that follows it, kept to show which property notices it.                *)
(***************************************************************************)
EXTENDS Naturals, Sequences

CONSTANTS
    Processes,    \* processes that open the store
    Holders,      \* lease holder ids
    HolderOf,     \* the holder id each process acquires under
    Keys,         \* idempotency keys
    None,         \* no holder, no key
    TTL,          \* lease time to live
    MaxTime,      \* bound: the clock
    MaxToken      \* bound: fencing tokens granted

ASSUME HoldersAssumption == HolderOf \in [Processes -> Holders] /\ None \notin Holders
ASSUME KeysAssumption == None \notin Keys
ASSUME TimeAssumption == TTL \in Nat \ {0} /\ MaxTime \in Nat /\ MaxToken \in Nat

VARIABLES
    now,        \* the wall clock of the machine
    row,        \* the run's row of run_leases, NoRow if there is none
    counter,    \* the run's row of run_lease_counters, 0 if there is none
    journal,    \* the run's rows of run_events, in order of seq
    grant,      \* the LeaseGrant each process holds in memory
    call        \* the call each process is in

vars == <<now, row, counter, journal, grant, call>>

NoRow == [holder |-> None, token |-> 0, expires |-> 0]
NoGrant == [token |-> 0, expires |-> 0]
Idle == [op |-> "idle", at |-> 0, expected |-> 0, key |-> None]

Lease == [holder : Holders \union {None}, token : Nat, expires : Nat]
Event == [token : Nat, key : Keys]
Call == [op : {"idle", "acquire", "renew", "event", "append"},
         at : Nat, expected : Nat, key : Keys \union {None}]

TypeOK ==
    /\ now \in Nat
    /\ row \in Lease
    /\ counter \in Nat
    /\ journal \in Seq(Event)
    /\ grant \in [Processes -> [token : Nat, expires : Nat]]
    /\ call \in [Processes -> Call]

Init ==
    /\ now = 0
    /\ row = NoRow
    /\ counter = 0
    /\ journal = <<>>
    /\ grant = [p \in Processes |-> NoGrant]
    /\ call = [p \in Processes |-> Idle]

-----------------------------------------------------------------------------
\* Mutant: the holder id identifies the owner.
OwnsByHolder(p, t) ==
    /\ row.holder = HolderOf[p]
    /\ row.expires > t

\* Calls that took the clock at time t find the row of process p still valid.
Owns(p, t) ==
    /\ row.holder = HolderOf[p]
    /\ row.token = grant[p].token
    /\ row.expires > t

Return(p) == call' = [call EXCEPT ![p] = Idle]

CallAcquire(p) ==
    /\ call[p] = Idle
    /\ call' = [call EXCEPT ![p] = [Idle EXCEPT !.op = "acquire", !.at = now]]
    /\ UNCHANGED <<now, row, counter, journal, grant>>

\* Mutant: the token is the successor of the row's, without a counter of its own.
AcquireCountsRows(p) ==
    /\ call[p].op = "acquire"
    /\ row.expires <= call[p].at
    /\ counter < MaxToken
    /\ counter' = row.token + 1
    /\ row' = [holder |-> HolderOf[p], token |-> counter', expires |-> call[p].at + TTL]
    /\ grant' = [grant EXCEPT ![p] = [token |-> counter', expires |-> row'.expires]]
    /\ Return(p)
    /\ UNCHANGED <<now, journal>>

\* Mutant: a live row is taken over too.
AcquireSteals(p) ==
    /\ call[p].op = "acquire"
    /\ counter < MaxToken
    /\ counter' = counter + 1
    /\ row' = [holder |-> HolderOf[p], token |-> counter', expires |-> call[p].at + TTL]
    /\ grant' = [grant EXCEPT ![p] = [token |-> counter', expires |-> row'.expires]]
    /\ Return(p)
    /\ UNCHANGED <<now, journal>>

\* The expired row is replaced in the transaction that advances the counter.
Acquire(p) ==
    /\ call[p].op = "acquire"
    /\ row.expires <= call[p].at
    /\ counter < MaxToken
    /\ counter' = counter + 1
    /\ row' = [holder |-> HolderOf[p], token |-> counter', expires |-> call[p].at + TTL]
    /\ grant' = [grant EXCEPT ![p] = [token |-> counter', expires |-> row'.expires]]
    /\ Return(p)
    /\ UNCHANGED <<now, journal>>

\* acquire returns null: the row is still live.
AcquireRefused(p) ==
    /\ call[p].op = "acquire"
    /\ row.expires > call[p].at
    /\ Return(p)
    /\ UNCHANGED <<now, row, counter, journal, grant>>

CallRenew(p) ==
    /\ call[p] = Idle
    /\ grant[p] # NoGrant
    /\ call' = [call EXCEPT ![p] = [Idle EXCEPT !.op = "renew", !.at = now]]
    /\ UNCHANGED <<now, row, counter, journal, grant>>

Renew(p) ==
    /\ call[p].op = "renew"
    /\ Owns(p, call[p].at)
    /\ row' = [row EXCEPT !.expires = call[p].at + TTL]
    /\ grant' = [grant EXCEPT ![p].expires = row'.expires]
    /\ Return(p)
    /\ UNCHANGED <<now, counter, journal>>

\* renew returns null: the caller keeps its grant and learns it is fenced.
RenewRefused(p) ==
    /\ call[p].op = "renew"
    /\ ~Owns(p, call[p].at)
    /\ Return(p)
    /\ UNCHANGED <<now, row, counter, journal, grant>>

\* release runs without reading the clock; the caller is done with the grant.
Release(p) ==
    /\ call[p] = Idle
    /\ grant[p] # NoGrant
    /\ row' = IF row.holder = HolderOf[p] /\ row.token = grant[p].token
              THEN NoRow ELSE row
    /\ grant' = [grant EXCEPT ![p] = NoGrant]
    /\ UNCHANGED <<now, counter, journal, call>>

\* The caller reads the journal and builds the event that extends it.
BuildEvent(p, key) ==
    /\ call[p] = Idle
    /\ grant[p] # NoGrant
    /\ call' = [call EXCEPT ![p] = [op |-> "event", at |-> 0,
                                     expected |-> Len(journal), key |-> key]]
    /\ UNCHANGED <<now, row, counter, journal, grant>>

CallAppend(p) ==
    /\ call[p].op = "event"
    /\ call' = [call EXCEPT ![p].op = "append", ![p].at = now]
    /\ UNCHANGED <<now, row, counter, journal, grant>>

\* Mutant: the revision check is taken to be fence enough.
AppendableByRevision(p) ==
    /\ \A i \in DOMAIN journal : journal[i].key # call[p].key
    /\ call[p].expected = Len(journal)

Appendable(p) ==
    /\ Owns(p, call[p].at)
    /\ \A i \in DOMAIN journal : journal[i].key # call[p].key
    /\ call[p].expected = Len(journal)

AppendEvent(p) ==
    /\ call[p].op = "append"
    /\ Appendable(p)
    /\ journal' = Append(journal, [token |-> grant[p].token, key |-> call[p].key])
    /\ Return(p)
    /\ UNCHANGED <<now, row, counter, grant>>

\* FENCED, IDEMPOTENCY_COLLISION, STALE_REVISION, or an event the reducer
\* refuses: the transaction is rolled back.
AppendRefused(p) ==
    /\ call[p].op = "append"
    /\ Return(p)
    /\ UNCHANGED <<now, row, counter, journal, grant>>

\* The process dies between two steps, possibly right after a commit.
Crash(p) ==
    /\ grant' = [grant EXCEPT ![p] = NoGrant]
    /\ Return(p)
    /\ UNCHANGED <<now, row, counter, journal>>

Tick ==
    /\ now < MaxTime
    /\ now' = now + 1
    /\ UNCHANGED <<row, counter, journal, grant, call>>

-----------------------------------------------------------------------------
LeaseStep(p) ==
    \/ CallAcquire(p)
    \/ Acquire(p)
    \/ AcquireRefused(p)
    \/ CallRenew(p)
    \/ Renew(p)
    \/ RenewRefused(p)
    \/ Release(p)

AppendStep(p) ==
    \/ \E key \in Keys : BuildEvent(p, key)
    \/ CallAppend(p)
    \/ AppendEvent(p)
    \/ AppendRefused(p)

Next ==
    \/ \E p \in Processes : LeaseStep(p) \/ AppendStep(p) \/ Crash(p)
    \/ Tick

Spec == Init /\ [][Next]_vars

-----------------------------------------------------------------------------
\* A fencing token belongs to one grant for ever: no two processes hold the
\* same one, even when they share a holder id and the row was released.
TokenHasOneOwner ==
    \A p, q \in Processes :
        p # q /\ grant[p].token # 0 => grant[p].token # grant[q].token

\* Once an event of a later grant is in the journal, no event of an earlier
\* grant follows it, however late the earlier owner's transaction runs.
JournalIsFenced ==
    \A i, j \in DOMAIN journal : i <= j => journal[i].token <= journal[j].token

\* While a process may believe its grant is alive, nobody has taken over: the
\* run's row still carries its token.
LiveGrantIsOwner ==
    \A p \in Processes :
        grant[p].expires > now =>
            row.token = grant[p].token /\ row.holder = HolderOf[p]

Fenced == INSTANCE FencedLog WITH
    epoch <- counter,
    owner <- row.token,
    log <- [i \in DOMAIN journal |-> journal[i].token]

\* The store implements the fenced log under every interleaving of calls,
\* crashes and expiries.
ImplementsFencedLog == Fenced!Spec

-----------------------------------------------------------------------------
(* The strengthening that makes the safety properties inductive. *)

\* The counter outlives every row and bounds every token in use; a row in the
\* table always carries the last token granted.
CounterIsLastToken ==
    /\ row.token \in {0, counter}
    /\ row.token = 0 <=> row.holder = None
    /\ \A p \in Processes : grant[p].token <= counter
    /\ \A i \in DOMAIN journal : journal[i].token <= counter

\* A grant in memory either mirrors the row or has expired: the row can only be
\* replaced by a transaction whose clock had passed the grant's expiry.
GrantMirrorsRow ==
    \A p \in Processes :
        IF grant[p].token = 0 THEN grant[p].expires = 0
        ELSE IF row.token = grant[p].token
             THEN row.holder = HolderOf[p] /\ row.expires = grant[p].expires
             ELSE grant[p].expires <= now

\* The clock a call read is never ahead of the machine's, and the event of an
\* append has a key.
CallsAreFromThePast ==
    \A p \in Processes :
        /\ call[p].at <= now
        /\ call[p].op \in {"event", "append"} => call[p].key \in Keys

\* The inductive invariant.
IInv ==
    /\ TypeOK
    /\ CounterIsLastToken
    /\ GrantMirrorsRow
    /\ CallsAreFromThePast
    /\ TokenHasOneOwner
    /\ JournalIsFenced
=============================================================================
