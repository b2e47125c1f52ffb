--------------------------- MODULE SchemaMigration --------------------------
(***************************************************************************)
(* packages/storage/src/sqlite-run-store.ts: opening a database that an    *)
(* older program wrote.  Every process that opens a SqliteRunStore reads   *)
(* the schema version once, outside any transaction, and then runs the     *)
(* migrations that version calls for, each in a transaction of its own.    *)
(* Several processes open the file at once, crash inside a transaction and *)
(* open it again.                                                          *)
(*                                                                         *)
(* A row of the journal is abstracted to what a migration decides by:      *)
(* whether it is the run.created event, and which graph it needs to be     *)
(* replayed.  Mutant: a mistake in the definition that follows.            *)
(***************************************************************************)
EXTENDS Naturals, Sequences, FiniteSets

CONSTANTS
    Processes,     \* processes that open the database
    Runs,          \* run ids
    OldStreams,    \* what an older program left of a run
    MaxEvents,     \* bound: events of a run
    MaxCrashes,    \* bound: crashes
    Nobody         \* no process holds the write lock

ASSUME NobodyAssumption == Nobody \notin Processes

\* The graph a row carries (run.created) or needs (every other event).
\* "reference": a workflowRef, no graph at all; "legacy": the one-node graph
\* made from it; "own": the graph of a LoopSpec or of the old program;
\* "any": a lease or a pause, which replays under every graph; "corrupt": the
\* row is not a valid event in either schema.
Row(id, created, graph) == [id |-> id, created |-> created, graph |-> graph]
Graphs == {"reference", "legacy", "own", "any", "corrupt"}
Rows == [id : Runs \X (1..MaxEvents), created : BOOLEAN, graph : Graphs]

\* Only the migrations below make a graph out of a reference.
ASSUME OldStreamsAssumption ==
    \A s \in OldStreams : /\ s \in Seq([created : BOOLEAN, graph : Graphs \ {"legacy"}])
                          /\ Len(s) <= MaxEvents
ASSUME BoundsAssumption == MaxEvents \in Nat /\ MaxCrashes \in Nat

Fresh == 0         \* no loopgraph_schema row
SchemaVersion == 3
Newer == 4         \* written by a later program

VARIABLES
    version,     \* loopgraph_schema
    eventIds,    \* run_events has the UNIQUE column event_id
    journal,     \* run -> its rows by seq
    checkpoint,  \* run -> the schema its checkpoint was written under
    lock,        \* the process inside BEGIN IMMEDIATE
    opening,     \* process -> how far its constructor is, the version it read
    crashes

vars == <<version, eventIds, journal, checkpoint, lock, opening, crashes>>

Opening(stage, seen) == [stage |-> stage, seen |-> seen]
Closed == Opening("closed", Fresh)
Opened(seen) == Opening("opened", seen)
Migrating(seen) == Opening("migrating", seen)
Ready == Opening("ready", SchemaVersion)

TypeOK ==
    /\ version \in Fresh..Newer
    /\ eventIds \in BOOLEAN
    /\ journal \in [Runs -> Seq(Rows)]
    /\ checkpoint \in [Runs -> {"none", "old", "current"}]
    /\ lock \in Processes \union {Nobody}
    /\ opening \in [Processes -> [stage : {"closed", "opened", "migrating", "ready"},
                                  seen : Fresh..Newer]]
    /\ \A p \in Processes : lock = p <=> opening[p].stage = "migrating"
    /\ crashes \in 0..MaxCrashes

AllRows == UNION {{journal[r][i] : i \in 1..Len(journal[r])} : r \in Runs}
\* No two rows of the journal have one event id.
DistinctIds == \A r, q \in Runs : \A i \in 1..Len(journal[r]), j \in 1..Len(journal[q]) :
    journal[r][i].id = journal[q][j].id => r = q /\ i = j

\* Rows as an older program wrote them.  Only version 1 could repeat an id:
\* version 2 declares the column UNIQUE.
OldJournal(streams, repeated) ==
    [r \in Runs |-> [i \in 1..Len(streams[r]) |->
        Row(IF repeated THEN <<CHOOSE q \in Runs : TRUE, 1>> ELSE <<r, i>>,
            streams[r][i].created, streams[r][i].graph)]]

\* upgradeLegacyCreatedEvent: a workflow reference becomes the one-node graph,
\* everything else is left as it is.
UpgradedRow(row) ==
    IF row.created /\ row.graph = "reference" THEN [row EXCEPT !.graph = "legacy"] ELSE row
Upgraded(stream) == [i \in 1..Len(stream) |-> UpgradedRow(stream[i])]

\* isValidRunEvent of every row, and reduce of the stream.
Replays(stream) ==
    stream # <<>> =>
        /\ stream[1].created /\ stream[1].graph \in {"legacy", "own"}
        /\ \A i \in 2..Len(stream) :
               ~stream[i].created /\ stream[i].graph \in {"any", stream[1].graph}

Init ==
    /\ version \in Fresh..Newer
    /\ eventIds = (version # 1)
    /\ \E streams \in [Runs -> OldStreams], repeated \in BOOLEAN :
           /\ repeated => version = 1
           /\ version = Fresh => \A r \in Runs : streams[r] = <<>>
           /\ journal = OldJournal(streams, repeated)
    /\ version = SchemaVersion => \A r \in Runs : Replays(journal[r])
    /\ checkpoint = [r \in Runs |-> IF version \in {1, 2} /\ journal[r] # <<>> THEN "old" ELSE "none"]
    /\ lock = Nobody
    /\ opening = [p \in Processes |-> Closed]
    /\ crashes = 0

-----------------------------------------------------------------------------
\* What both migrations find out before they write anything.
MigratableRows == \A r \in Runs : Replays(Upgraded(journal[r]))
V1Migrates == ~eventIds /\ MigratableRows /\ DistinctIds
\* Mutant: the upgraded streams are not replayed before they are written.
V2MigratesUnreplayed == eventIds /\ \A r \in Runs : \A i \in 1..Len(journal[r]) :
                            UpgradedRow(journal[r][i]).graph \notin {"reference", "corrupt"}
V2Migrates == eventIds /\ MigratableRows

-----------------------------------------------------------------------------
\* DatabaseSync opens the file; the schema row is there or is inserted, and
\* the version is read.  With the lock held elsewhere the insert throws, and
\* nothing happened.
Open(p) ==
    /\ opening[p] = Closed /\ lock = Nobody
    /\ version' = IF version = Fresh THEN SchemaVersion ELSE version
    /\ opening' = [opening EXCEPT ![p] = Opened(version')]
    /\ UNCHANGED <<eventIds, journal, checkpoint, lock, crashes>>

Begin(p) ==
    /\ opening[p] \in {Opened(1), Opened(2)} /\ lock = Nobody
    /\ lock' = p
    /\ opening' = [opening EXCEPT ![p] = Migrating(opening[p].seen)]
    /\ UNCHANGED <<version, eventIds, journal, checkpoint, crashes>>

\* BEGIN IMMEDIATE with the lock held elsewhere throws; the store is closed.
BeginBusy(p) ==
    /\ opening[p] \in {Opened(1), Opened(2)} /\ lock # Nobody
    /\ opening' = [opening EXCEPT ![p] = Closed]
    /\ UNCHANGED <<version, eventIds, journal, checkpoint, lock, crashes>>

\* Mutant: the rebuilt table takes only the events that create a run.
CommitV1DropsProgressed(p) ==
    /\ opening[p] = Migrating(1) /\ V1Migrates
    /\ journal' = [r \in Runs |-> SelectSeq(Upgraded(journal[r]), LAMBDA row : row.created)]
    /\ eventIds' = TRUE
    /\ version' = 2
    /\ lock' = Nobody
    /\ opening' = [opening EXCEPT ![p] = Opened(2)]
    /\ UNCHANGED <<checkpoint, crashes>>

\* Mutant: the version is left for the next migration to write.
CommitV1LeavesVersion(p) ==
    /\ opening[p] = Migrating(1) /\ V1Migrates
    /\ journal' = [r \in Runs |-> Upgraded(journal[r])]
    /\ eventIds' = TRUE
    /\ lock' = Nobody
    /\ opening' = [opening EXCEPT ![p] = Opened(2)]
    /\ UNCHANGED <<version, checkpoint, crashes>>

\* #migrateV1ToV2: the table is rebuilt with the ids, and upgraded already.
CommitV1(p) ==
    /\ opening[p] = Migrating(1) /\ V1Migrates
    /\ journal' = [r \in Runs |-> Upgraded(journal[r])]
    /\ eventIds' = TRUE
    /\ version' = 2
    /\ lock' = Nobody
    /\ opening' = [opening EXCEPT ![p] = Opened(2)]
    /\ UNCHANGED <<checkpoint, crashes>>

\* #migrateV2ToV3.  The version may be 3 by now, with events and checkpoints
\* of stores that are open: the process goes by the version it read.
CommitV2(p) ==
    /\ opening[p] = Migrating(2) /\ V2Migrates
    /\ journal' = [r \in Runs |-> Upgraded(journal[r])]
    /\ checkpoint' = [r \in Runs |-> "none"]
    /\ version' = SchemaVersion
    /\ lock' = Nobody
    /\ opening' = [opening EXCEPT ![p] = Opened(SchemaVersion)]
    /\ UNCHANGED <<eventIds, crashes>>

\* Mutant: what was upgraded before the offending row stays upgraded.
RefuseWithoutRollback(p) ==
    /\ \/ opening[p] = Migrating(1) /\ ~V1Migrates
       \/ opening[p] = Migrating(2) /\ ~V2Migrates
    /\ journal' = [r \in Runs |-> IF Replays(Upgraded(journal[r])) THEN Upgraded(journal[r])
                                  ELSE journal[r]]
    /\ lock' = Nobody
    /\ opening' = [opening EXCEPT ![p] = Closed]
    /\ UNCHANGED <<version, eventIds, checkpoint, crashes>>

\* A check fails: ROLLBACK, and the constructor closes the file and throws.
Refuse(p) ==
    /\ \/ opening[p] = Migrating(1) /\ ~V1Migrates
       \/ opening[p] = Migrating(2) /\ ~V2Migrates
    /\ lock' = Nobody
    /\ opening' = [opening EXCEPT ![p] = Closed]
    /\ UNCHANGED <<version, eventIds, journal, checkpoint, crashes>>

\* A version this program does not know.
RefuseVersion(p) ==
    /\ opening[p] = Opened(Newer)
    /\ opening' = [opening EXCEPT ![p] = Closed]
    /\ UNCHANGED <<version, eventIds, journal, checkpoint, lock, crashes>>

\* Every other table is there or is created; the constructor returns.
CreateTables(p) ==
    /\ opening[p] = Opened(SchemaVersion)
    /\ opening' = [opening EXCEPT ![p] = Ready]
    /\ UNCHANGED <<version, eventIds, journal, checkpoint, lock, crashes>>

-----------------------------------------------------------------------------
\* An open store works on: append replays the stream with the event before it
\* inserts it, and event ids are new.
AppendEvent(p, r, row) ==
    /\ opening[p] = Ready /\ lock = Nobody
    /\ Len(journal[r]) < MaxEvents
    /\ \A there \in AllRows : there.id # row.id
    /\ Replays(Append(journal[r], row))
    /\ journal' = [journal EXCEPT ![r] = Append(journal[r], row)]
    /\ UNCHANGED <<version, eventIds, checkpoint, lock, opening, crashes>>

SaveCheckpoint(p, r) ==
    /\ opening[p] = Ready /\ lock = Nobody
    /\ journal[r] # <<>>
    /\ checkpoint' = [checkpoint EXCEPT ![r] = "current"]
    /\ UNCHANGED <<version, eventIds, journal, lock, opening, crashes>>

\* The process dies; a transaction it was in is rolled back.
Crash(p) ==
    /\ opening[p] # Closed /\ crashes < MaxCrashes
    /\ opening' = [opening EXCEPT ![p] = Closed]
    /\ lock' = IF lock = p THEN Nobody ELSE lock
    /\ crashes' = crashes + 1
    /\ UNCHANGED <<version, eventIds, journal, checkpoint>>

\* One pass through #initialize.
Initialize(p) ==
    \/ Open(p) \/ Begin(p) \/ BeginBusy(p) \/ CommitV1(p) \/ CommitV2(p)
    \/ Refuse(p) \/ RefuseVersion(p) \/ CreateTables(p)

Next ==
    \E p \in Processes :
        \/ Initialize(p) \/ Crash(p)
        \/ \E r \in Runs :
               \/ SaveCheckpoint(p, r)
               \/ \E created \in BOOLEAN, graph \in Graphs :
                      AppendEvent(p, r, Row(<<r, Len(journal[r]) + 1>>, created, graph))

Spec == Init /\ [][Next]_vars

\* The code of a constructor runs on, and whoever could not open tries again.
Fairness == \A p \in Processes : WF_vars(Initialize(p))

FairSpec == Spec /\ Fairness

-----------------------------------------------------------------------------
\* The database can be brought to version 3 without inventing anything.
Migratable == version # Newer /\ MigratableRows /\ DistinctIds

\* A store that is open works on a journal of this schema, every stream of
\* which replays, and never finds a checkpoint of an older schema; whoever else
\* is still migrating behind a version it read earlier.
OpenedIsCurrent ==
    \A p \in Processes : opening[p] = Ready =>
        /\ version = SchemaVersion /\ eventIds
        /\ \A r \in Runs : Replays(journal[r]) /\ checkpoint[r] # "old"

\* One stream that cannot be migrated keeps every stream of the database as
\* it was, and the store shut: no half of a database is ever upgraded.
FailsClosed ==
    ~Migratable =>
        /\ \A row \in AllRows : row.graph # "legacy"
        /\ \A p \in Processes : opening[p] # Ready

\* No event is lost, moved or replaced by a migration, a crash in one or two of
\* them at once: the only change to a row is that a run.created event gets the
\* graph it had none of.
JournalKept ==
    [][\A r \in Runs :
           /\ Len(journal[r]) <= Len(journal'[r])
           /\ \A i \in 1..Len(journal[r]) :
                  journal'[r][i] \in {journal[r][i], UpgradedRow(journal[r][i])}]_vars

\* What the comment above upgradeLegacyCreatedEvent and ADR 002 say: only an
\* untouched run is given a graph, a progressed one fails closed.
OnlyUntouchedRunsUpgraded ==
    [][\A r \in Runs : Len(journal[r]) > 1 => journal'[r][1] = journal[r][1]]_vars

\* Nothing but the run.created event of a run that needs a graph made for it.
LegacyUntouched ==
    \A r \in Runs : journal[r] # <<>> /\ journal[r][1].graph = "reference" => Len(journal[r]) = 1

\* A database the comment above upgradeLegacyCreatedEvent promises to migrate is
\* opened by everybody who keeps trying: losing a race, or a crash inside a
\* migration, locks nobody out.  Nothing is claimed of a database an older
\* program left with a progressed legacy run (OnlyUntouchedRunsUpgraded).
MigratableOpens ==
    LegacyUntouched => \A p \in Processes : Migratable ~> opening[p] = Ready

-----------------------------------------------------------------------------
(* The strengthening that makes the safety properties inductive. *)

\* What a process read is a version the database had and has not fallen behind;
\* a version this program does not know is never left, nor come to.
VersionRead ==
    \A p \in Processes :
        /\ opening[p].stage = "closed" => opening[p] = Closed
        /\ opening[p].stage = "migrating" => opening[p].seen \in {1, 2}
        /\ opening[p].stage = "ready" => opening[p].seen = SchemaVersion
        /\ opening[p].stage # "closed" =>
               /\ opening[p].seen \in 1..version
               /\ opening[p].seen = Newer <=> version = Newer

\* What the version says of the tables and the rows.
VersionHolds ==
    /\ eventIds <=> version # 1
    /\ version # 1 => DistinctIds
    /\ version \notin {1, 2} => \A r \in Runs : checkpoint[r] # "old"
    /\ version = Fresh => \A r \in Runs : journal[r] = <<>>
    /\ version = SchemaVersion => \A r \in Runs : Replays(journal[r])

\* A graph was made from a reference only where every stream could be migrated.
LegacyIsMigratable == ~Migratable => \A row \in AllRows : row.graph # "legacy"

\* The inductive invariant.
IInv ==
    /\ TypeOK
    /\ VersionRead
    /\ VersionHolds
    /\ LegacyIsMigratable
=============================================================================
