----------------------- MODULE SchemaMigration_proofs -----------------------
(***************************************************************************)
(* Proofs about SchemaMigration for any number of processes, runs and      *)
(* crashes, and whatever an older program left behind: a store that is     *)
(* open works on a database of its own schema, a database that cannot be   *)
(* migrated is left as it was, and no event is lost.                       *)
(***************************************************************************)
EXTENDS SchemaMigration, TLAPS

LEMMA ElementTyped ==
  ASSUME NEW S, NEW s \in Seq(S), NEW i \in 1..Len(s)
  PROVE  s[i] \in S
OBVIOUS

LEMMA RowTyped ==
  ASSUME NEW id \in Runs \X (1..MaxEvents), NEW created \in BOOLEAN, NEW graph \in Graphs
  PROVE  /\ Row(id, created, graph) \in Rows
         /\ Row(id, created, graph).id = id /\ Row(id, created, graph).graph = graph
         /\ Row(id, created, graph).created = created
BY DEF Row, Rows

\* A migration changes the graph of a row and nothing else of it.
LEMMA UpgradedRowTyped ==
  ASSUME NEW row \in Rows
  PROVE  /\ UpgradedRow(row) \in Rows
         /\ UpgradedRow(row).id = row.id /\ UpgradedRow(row).created = row.created
         /\ UpgradedRow(UpgradedRow(row)) = UpgradedRow(row)
         /\ UpgradedRow(row).graph = "legacy" \/ UpgradedRow(row) = row
BY DEF UpgradedRow, Rows, Graphs

\* It moves no row, and an upgraded stream is its own upgrade.
LEMMA UpgradedTyped ==
  ASSUME NEW stream \in Seq(Rows)
  PROVE  /\ Upgraded(stream) \in Seq(Rows) /\ Len(Upgraded(stream)) = Len(stream)
         /\ \A i \in 1..Len(stream) : Upgraded(stream)[i] = UpgradedRow(stream[i])
         /\ Upgraded(Upgraded(stream)) = Upgraded(stream)
<1>1. \A i \in 1..Len(stream) : stream[i] \in Rows
  OBVIOUS
<1>2. \A i \in 1..Len(stream) : UpgradedRow(stream[i]) \in Rows
  BY <1>1, UpgradedRowTyped
<1>3. Upgraded(stream) \in Seq(Rows) /\ Len(Upgraded(stream)) = Len(stream)
  BY <1>2 DEF Upgraded
<1>4. \A i \in 1..Len(stream) : Upgraded(stream)[i] = UpgradedRow(stream[i])
  BY DEF Upgraded
<1>5. Upgraded(Upgraded(stream)) = Upgraded(stream)
  <2>1. Upgraded(Upgraded(stream)) = [i \in 1..Len(stream) |-> UpgradedRow(Upgraded(stream)[i])]
    BY <1>3 DEF Upgraded
  <2>2. \A i \in 1..Len(stream) : UpgradedRow(Upgraded(stream)[i]) = UpgradedRow(stream[i])
    BY <1>1, <1>4, UpgradedRowTyped
  <2>3. QED
    BY <2>1, <2>2 DEF Upgraded
<1>6. QED
  BY <1>3, <1>4, <1>5

\* A stream that replays holds no reference to upgrade.
LEMMA ReplayingIsUpgraded ==
  ASSUME NEW stream \in Seq(Rows), Replays(stream)
  PROVE  Upgraded(stream) = stream
<1>1. ASSUME NEW i \in 1..Len(stream)
      PROVE  UpgradedRow(stream[i]) = stream[i]
  <2>1. CASE i = 1
    BY <2>1 DEF Replays, UpgradedRow
  <2>2. CASE i # 1
    <3>1. i \in 2..Len(stream)
      BY <2>2
    <3>2. stream # <<>>
      OBVIOUS
    <3>3. ~stream[i].created
      BY <3>1, <3>2 DEF Replays
    <3>4. QED
      BY <3>3 DEF UpgradedRow
  <2>3. QED
    BY <2>1, <2>2
<1>2. Upgraded(stream) = [i \in 1..Len(stream) |-> stream[i]]
  BY <1>1 DEF Upgraded
<1>3. QED
  BY <1>2

\* Ids are those of the rows, which neither migration touches.
LEMMA DistinctIdsKept ==
  ASSUME TypeOK, DistinctIds, journal' = [r \in Runs |-> Upgraded(journal[r])]
  PROVE  DistinctIds'
<1>1. \A r \in Runs : journal[r] \in Seq(Rows)
  BY DEF TypeOK
<1>2. \A r \in Runs : journal'[r] = Upgraded(journal[r])
  OBVIOUS
<1>3. \A r \in Runs : /\ Len(journal'[r]) = Len(journal[r])
                      /\ \A i \in 1..Len(journal[r]) : journal'[r][i].id = journal[r][i].id
  BY <1>1, <1>2, UpgradedTyped, UpgradedRowTyped
<1>4. QED
  BY <1>3 DEF DistinctIds

-----------------------------------------------------------------------------
LEMMA InitInv == Init => IInv
<1> SUFFICES ASSUME Init PROVE IInv
  OBVIOUS
<1>1. PICK streams \in [Runs -> OldStreams], repeated \in BOOLEAN :
         /\ repeated => version = 1
         /\ version = Fresh => \A r \in Runs : streams[r] = <<>>
         /\ journal = OldJournal(streams, repeated)
  BY DEF Init
<1> DEFINE id(r, i) == IF repeated THEN <<CHOOSE q \in Runs : TRUE, 1>> ELSE <<r, i>>
           old(r) == [i \in 1..Len(streams[r]) |->
                         Row(id(r, i), streams[r][i].created, streams[r][i].graph)]
<1>0. journal = [r \in Runs |-> old(r)]
  BY <1>1 DEF OldJournal
<1>2. ASSUME NEW r \in Runs
      PROVE  /\ journal[r] \in Seq(Rows)
             /\ Len(journal[r]) = Len(streams[r])
             /\ \A i \in 1..Len(journal[r]) :
                   /\ ~repeated => journal[r][i].id = <<r, i>>
                   /\ journal[r][i].graph # "legacy"
  <2>1. /\ streams[r] \in Seq([created : BOOLEAN, graph : Graphs \ {"legacy"}])
        /\ Len(streams[r]) <= MaxEvents
    BY OldStreamsAssumption
  <2> DEFINE row(i) == Row(id(r, i), streams[r][i].created, streams[r][i].graph)
  <2>2. ASSUME NEW i \in 1..Len(streams[r])
        PROVE  row(i) \in Rows /\ row(i).id = id(r, i) /\ row(i).graph # "legacy"
    <3>1. streams[r][i] \in [created : BOOLEAN, graph : Graphs \ {"legacy"}]
      BY <2>1, ElementTyped
    <3>2. i \in 1..MaxEvents /\ 1 \in 1..MaxEvents
      BY <2>1, BoundsAssumption
    <3>3. (CHOOSE q \in Runs : TRUE) \in Runs
      OBVIOUS
    <3>4. id(r, i) \in Runs \X (1..MaxEvents)
      BY <3>2, <3>3
    <3> HIDE DEF id
    <3>5. /\ streams[r][i].created \in BOOLEAN
          /\ streams[r][i].graph \in Graphs /\ streams[r][i].graph # "legacy"
      BY <3>1
    <3>6. QED
      BY <3>4, <3>5, RowTyped
  <2>3. journal[r] = [i \in 1..Len(streams[r]) |-> row(i)]
    BY <1>0
  <2>4. \A i \in 1..Len(streams[r]) : row(i) \in Rows
    BY <2>2
  <2> HIDE DEF row
  <2>5. journal[r] \in Seq(Rows) /\ Len(journal[r]) = Len(streams[r])
    BY <2>1, <2>3, <2>4
  <2>6. QED
    BY <2>2, <2>3, <2>5
<1>3. TypeOK
  <2>1. journal \in [Runs -> Seq(Rows)]
    <3> HIDE DEF old
    <3>1. QED
      BY <1>0, <1>2
  <2>2. opening \in [Processes -> [stage : {"closed", "opened", "migrating", "ready"},
                                   seen : Fresh..Newer]]
    BY DEF Init, Closed, Opening, Fresh, Newer
  <2>3. \A p \in Processes : lock = p <=> opening[p].stage = "migrating"
    BY NobodyAssumption DEF Init, Closed, Opening
  <2>4. QED
    BY <2>1, <2>2, <2>3, BoundsAssumption DEF Init, TypeOK
<1>4. VersionRead
  BY DEF Init, VersionRead, Closed, Opening
<1>5. version # 1 => DistinctIds
  <2> SUFFICES ASSUME version # 1,
                      NEW r \in Runs, NEW q \in Runs,
                      NEW i \in 1..Len(journal[r]), NEW j \in 1..Len(journal[q]),
                      journal[r][i].id = journal[q][j].id
               PROVE  r = q /\ i = j
    BY DEF DistinctIds
  <2>1. journal[r][i].id = <<r, i>> /\ journal[q][j].id = <<q, j>>
    BY <1>1, <1>2
  <2>2. <<r, i>> = <<q, j>>
    BY <2>1
  <2>3. r = <<r, i>>[1] /\ i = <<r, i>>[2] /\ q = <<q, j>>[1] /\ j = <<q, j>>[2]
    OBVIOUS
  <2>4. QED
    BY <2>2, <2>3
<1>6. version = Fresh => \A r \in Runs : journal[r] = <<>>
  BY <1>1, <1>2
<1>7. VersionHolds
  BY <1>5, <1>6 DEF Init, VersionHolds
<1>8. \A row \in AllRows : row.graph # "legacy"
  <2> SUFFICES ASSUME NEW r \in Runs, NEW i \in 1..Len(journal[r])
               PROVE  journal[r][i].graph # "legacy"
    BY DEF AllRows
  <2> QED BY <1>2
<1>9. QED
  BY <1>3, <1>4, <1>7, <1>8 DEF IInv, LegacyIsMigratable

-----------------------------------------------------------------------------
Stages == [stage : {"closed", "opened", "migrating", "ready"}, seen : Fresh..Newer]

LEMMA StagesTyped ==
  /\ Closed \in Stages /\ Closed.stage = "closed"
  /\ Ready \in Stages /\ Ready.stage = "ready" /\ Ready.seen = SchemaVersion
  /\ \A v \in Fresh..Newer :
        /\ Opened(v) \in Stages /\ Opened(v).stage = "opened" /\ Opened(v).seen = v
        /\ Migrating(v) \in Stages /\ Migrating(v).stage = "migrating" /\ Migrating(v).seen = v
BY DEF Stages, Closed, Opened, Migrating, Ready, Opening, Fresh, Newer, SchemaVersion

\* What VersionRead says of a process at a stage, for a version of the database.
ReadBy(step, v) ==
    /\ step.stage = "closed" => step = Closed
    /\ step.stage = "migrating" => step.seen \in {1, 2}
    /\ step.stage = "ready" => step.seen = SchemaVersion
    /\ step.stage # "closed" => step.seen \in 1..v /\ (step.seen = Newer <=> v = Newer)

\* A process that moves keeps the bookkeeping of all, if the version does not
\* fall behind what the others read.
LEMMA MoveKeepsReading ==
  ASSUME TypeOK, VersionRead, NEW p \in Processes, NEW step \in Stages,
         opening' = [opening EXCEPT ![p] = step],
         lock' = IF step.stage = "migrating" THEN p
                 ELSE IF opening[p].stage = "migrating" THEN Nobody ELSE lock,
         step.stage = "migrating" => lock = Nobody \/ lock = p,
         version' \in version..Newer, version = Newer <=> version' = Newer,
         ReadBy(step, version')
  PROVE  /\ version' \in Fresh..Newer
         /\ opening' \in [Processes -> Stages]
         /\ lock' \in Processes \union {Nobody}
         /\ \A q \in Processes : lock' = q <=> opening'[q].stage = "migrating"
         /\ VersionRead'
<1>1. opening \in [Processes -> Stages] /\ version \in Fresh..Newer
  BY DEF TypeOK, Stages
<1>2. /\ opening'[p] = step
      /\ \A q \in Processes : q # p => opening'[q] = opening[q]
      /\ opening' \in [Processes -> Stages]
  BY <1>1
<1>3. version' \in Fresh..Newer
  BY <1>1 DEF Fresh, Newer
<1>4. lock' \in Processes \union {Nobody}
  BY DEF TypeOK
<1>5. ASSUME NEW q \in Processes
      PROVE  lock' = q <=> opening'[q].stage = "migrating"
  <2>1. lock = p <=> opening[p].stage = "migrating"
    BY DEF TypeOK
  <2>2. lock = q <=> opening[q].stage = "migrating"
    BY DEF TypeOK
  <2>3. CASE q = p
    BY <1>2, <2>1, <2>3, NobodyAssumption
  <2>4. CASE q # p
    BY <1>2, <2>1, <2>2, <2>4, NobodyAssumption
  <2>5. QED
    BY <2>3, <2>4
<1>6. \A q \in Processes : ReadBy(opening[q], version)
  BY DEF VersionRead, ReadBy
<1>7. ASSUME NEW q \in Processes
      PROVE  ReadBy(opening'[q], version')
  <2>1. CASE q = p
    BY <1>2, <2>1
  <2>2. CASE q # p
    <3>1. opening'[q] = opening[q] /\ ReadBy(opening[q], version)
      BY <1>2, <1>6, <2>2
    <3>2. opening[q].seen \in 1..version => opening[q].seen \in 1..version'
      BY <1>1 DEF Fresh, Newer
    <3>3. QED
      BY <3>1, <3>2 DEF ReadBy
  <2>3. QED
    BY <2>1, <2>2
<1>8. VersionRead'
  BY <1>7 DEF VersionRead, ReadBy
<1>9. QED
  BY <1>2, <1>3, <1>4, <1>5, <1>8

\* The database of an open store is of this program's schema.
LEMMA ReadyIsCurrent ==
  ASSUME IInv, NEW p \in Processes, opening[p].stage = "ready"
  PROVE  /\ version = SchemaVersion /\ eventIds
         /\ \A r \in Runs : Replays(journal[r]) /\ checkpoint[r] # "old"
<1>1. version = SchemaVersion
  <2>1. SchemaVersion \in 1..version /\ version # Newer
    BY DEF IInv, VersionRead, SchemaVersion, Newer
  <2>2. version \in Fresh..Newer
    BY DEF IInv, TypeOK
  <2>3. QED
    BY <2>1, <2>2 DEF SchemaVersion, Newer, Fresh
<1>2. QED
  BY <1>1 DEF IInv, VersionHolds, SchemaVersion

\* A stream that replays is one a migration would accept.
LEMMA ReplayingIsMigratable ==
  ASSUME NEW j \in [Runs -> Seq(Rows)], \A r \in Runs : Replays(j[r])
  PROVE  \A r \in Runs : Replays(Upgraded(j[r]))
BY ReplayingIsUpgraded

LEMMA OpenPreserves ==
  ASSUME IInv, NEW p \in Processes, Open(p)
  PROVE  IInv'
<1> USE DEF IInv
<1>1. version \in Fresh..Newer /\ opening[p].stage = "closed" /\ lock = Nobody
  BY StagesTyped DEF TypeOK, Open
<1>2. /\ version' \in version..Newer /\ version' \in 1..Newer
      /\ version = Newer <=> version' = Newer
      /\ version' = version \/ (version = Fresh /\ version' = SchemaVersion)
  <2>1. version' = IF version = Fresh THEN SchemaVersion ELSE version
    BY DEF Open
  <2>2. CASE version = Fresh
    BY <2>1, <2>2 DEF Fresh, Newer, SchemaVersion
  <2>3. CASE version # Fresh
    <3>1. version' = version
      BY <2>1, <2>3
    <3>2. QED
      BY <1>1, <2>3, <3>1 DEF Fresh, Newer
  <2>4. QED
    BY <2>2, <2>3
<1>3. opening' = [opening EXCEPT ![p] = Opened(version')]
  BY DEF Open
<1>4. /\ Opened(version') \in Stages
      /\ Opened(version').stage = "opened" /\ Opened(version').seen = version'
  BY <1>2, StagesTyped DEF Fresh, Newer
<1>5. ReadBy(Opened(version'), version')
  BY <1>2, <1>4 DEF ReadBy, Newer
<1>6. /\ version' \in Fresh..Newer
      /\ opening' \in [Processes -> Stages]
      /\ lock' \in Processes \union {Nobody}
      /\ \A q \in Processes : lock' = q <=> opening'[q].stage = "migrating"
      /\ VersionRead'
  <2>1. lock' = IF Opened(version').stage = "migrating" THEN p
                ELSE IF opening[p].stage = "migrating" THEN Nobody ELSE lock
    BY <1>1, <1>4 DEF Open
  <2>2. QED
    BY <1>2, <1>3, <1>4, <1>5, <2>1, MoveKeepsReading
<1>7. UNCHANGED <<eventIds, journal, checkpoint, crashes>>
  BY DEF Open
<1>8. TypeOK'
  BY <1>6, <1>7 DEF TypeOK, Stages
<1>9. DistinctIds' <=> DistinctIds
  BY <1>7 DEF DistinctIds
<1>10. VersionHolds'
  <2>1. CASE version' = version
    BY <1>7, <1>9, <2>1 DEF VersionHolds
  <2>2. CASE version = Fresh /\ version' = SchemaVersion
    BY <1>7, <1>9, <2>2 DEF VersionHolds, Replays, Fresh, SchemaVersion
  <2>3. QED
    BY <1>2, <2>1, <2>2
<1>11. LegacyIsMigratable'
  <2>1. MigratableRows' <=> MigratableRows
    BY <1>7 DEF MigratableRows
  <2>2. Migratable' <=> Migratable
    BY <1>2, <1>9, <2>1 DEF Migratable
  <2>3. AllRows' = AllRows
    BY <1>7 DEF AllRows
  <2>4. QED
    BY <2>2, <2>3 DEF LegacyIsMigratable
<1>12. QED
  BY <1>6, <1>8, <1>10, <1>11

\* The steps that leave the database as it is.
LEMMA SameDatabase ==
  ASSUME VersionHolds, LegacyIsMigratable,
         UNCHANGED <<version, eventIds, journal, checkpoint>>
  PROVE  VersionHolds' /\ LegacyIsMigratable'
BY DEF VersionHolds, LegacyIsMigratable, Migratable, MigratableRows, DistinctIds, AllRows

LEMMA MovePreserves ==
  ASSUME IInv, NEW p \in Processes,
         \/ Begin(p) \/ BeginBusy(p) \/ Refuse(p) \/ RefuseVersion(p) \/ CreateTables(p)
         \/ Crash(p)
  PROVE  IInv'
<1> USE DEF IInv
<1>1. UNCHANGED <<version, eventIds, journal, checkpoint>> /\ crashes' \in 0..MaxCrashes
  BY BoundsAssumption
  DEF Begin, BeginBusy, Refuse, RefuseVersion, CreateTables, Crash, TypeOK
<1>2. /\ version \in Fresh..Newer
      /\ lock = p <=> opening[p].stage = "migrating"
      /\ version' \in version..Newer /\ (version = Newer <=> version' = Newer)
  BY <1>1 DEF TypeOK, Fresh, Newer
<1>3. \E step \in Stages :
         /\ opening' = [opening EXCEPT ![p] = step]
         /\ lock' = IF step.stage = "migrating" THEN p
                    ELSE IF opening[p].stage = "migrating" THEN Nobody ELSE lock
         /\ step.stage = "migrating" => lock = Nobody
         /\ ReadBy(step, version')
  <2>1. ReadBy(Closed, version')
    BY StagesTyped DEF ReadBy
  <2>2. ReadBy(opening[p], version)
    BY DEF VersionRead, ReadBy
  <2>3. 1 \in Fresh..Newer /\ 2 \in Fresh..Newer /\ SchemaVersion \in Fresh..Newer
        /\ Newer \in Fresh..Newer
    BY DEF Fresh, Newer, SchemaVersion
  <2>4. CASE Begin(p)
    <3>1. PICK v \in {1, 2} : opening[p] = Opened(v)
      BY <2>4 DEF Begin
    <3>2. opening[p].stage = "opened" /\ opening[p].seen = v
      BY <2>3, <3>1, StagesTyped
    <3>3. /\ Migrating(v) \in Stages
          /\ Migrating(v).stage = "migrating" /\ Migrating(v).seen = v
      BY <2>3, StagesTyped
    <3>4. ReadBy(Migrating(v), version')
      BY <1>1, <2>2, <3>2, <3>3 DEF ReadBy
    <3>5. QED
      BY <2>4, <3>2, <3>3, <3>4 DEF Begin
  <2>5. CASE BeginBusy(p) \/ RefuseVersion(p)
    <3>1. opening[p].stage = "opened"
      BY <2>3, <2>5, StagesTyped DEF BeginBusy, RefuseVersion
    <3>2. QED
      BY <2>1, <2>5, <3>1, StagesTyped DEF BeginBusy, RefuseVersion
  <2>6. CASE Refuse(p)
    <3>1. opening[p].stage = "migrating"
      BY <2>3, <2>6, StagesTyped DEF Refuse
    <3>2. QED
      BY <2>1, <2>6, <3>1, StagesTyped DEF Refuse
  <2>7. CASE CreateTables(p)
    <3>1. opening[p].stage = "opened" /\ opening[p].seen = SchemaVersion
      BY <2>3, <2>7, StagesTyped DEF CreateTables
    <3>2. ReadBy(Ready, version')
      BY <1>1, <2>2, <3>1, StagesTyped DEF ReadBy
    <3>3. QED
      BY <2>7, <3>1, <3>2, StagesTyped DEF CreateTables
  <2>8. CASE Crash(p)
    BY <1>2, <2>1, <2>8, StagesTyped DEF Crash
  <2>9. QED
    BY <2>4, <2>5, <2>6, <2>7, <2>8
<1>4. /\ opening' \in [Processes -> Stages]
      /\ lock' \in Processes \union {Nobody}
      /\ \A q \in Processes : lock' = q <=> opening'[q].stage = "migrating"
      /\ VersionRead'
  BY <1>2, <1>3, MoveKeepsReading
<1>5. TypeOK'
  BY <1>1, <1>4 DEF TypeOK, Stages
<1>6. QED
  BY <1>1, <1>4, <1>5, SameDatabase

\* Rows a commit writes have the ids they had, and replay.
LEMMA CommitUpgrades ==
  ASSUME TypeOK, DistinctIds, MigratableRows,
         journal' = [r \in Runs |-> Upgraded(journal[r])]
  PROVE  /\ journal' \in [Runs -> Seq(Rows)]
         /\ DistinctIds' /\ MigratableRows'
         /\ \A r \in Runs : Replays(journal'[r])
<1>1. \A r \in Runs : journal[r] \in Seq(Rows) /\ journal'[r] = Upgraded(journal[r])
  BY DEF TypeOK
<1>2. \A r \in Runs : Upgraded(journal[r]) \in Seq(Rows)
  BY <1>1, UpgradedTyped
<1>3. journal' \in [Runs -> Seq(Rows)]
  BY <1>2
<1>4. \A r \in Runs : Replays(journal'[r])
  BY <1>1 DEF MigratableRows
<1>5. MigratableRows'
  BY <1>3, <1>4, ReplayingIsMigratable DEF MigratableRows
<1>6. QED
  BY <1>3, <1>4, <1>5, DistinctIdsKept

LEMMA CommitV1Preserves ==
  ASSUME IInv, NEW p \in Processes, CommitV1(p)
  PROVE  IInv'
<1> USE DEF IInv
<1>1. /\ opening[p].stage = "migrating" /\ lock = p /\ version = 1
      /\ DistinctIds /\ MigratableRows
  BY StagesTyped DEF CommitV1, V1Migrates, TypeOK, VersionHolds, Fresh, Newer
<1>2. /\ journal' \in [Runs -> Seq(Rows)]
      /\ DistinctIds' /\ MigratableRows'
  BY <1>1, CommitUpgrades DEF CommitV1
<1>3. /\ version' = 2 /\ eventIds' = TRUE /\ lock' = Nobody
      /\ opening' = [opening EXCEPT ![p] = Opened(2)]
      /\ UNCHANGED <<checkpoint, crashes>>
  BY DEF CommitV1
<1>4. /\ Opened(2) \in Stages
      /\ Opened(2).stage = "opened" /\ Opened(2).seen = 2
  BY StagesTyped DEF Fresh, Newer
<1>5. /\ opening' \in [Processes -> Stages]
      /\ \A q \in Processes : lock' = q <=> opening'[q].stage = "migrating"
      /\ VersionRead'
  <2>1. version' \in version..Newer /\ (version = Newer <=> version' = Newer)
    BY <1>1, <1>3 DEF Newer
  <2>2. ReadBy(Opened(2), version')
    BY <1>3, <1>4 DEF ReadBy, Newer
  <2>3. QED
    BY <1>1, <1>3, <1>4, <2>1, <2>2, MoveKeepsReading
<1>6. TypeOK'
  BY <1>2, <1>3, <1>5 DEF TypeOK, Stages, Fresh, Newer
<1>7. VersionHolds' /\ LegacyIsMigratable'
  BY <1>2, <1>3 DEF VersionHolds, LegacyIsMigratable, Migratable, Fresh, Newer, SchemaVersion
<1>8. QED
  BY <1>5, <1>6, <1>7

LEMMA CommitV2Preserves ==
  ASSUME IInv, NEW p \in Processes, CommitV2(p)
  PROVE  IInv'
<1> USE DEF IInv
<1>1. opening[p].stage = "migrating" /\ opening[p].seen = 2 /\ lock = p
  BY StagesTyped DEF CommitV2, TypeOK, Fresh, Newer
<1>2. version \in {2, SchemaVersion} /\ DistinctIds /\ MigratableRows
  <2>1. version \in Fresh..Newer /\ 2 \in 1..version /\ version # Newer
    BY <1>1 DEF VersionRead, TypeOK, Newer
  <2>2. version \in {2, SchemaVersion}
    BY <2>1 DEF Fresh, Newer, SchemaVersion
  <2>3. QED
    BY <2>2 DEF CommitV2, V2Migrates, VersionHolds, SchemaVersion
<1>3. /\ journal' \in [Runs -> Seq(Rows)]
      /\ DistinctIds' /\ MigratableRows'
      /\ \A r \in Runs : Replays(journal'[r])
  BY <1>2, CommitUpgrades DEF CommitV2
<1>4. /\ version' = SchemaVersion /\ eventIds' = eventIds /\ lock' = Nobody
      /\ opening' = [opening EXCEPT ![p] = Opened(SchemaVersion)]
      /\ checkpoint' = [r \in Runs |-> "none"] /\ crashes' = crashes
  BY DEF CommitV2
<1>5. /\ Opened(SchemaVersion) \in Stages
      /\ Opened(SchemaVersion).stage = "opened" /\ Opened(SchemaVersion).seen = SchemaVersion
  BY StagesTyped DEF Fresh, Newer, SchemaVersion
<1>6. /\ opening' \in [Processes -> Stages]
      /\ \A q \in Processes : lock' = q <=> opening'[q].stage = "migrating"
      /\ VersionRead'
  <2>1. version' \in version..Newer /\ (version = Newer <=> version' = Newer)
    BY <1>2, <1>4 DEF Newer, SchemaVersion
  <2>2. ReadBy(Opened(SchemaVersion), version')
    BY <1>4, <1>5 DEF ReadBy, Newer, SchemaVersion
  <2>3. QED
    BY <1>1, <1>4, <1>5, <2>1, <2>2, MoveKeepsReading
<1>7. eventIds = TRUE
  BY <1>2 DEF VersionHolds, SchemaVersion, TypeOK
<1>8. TypeOK'
  BY <1>3, <1>4, <1>6 DEF TypeOK, Stages, Fresh, Newer, SchemaVersion
<1>9. VersionHolds' /\ LegacyIsMigratable'
  BY <1>3, <1>4, <1>7
  DEF VersionHolds, LegacyIsMigratable, Migratable, Fresh, Newer, SchemaVersion
<1>10. QED
  BY <1>6, <1>8, <1>9

\* An append adds one row at the end of one stream, under an id of its own.
LEMMA AppendedIdsDistinct ==
  ASSUME TypeOK, DistinctIds, NEW r \in Runs, NEW row \in Rows,
         \A there \in AllRows : there.id # row.id,
         journal' = [journal EXCEPT ![r] = Append(journal[r], row)]
  PROVE  DistinctIds'
<1>1. \A q \in Runs : \A i \in 1..Len(journal[q]) : journal[q][i].id # row.id
  BY DEF AllRows
<1>2. /\ journal'[r] = Append(journal[r], row)
      /\ \A q \in Runs : q # r => journal'[q] = journal[q]
  BY DEF TypeOK
<1>3. journal[r] \in Seq(Rows)
  BY DEF TypeOK
<1>4. Len(journal'[r]) = Len(journal[r]) + 1
  BY <1>2, <1>3
<1>5. /\ \A i \in 1..Len(journal[r]) : journal'[r][i] = journal[r][i]
      /\ journal'[r][Len(journal[r]) + 1] = row
  BY <1>2, <1>3
<1>6. \A q \in Runs : \A i \in 1..Len(journal'[q]) :
         \/ i \in 1..Len(journal[q]) /\ journal'[q][i] = journal[q][i]
         \/ q = r /\ i = Len(journal[r]) + 1 /\ journal'[q][i] = row
  <2> SUFFICES ASSUME NEW q \in Runs, NEW i \in 1..Len(journal'[q])
               PROVE  \/ i \in 1..Len(journal[q]) /\ journal'[q][i] = journal[q][i]
                      \/ q = r /\ i = Len(journal[r]) + 1 /\ journal'[q][i] = row
    OBVIOUS
  <2>1. CASE q = r
    <3>1. i \in 1..(Len(journal[r]) + 1) /\ Len(journal[r]) \in Nat
      BY <1>3, <1>4, <2>1
    <3>2. i \in 1..Len(journal[r]) \/ i = Len(journal[r]) + 1
      BY <3>1
    <3>3. QED
      BY <1>5, <2>1, <3>2
  <2>2. QED
    BY <1>2, <2>1
<1>7. QED
  BY <1>1, <1>6 DEF DistinctIds

LEMMA AppendPreserves ==
  ASSUME IInv, NEW p \in Processes, NEW r \in Runs, NEW created \in BOOLEAN, NEW graph \in Graphs,
         AppendEvent(p, r, Row(<<r, Len(journal[r]) + 1>>, created, graph))
  PROVE  IInv'
<1> USE DEF IInv
<1> DEFINE row == Row(<<r, Len(journal[r]) + 1>>, created, graph)
<1>1. journal[r] \in Seq(Rows) /\ journal \in [Runs -> Seq(Rows)]
  BY DEF TypeOK
<1>2. row \in Rows
  <2>1. Len(journal[r]) + 1 \in 1..MaxEvents
    BY <1>1, BoundsAssumption DEF AppendEvent
  <2>2. QED
    BY <2>1, RowTyped
<1> HIDE DEF row
<1>3. /\ opening[p] = Ready /\ Replays(Append(journal[r], row))
      /\ \A there \in AllRows : there.id # row.id
      /\ journal' = [journal EXCEPT ![r] = Append(journal[r], row)]
      /\ UNCHANGED <<version, eventIds, checkpoint, lock, opening, crashes>>
  BY DEF AppendEvent, row
<1>4. /\ version = SchemaVersion /\ eventIds
      /\ \A q \in Runs : Replays(journal[q]) /\ checkpoint[q] # "old"
  BY <1>3, StagesTyped, ReadyIsCurrent
<1>5. DistinctIds
  BY <1>4 DEF VersionHolds, SchemaVersion
<1>6. DistinctIds'
  BY <1>2, <1>3, <1>5, AppendedIdsDistinct
<1>7. journal' \in [Runs -> Seq(Rows)]
  BY <1>1, <1>2, <1>3
<1>8. \A q \in Runs : Replays(journal'[q])
  BY <1>1, <1>3, <1>4
<1>9. MigratableRows'
  BY <1>7, <1>8, ReplayingIsMigratable DEF MigratableRows
<1>10. TypeOK' /\ VersionRead'
  BY <1>3, <1>7 DEF TypeOK, VersionRead
<1>11. VersionHolds'
  BY <1>3, <1>4, <1>6, <1>8 DEF VersionHolds, SchemaVersion, Fresh
<1>12. LegacyIsMigratable'
  BY <1>3, <1>4, <1>6, <1>9 DEF LegacyIsMigratable, Migratable, SchemaVersion, Newer
<1>13. QED
  BY <1>10, <1>11, <1>12

LEMMA CheckpointPreserves ==
  ASSUME IInv, NEW p \in Processes, NEW r \in Runs, SaveCheckpoint(p, r)
  PROVE  IInv'
<1> USE DEF IInv
<1>1. /\ opening[p] = Ready
      /\ checkpoint' = [checkpoint EXCEPT ![r] = "current"]
      /\ UNCHANGED <<version, eventIds, journal, lock, opening, crashes>>
  BY DEF SaveCheckpoint
<1>2. /\ version = SchemaVersion /\ eventIds
      /\ \A q \in Runs : Replays(journal[q]) /\ checkpoint[q] # "old"
  BY <1>1, StagesTyped, ReadyIsCurrent
<1>3. TypeOK' /\ VersionRead'
  BY <1>1 DEF TypeOK, VersionRead
<1>4. DistinctIds' /\ \A q \in Runs : checkpoint'[q] # "old"
  BY <1>1, <1>2 DEF VersionHolds, DistinctIds, TypeOK, SchemaVersion
<1>5. VersionHolds'
  BY <1>1, <1>2, <1>4 DEF VersionHolds, SchemaVersion, Fresh
<1>6. LegacyIsMigratable'
  BY <1>1 DEF LegacyIsMigratable, Migratable, MigratableRows, DistinctIds, AllRows
<1>7. QED
  BY <1>3, <1>5, <1>6

LEMMA NextPreserves ==
  ASSUME IInv, [Next]_vars
  PROVE  IInv'
<1>1. CASE Next
  BY <1>1, OpenPreserves, MovePreserves, CommitV1Preserves, CommitV2Preserves,
     AppendPreserves, CheckpointPreserves DEF Next, Initialize
<1>2. CASE UNCHANGED vars
  BY <1>2 DEF vars, IInv, TypeOK, VersionRead, VersionHolds, LegacyIsMigratable, Migratable,
              MigratableRows, DistinctIds, AllRows
<1>3. QED
  BY <1>1, <1>2

-----------------------------------------------------------------------------
\* The inductive invariant holds whatever was left behind, and however openings,
\* migrations and crashes interleave.
THEOREM MigrationInvariance == Spec => []IInv
BY InitInv, NextPreserves, PTL DEF Spec

\* Type correctness: the write lock is with whoever is inside a transaction.
THEOREM TypeCorrectness == Spec => []TypeOK
<1>1. IInv => TypeOK
  BY DEF IInv
<1>2. QED
  BY <1>1, MigrationInvariance, PTL

\* A store is open only on a database of its own schema, although other processes
\* are still migrating it behind a version they read earlier.
THEOREM OpenIsCurrent == Spec => []OpenedIsCurrent
<1>1. IInv => OpenedIsCurrent
  <2> SUFFICES ASSUME IInv, NEW p \in Processes, opening[p] = Ready
               PROVE  /\ version = SchemaVersion /\ eventIds
                      /\ \A r \in Runs : Replays(journal[r]) /\ checkpoint[r] # "old"
    BY DEF OpenedIsCurrent
  <2> QED BY StagesTyped, ReadyIsCurrent
<1>2. QED
  BY <1>1, MigrationInvariance, PTL

\* A database with one stream that cannot be migrated keeps them all as they were,
\* and opens for nobody.
THEOREM MigrationFailsClosed == Spec => []FailsClosed
<1>1. IInv => FailsClosed
  <2> SUFFICES ASSUME IInv, ~Migratable, NEW p \in Processes, opening[p] = Ready
               PROVE  FALSE
    BY DEF FailsClosed, IInv, LegacyIsMigratable
  <2>1. version = SchemaVersion /\ \A r \in Runs : Replays(journal[r])
    BY StagesTyped, ReadyIsCurrent
  <2>2. DistinctIds /\ journal \in [Runs -> Seq(Rows)]
    BY <2>1 DEF IInv, TypeOK, VersionHolds, SchemaVersion
  <2>3. MigratableRows
    BY <2>1, <2>2, ReplayingIsMigratable DEF MigratableRows
  <2>4. QED
    BY <2>1, <2>2, <2>3 DEF Migratable, SchemaVersion, Newer
<1>2. QED
  BY <1>1, MigrationInvariance, PTL

LEMMA StepKeepsJournal ==
  ASSUME TypeOK, [Next]_vars, NEW r \in Runs
  PROVE  /\ Len(journal[r]) <= Len(journal'[r])
         /\ \A i \in 1..Len(journal[r]) :
                journal'[r][i] \in {journal[r][i], UpgradedRow(journal[r][i])}
<1>1. journal[r] \in Seq(Rows) /\ Len(journal[r]) \in Nat
  BY DEF TypeOK
<1>2. CASE journal' = journal
  BY <1>1, <1>2
<1>3. CASE journal' = [q \in Runs |-> Upgraded(journal[q])]
  <2>1. journal'[r] = Upgraded(journal[r])
    BY <1>3
  <2>2. QED
    BY <1>1, <2>1, UpgradedTyped
<1>4. ASSUME NEW q \in Runs, NEW row,
             journal' = [journal EXCEPT ![q] = Append(journal[q], row)]
      PROVE  /\ Len(journal[r]) <= Len(journal'[r])
             /\ \A i \in 1..Len(journal[r]) : journal'[r][i] = journal[r][i]
  <2>1. CASE q = r
    <3>1. journal'[r] = Append(journal[r], row)
      BY <1>4, <2>1 DEF TypeOK
    <3>2. QED
      BY <1>1, <3>1
  <2>2. CASE q # r
    <3>1. journal'[r] = journal[r]
      BY <1>4, <2>2 DEF TypeOK
    <3>2. QED
      BY <1>1, <3>1
  <2>3. QED
    BY <2>1, <2>2
<1>5. QED
  BY <1>2, <1>3, <1>4 DEF Next, Initialize, Open, Begin, BeginBusy, CommitV1, CommitV2, Refuse,
     RefuseVersion, CreateTables, Crash, SaveCheckpoint, AppendEvent, vars

\* No event is lost, moved or replaced: only a reference becomes a graph.
THEOREM JournalIsKept == Spec => JournalKept
<1>1. TypeOK /\ [Next]_vars
        => [\A r \in Runs :
               /\ Len(journal[r]) <= Len(journal'[r])
               /\ \A i \in 1..Len(journal[r]) :
                      journal'[r][i] \in {journal[r][i], UpgradedRow(journal[r][i])}]_vars
  BY StepKeepsJournal
<1>2. QED
  BY <1>1, TypeCorrectness, PTL DEF Spec, JournalKept
=============================================================================
