# A verification project for durable-loop-kernel

The repository keeps a *run* of a coding loop as an append-only journal of events in
SQLite. A pure reducer folds the journal into a `RunView`; a supervisor, an operator's
command line and a harness bridge append events under a fenced lease. A run executes
nodes of a graph (`LoopSpec`), validates what they produced, and may replace the graph
it executes by a later revision, after a human approved it.

This directory holds TLA+ models of that code, TLC configurations that check them on
small instances, and TLAPS proofs of the properties that matter most for every instance.
Paths below are relative to the repository; `reducer.ts` and `supervisor.ts` are in
`packages/core/src`, `sqlite-run-store.ts` and `file-artifact-store.ts` in
`packages/storage/src`.

## 1. Inventory

| Component | State it keeps | Operations | Module |
|---|---|---|---|
| Event reducer (`reducer.ts`, `model.ts`, `loop-spec.ts`) | none; `RunView` is a function of the journal | one transition per event type, each with its guard | `RunReducer`, `RunStream`, abstract `PromotionGate` |
| Run store (`sqlite-run-store.ts:141-340`) | rows `run_events`, `run_leases`, `run_lease_counters` | `acquire`, `renew`, `release`, `append`, `read` | `RunStore`, abstract `FencedLog` |
| Supervisor (`supervisor.ts`, `ports.ts`) | the `LeaseGrant` in memory, awaited adapter calls | `createRun`, `recover`, `resume`, `dispatchAttempt` (= `beginAttempt` + `settleAttempt`), `supersedeValidation`, `prepareGeneration`, `requestHitl`, `recordHitlDecision`, admission, `requestHitlAndPromote`, `rollback`, `renewLease` | `Supervisor` |
| Operator CLI (`packages/cli/src/index.ts`) | none between invocations | `pause`, `resume`, `promote`, `rollback`, `inspect` | `Supervisor` (all but `inspect`, which only reads) |
| DSH bridge (`packages/dsh-adapter/src/index.ts`) | a supervisor per run, the step each agent waits for, id counter, all in memory | listeners `agent/pre-step`, `session/event`, `agent/turn-stopping`; `preStep`, `observeStepEnd`, `reconcile`, `requestAdmissionHitl`, `decideAdmissionHitl` | `DshBridge`; its default id counter `EventIds` |
| Recovery coordinator and checkpoints (`sqlite-run-store.ts:343-374`, `:592-626`) | one checkpoint row per run | `recover`, `saveCheckpoint`, `readCheckpoint` | `RecoveryCoordinator` |
| File artifact store (`file-artifact-store.ts`) | blobs, manifests and temporary files on disk | opening, `put`, `publishGeneration`, `readManifest`, `get` | `ArtifactStore`, abstract `WriteOnceRegister` |
| Schema migrations (`sqlite-run-store.ts:68-93`, `:376-560`) | the schema version, the rows it governs | `#initialize`, `#migrateV1ToV2`, `#migrateV2ToV3` | `SchemaMigration` |
| Event validation, canonical JSON, demo, scripts | | | not modelled, section 8 |

**How they interact.** Nobody writes the run's state directly. Every actor acquires the
run's lease, builds an event that extends the revision it read, and calls
`append(event, grant)`. In one `BEGIN IMMEDIATE` transaction the store checks that the
grant owns the row, that the key is new, that the revision is current, and that the
reducer accepts the event. A supervisor calls adapters (execution, validation, artifacts,
human gate) and awaits them while a heartbeat timer renews the lease. CLI invocations are
other processes on the same database file; all invocations of one actor share a holder id.
The artifact store is a directory tree that every process opens for itself; a run's journal
names a manifest only after `publishGeneration` returned it. The recovery coordinator uses
the store like any owner of a lease, and the migrations run in whichever process opens an
old database first.

**What is hard.** Between the two appends of an operation, and during every `await`,
another process may take the lease, an operator may pause, promote or roll back, the
process may die, or its lease may expire unnoticed. The clock of a store call is read
before its transaction starts. Attempt ids are chosen by callers and may repeat. A human
or an adapter may answer after a recovery. On disk, a name, the bytes behind it and the
directory that holds it become durable one after the other, and two publishers may be
between any two of those steps. Ids that must be new for ever come from a counter that dies
with its process. `PROJECT.json` lists each hazard at its line
with the property that covers it, or the reason none does yet.

**What makes each component correct.**

* Reducer: in every reachable view the phase shows an attempt in flight and what is awaited
  (except that a pause may leave a request open behind it); the executed graph changes
  only on accepted evidence about that graph and, under a gate, on an approval of exactly
  that candidate; refused, lost and revoked authority never comes back; a pause holds.
* Run store: a fencing token belongs to one grant for ever; a replaced owner never
  writes again; a grant that has not expired is the row's.
* Supervisor and CLI: nothing reaches the journal that the stream would not allow;
  evidence is about the execution that was dispatched; an operation of two appends is
  cut short only by losing the lease or by a storage failure; uncertain work does not
  stay uncertain.
* Bridge: it uses the run as any supervisor may; a step is settled only by the process
  that saw it end; an owner knows which step is in flight; a gated step runs on its
  own approval. The ids it writes into the journal are never written twice, whatever its
  counter does, and a restarted process gets past its own old numbers.
* Recovery coordinator: whatever checkpoint it found, it returns only a run that needs no
  recovery, and declares lost only what it looked at.
* Artifact store: a name is written once and whole; a manifest that can be seen has its
  blobs; two publishers of one generation are never both told they succeeded with different
  manifests; what a publisher synced stays.
* Migrations: no event is lost or moved; an open store works on the current schema, also
  when a late migration still runs; a database that cannot be migrated stays as it was.

## 2. Modules and their correspondence with the code

**`RunReducer`** (no variables) has two operators per event type: `MayX(view, ...)` is the
guard (`requireTransition`, `fail`), `Xed(view, ...)` the view it yields. Views are
records with the source's fields. Left out are fields no guard reads (`retryCount`,
`recoveryReasonCode`, `rollbackAncestry`, `evidenceRef`, `manifestRef`, receipts,
timestamps). A `LoopSpec` is a record `[specId, revision, entry, nodes, edges]`; the
canonical form that `isValidLoopSpec` demands is `CanonicalLoopSpec`. `revision`, `seq` and idempotency
keys are the store's business and live in `RunStore`.

**`RunStream`** is the state machine of the journal: `view` and the ids issued, one action
per event type, callers that may submit any event at any time. `run.created` is `Init`. Four history variables, which
no guard reads, record what was approved, refused and revoked, and which graph the
current evidence is about; `pauseHeld` records that a pause is in force. Ids of validations and
requests are issued once, which `EventIds` shows of the ids a bridge makes by default; attempt
ids may repeat.

**`PromotionGate`** is the abstract promise of the reducer: a graph, the snapshots
promoted, evidence and approval. `RunStream` implements it by the mapping `Gate`:
evidence is the graph the last attempt ran under if validation passed and no human
refused, otherwise none.

**`RunStore`** models the tables of one run and the processes using them. Each call
is two steps, because the code reads the clock (and for `append` the caller reads the
revision) before the transaction: `CallX` leaves what was read in `call[p]`, `X` is
the transaction. `Crash` loses the grant and the answer, at any moment. Time is a natural number that `Tick` advances.

**`FencedLog`** is the abstract promise of the store: epochs are granted once and in order,
only the owning epoch appends. `RunStore` implements it with the counter, the token of
the row and the tokens of the journal's events.

**`Supervisor`** EXTENDS `RunStream` and composes supervisors, operators, lease and
journal. `view` is the reducer's; the store is reduced to what `RunStore` shows
callers may rely on: at most one process owns the lease, and only its appends are
accepted. An append is therefore one atomic step, and every await or gap between appends
is a place where other processes step:

* `control[p]` is where supervisor `p` is in a synchronous operation (`recover`'s four
  steps, between the two appends of `beginAttempt` and of `requestHitlAndPromote`),
  with the arguments captured;
* `tasks[p]` is the set of adapter calls `p` awaits; several may be outstanding.
  `TaskThrows` is an adapter that throws, a heartbeat that failed, or an append refused;
* `command[o]` is where a CLI invocation is between `acquire` and `release`;
* `lease` is the owner, `Free`, or `Orphaned` (a live row whose owner died).
  `IdleLapse` is the expiry of a row nobody renews; `Lapse`, bounded, is an owner
  suspended past its TTL in the middle of its work;
* `work` is history: who dispatched and who settled the last attempt.

Faults are crashes (`Crash`, `CommandCrashes`), appends that throw although they are
allowed (`StorageFails`, `CommandFails`) and lapses. A `recover` that throws after it
acquired the lease ends its `Supervisor`, together with the adapter calls that object still
awaited: the caller in this repository drops the object
(`packages/dsh-adapter/src/index.ts:176-181`). What the runs and theorems of this module and of
`DshBridge` show rests on that; of a host that keeps such an object they say nothing. Initially `createRun` of one
supervisor has returned.

The lease's token does not appear again in `Supervisor`: a lease that was lost is never renewed, so
"owner" is enough. `lease.acquired` only raises `view.lease`, which no other event
reads, and is modelled by its guard on the phase.

**`DshBridge`** EXTENDS `Supervisor` with what a harness process keeps in memory.
`attached` is the set of processes whose bridge has a supervisor (`supervisors`),
`pending[p]` the entry of `pendingSteps` with whether `step/end` was seen, `listener[p]`
where the process is in a listener and the coordinates it captured. Only listeners call
supervisors here, so every action that touches the run conjoins one action of
`Supervisor`: `Attach` the steps of `recover`, `SettleStep` and `ValidatorAnswers` the two
halves of `settleAttempt`, `BeginStep` and `StartStep` those of `beginAttempt`, and the
admission calls one append each. A `pre-step` with an admission gate goes through
reconcile, supersede, ask, decide, reconcile again, begin; one without begins at once;
`goal` says which. `Reenter` is the early return of `preStep`; `Reject` is every catch that
answers `reject`. Between awaits a listener is not interrupted by its own process: a
process hosts one agent, whose listeners run one after the other. No heartbeat runs while
the harness executes the step, so the lease may lapse under it (`Lapse`, bounded by
`MaxFaults` like the other faults) or between steps (`IdleLapse`).

**`EventIds`** is that id counter (`CounterIds`, `dsh-adapter/src/index.ts:113`), against the journal
it writes to. `counter[b]` starts at zero with the process; every append draws a number for
the event and one for its key, and a validation or a request one more before them
(`NumberBy`, `DrawnBy`). `Refused` is the UNIQUE event id and the unique key of a run. A run
is reduced to its phase and to which of its attempt, validation and admission request are
open (`view`; `Legal` and `Reduced` are the reducer's guards and effects on these), an
operation to the events it has yet to append (`todo`), so that an operation may be refused
after any of them. Restarts, leases that run out and an operator's `pause` and `resume` happen
in between. `AttachEvents` appends `recovery.uncertain` in the phases of
`supervisor.ts:160-161` only: a run `PAUSED` with something open is attached as it is.
Approvals of promotions are left out, because neither the bridge nor the CLI opens one.

**`RecoveryCoordinator`** EXTENDS `RunStream` with the coordinator's `recover`, cut at every
statement: `ReadCheckpoint`, `ReadJournal` (the checkpoint is used if it equals what the
journal replays to), `AppendRecovery` under the fence, the key and the revision, and the
second reading after a collision (`RereadAfterCollision`) or for the answer (`Answer`).
`rec[p]` is what coordinator `p` knows. Meanwhile `WorkerAppends` is any event of the
stream, `LeaseMoves` the lease, and `SaveCheckpoint` a row by this version or by one
that projects a run differently. `keyUsed` is the one key all recoveries of a run share.

**`ArtifactStore`** has one step per system call. `files[path]` is what a name leads to,
whether its bytes were synced and whether its directory entry was; `temp` the temporary
files, `old` those over an hour old; `store[p]` the opening of a store with its cleanup;
`call[p]` where `p` is in `put`, `publishGeneration` or `readManifest`. `Crash` ends a process and leaves
its temporary file; `PowerLoss` ends all and takes the bytes and entries that were not synced;
`Fails` is a system call that does. A digest stands for the bytes it names. `told`, `acked`
and `lost` are history.

**`WriteOnceRegister`** is the abstract promise of a name: written once, made permanent some
time later, and lost only before that. `ArtifactStore` implements one register per name.

**`SchemaMigration`** is `#initialize`: the version read outside a transaction (`Open`), each
migration a transaction (`Begin`, then `CommitV1`, `CommitV2` or `Refuse`), every process on
its own. A process goes by the version it read, so a second migration may run over a store
that others already use (`AppendEvent`, `SaveCheckpoint`). A row is reduced to whether it
is `run.created` and which graph it carries or needs.

**`MC*`** modules give the constants values. **`*_proofs`** modules hold the theorems.

An operator whose comment starts with *Mutant* is a plausible mistake in the definition below
it (a dropped guard, a missing reset, a counter that does not survive). It is used by no
specification; putting it in the place of the original makes a property fail, and
`PROJECT.json` says which. Every property of every passing run has one.

## 3. Runs

| Run | Config | Size | What it shows |
|---|---|---|---|
| `stream` | `MCRunStream.cfg` | 0.62 M states | all safety of the reducer and the implementation of `PromotionGate`, for any order of any events |
| `store` | `MCRunStore.cfg` | 0.99 M states | fencing and the implementation of `FencedLog`, three processes of which two share a holder id |
| `processes` | `MCSupervisor.cfg` | 0.88 M states | two supervisors and an operator, attempt ids reused, crashes, failing appends and lapses |
| `promotion` | `MCSupervisorPromotion.cfg` | 0.96 M states | a supervisor preparing two generations and awaiting one approval, while an operator promotes, rolls back, pauses and resumes |
| `progress` | `MCSupervisorLiveness.cfg` | 0.26 M states | liveness under the fairness of section 4 |
| `bridge` | `MCDshBridge.cfg` | 1.13 M states | two harness processes and an operator on one run: restarts, lost leases, failing appends, late approvals; the implementation of `Supervisor` |
| `ids` | `MCEventIds.cfg` | 0.27 M states | two bridges that count from zero on one run, one of which restarts, and an operator who pauses and resumes: ids stay new, an attach leaves the run safe, and everybody attaches in the end |
| `coordinator` | `MCRecoveryCoordinator.cfg` | 1.10 M states | two coordinators and a worker on one run with stale and foreign checkpoints; the implementation of `RunStream` |
| `artifacts` | `MCArtifactStore.cfg` | 1.21 M states | two publishers of one generation, system call by system call, with crashes, cleanups and power losses; the implementation of `WriteOnceRegister` |
| `migration` | `MCSchemaMigration.cfg` | 0.04 M states | two processes opening every kind of old database at once, with a crash; safety, and that everybody opens one whose legacy runs are untouched |
| `admission` | `MCRunStreamAdmission.cfg` | stops at the violation | where a comment of `supervisor.ts` and the reducer disagree |
| `collision` | `MCRecoveryCollision.cfg` | stops at the violation | where README.md and the coordinator's key disagree |

Type invariants are theorems (section 6); the runs leave them out, and with them the
strengthenings, which were checked under the same configs before they were proved.

**Bounds.** `stream`: one attempt id, two generations, four graphs (a first revision, a
second in two shapes so that a version identity could be reused, a third), three validations, two human
requests. Three validations are enough to refuse one, promote on the next, roll back and
try again; two requests to make one open at a recovery and answer it late. `store`:
three tokens and TTL 2 with a clock up to 3 let a row expire and be replaced while an
older call still holds the clock it read; two keys make collisions and retries.
`processes`: two attempt ids so that two processes can meet under the same one or under
different ones, two outstanding calls per supervisor, two faults so that a crash can
follow a lapse, one command. `promotion`: two generations and three revisions, two
validations and commands, so that a promotion can be followed by a rollback; one request, so
that of two promotions only one goes through the human gate. `progress`: no generations, so
that liveness is about attempts, validations and pauses and not about an awaited approval. `bridge`:
two processes, two steps, two validations, one admission request, one command and one
fault; two steps make a pre-step replace an earlier one, the fault is a crash, a lapse
during a step, or an append that fails between the two of `beginAttempt`. `ids`: one restart, so
that a process meets the numbers of an earlier life and of the other process; one lapse between two
appends; new work is begun only while the journal has fewer than eight events, which is
enough to be paused with a validation or an admission open and attached to; sixteen numbers
per counter. `coordinator`: a journal of at most six events, which is
an attempt or a validation left open, recovered, resumed and left open again; two
coordinators so that one is the faster. `artifacts`: one blob and
one generation under two timestamps, so that the two publishers differ; three temporary
names, so that a call can follow a crash on either side. Crashes, hours and power losses
are not bounded. `migration`: two runs, so that one can keep the
other from being migrated, up to three events each, and a crash.

Symmetry, where nothing tells
the values apart and no liveness is checked: generations in `stream`; supervisors,
attempts and generations in `processes` and `promotion`; processes and attempts in `bridge`;
coordinators in `coordinator` and `collision`; processes, temporary names and timestamps in `artifacts`.
`MaxValidations`, `MaxRequests`, `MaxToken`, `MaxTime`, `MaxTasks`, `MaxFaults`, `MaxCommands`,
`MaxRevision`, `MaxEvents`, `MaxNumber`, `MaxRestarts`, `MaxLapses` and `MaxCrashes` only
cap counters; the proofs hold for every value of them. Deadlock is not checked: a bounded run stops when its
bounds are used up, and a run nobody drives may stop.

**Mutation.** For each property of a passing run `PROJECT.json` names a mutant of a
mapped definition that violates it under the same config, so no property is vacuous.

## 4. Fairness

`FairSystemSpec` assumes, and the code or its host gives:

* code without an `await` runs to its end (`SynchronousStep`): it is synchronous
  JavaScript over a synchronous SQLite;
* an adapter call returns or throws (`TaskEnds`): which of the two is not assumed, and
  neither is that the answer is accepted;
* a CLI command runs to its end (`CommandStep`), unless it crashes;
* a row nobody renews expires (`IdleLapse`): `expires_at` is an absolute time;
* a run nobody owns is sooner or later attached to by some process (`RecoverRead` under
  a free lease, for *some* supervisor). This is an assumption about the host that restarts processes;
  `createDshDurableBridge` recovers at its first attach (`dsh-adapter/src/index.ts:142`),
  and never again in the same process: the assumption needs a process that restarts.

Humans, callers and operators owe nothing: no request must be answered, no attempt
dispatched, no command issued. Crashes, failing appends and lapses while working are bounded by
`MaxFaults`, since under endless crashes nothing is ever settled.

`EventIds.FairSpec`: an operation goes on to its next append or throws, a lease expires
unless it is renewed, and a bridge that has no supervisor of a run acquires the lease if it
is free again and again (strong fairness: two bridges take turns, and `supervisorFor` is called
at every step an agent tries). Nobody has to begin work, and nobody has to resume a run:
`recover` attaches to one that stays recovered or paused. The operator owes nothing. Restarts and lapses between two
appends are bounded.

`SchemaMigration.FairSpec`: a constructor runs on to its end, and whoever could not open the
database tries again. The transaction of another process always ends, by its own fairness or
by a crash, so no fairness of the lock is assumed. Crashes are bounded.

## 5. What the runs found

Two disagreements are kept as runs:

1. **A pause opens the admission gate** (`admission`). `supervisor.ts:303` calls admission a
   "durable, fail-closed human gate before any external execution begins". The reducer
   accepts a pause while admission is awaited, and a resume goes by the validation alone
   (`reducer.ts:80-88`), to `READY`; `node.dispatch.requested` does not look at the
   admission. Request, pause, resume, dispatch: an attempt runs and nobody decided.
2. **A run can be recovered by the coordinator once** (`collision`). README.md:18 says that
   after a restart any attempt without a durable outcome becomes `PAUSED_RECOVERED`. The
   event of every recovery of a run has one key (`sqlite-run-store.ts:614`). Recovered,
   resumed and crashed again, the run is refused for its key, its phase is not
   `PAUSED_RECOVERED`, and `recover` throws; it is never declared lost.
   A supervisor's `recover` draws a new key and can still do it.

The others are definitions of the modules that the runs do not list: a config that names one
under `INVARIANTS` (or `PROPERTIES`, if it is an action property) shows the trace.

3. **A failed attempt drops the pause** (`SettlementCommitsPause`, `RunStream`). README.md:63:
   "Settlement is the safe boundary: the reducer immediately commits `PAUSED`". The failed
   branch (`reducer.ts:231-243`) goes to `READY` and clears `pauseRequested`. Only a caller
   that submits events directly reaches either branch; through the CLI it is item 11.
4. **An ungated approval does not bind the candidate** (`ApprovalBindsGeneration`,
   `RunStream`). README.md:44: "An approval for a different validation, generation,
   node/edge shape, or reused spec revision is rejected." With `requiresHitl` false only the
   status is looked at (`reducer.ts:405`): an approval of `g1` lets `g2` be promoted.
5. **Recovery passes over a paused run** (`RecoveryLeavesNothingUndecided`, `Supervisor`).
   README.md:18 again, and README.md:70: an unresolved request is discarded. `recover`
   acts only in the phases of `supervisor.ts:160-161`; a run `PAUSED` with a pending
   validation or request keeps it, although the process that awaited it is gone. So does an
   admission request in `READY` (item 1). The coordinator returns such a run
   (`ReturnedHasNothingOpen`, `RecoveryCoordinator`), and a bridge attaches to it
   (`AttachLeavesNothingOpen`, `EventIds`).
6. **Two recoveries race** (`LeaseNotRecordedWhenRecovered`, `Supervisor`). `recover` reads
   the phase before it acquires the lease (`supervisor.ts:154`). If another process recovers
   in between, it offers `lease.acquired` to a `PAUSED_RECOVERED` run, which the comment at
   `:156` says it avoids; the reducer refuses, `recover` throws, and the row stays held
   until it expires.
7. **A step is admitted that was never started** (`JournaledBeforeAdmitted`, `DshBridge`).
   `index.ts:86` of the adapter: a pre-step "is journaled as a started LoopGraph attempt
   before DSH advances the model request". If `node.started` fails after
   `node.dispatch.requested`, the listener rejects; entered again for the same step,
   `preStep` finds the attempt's id active (`index.ts:194`) and lets the request go on.
   Nothing remembers the step, so its end is not observed and the attempt waits for a
   recovery.
8. **A publication found is not synced** (`AcknowledgedIsDurable`, `ArtifactStore`).
   `file-artifact-store.ts:60`: "publication returns only after file and directory sync". A
   `put` or `publishGeneration` whose name is already there returns without syncing the
   directory (`:107`, `:155`). If the process that made the link is between the link and
   its sync, a power loss takes a publication another process was told of. The publisher
   that synced is safe (`OwnPublicationIsDurable`).
9. **A progressed legacy run is upgraded** (`OnlyUntouchedRunsUpgraded`, `SchemaMigration`).
   `sqlite-run-store.ts:69-72`: "Only an untouched legacy run can be migrated", "Any
   progressed v1 stream fails closed". The upgrade looks at `run.created` alone, and what
   decides is whether the stream then replays: one that progressed by events which
   name no node (a lease, a pause) is given a graph, and the database then opens.
   `MigratableOpens` claims nothing of such a database.
10. **A restarted bridge meets its own numbers** (`RestartMeetsNoOldId`, `EventIds`). README.md:18
   promises a resume after a restart. With the default ids the first append of the new
   process is refused for an id of an earlier life, and the next, until the counter is past
   them. Every refusal is an operation that throws; `AttachesInTheEnd` shows that it ends, and
   `DurableIdsNew` that it does no harm to validation and request ids.

11. **A pause costs the attempt** (`Supervisor`). Here the contrary of the document holds, as
   `PausedAttemptIsLost`, so there is no trace to show but a theorem. README.md:63 says of a
   pause over a running attempt that settlement commits `PAUSED` and keeps the pending
   validation, and the reducer's tests submit those events. But the CLI must own the lease to
   append `pause.requested`, and whoever could settle must own it to append `node.settled`.
   Taking the lease back goes through `recover`, which declares the attempt lost: the run ends
   in `PAUSED_RECOVERED`, never at the boundary the document describes (theorem
   `PausingCostsAttempt`).

Further facts, which no document contradicts. After its validator threw, a bridge
settles the same step at every later boundary and is refused every time, until another
process recovers the run. A bridge that lost the lease, to a lapse or to the CLI's `resume`,
rejects every later step until it restarts, because only the first attach acquires.
`publishGeneration` retried after a failure has a new `createdAt` (`supervisor.ts:258`) and
conflicts with the manifest the first try left, so that generation id is spent. A store that
opens while another one cleans up or publishes may find a listed temporary file gone, and
then every operation of it throws (`CleanupBreaks`).

One more fact holds that a reader may not expect. Refused evidence remains recorded, and a pause and resume
turns the phase back to `VALIDATED` (`reducer.ts:321`), yet it can promote
nothing (`RefusedEvidenceNeverPromotes`).

## 6. Proofs

All theorems are checked by TLAPS for every value of the constants, under the `ASSUME`s
of the modules: bounds are naturals, holder ids and processes are distinct from the
sentinels, initial graphs are graphs, every graph is canonical (its entry and the ends of
its edges are its nodes, as `isValidLoopSpec` checks); digests are no generation ids, and
bytes cut short are not the bytes that were written. The rows an older program left are of
bounded length, and none carries the one-node graph that only the migrations make.

**Stream** (`RunStream_proofs`). `IInv` is inductive (`Invariance`). The safety properties
alone are not: that promotion is approved needs `ApprovalIsRecorded` (an approval in the
view is one a human gave for a prepared candidate) and `GenerationsPreparedOnce`
(an id determines a candidate). That refused evidence never promotes needs
`SpentEvidenceIsRefused`: passed evidence met outside `VALIDATED` and the pauses has been
refused, and the refusal stays visible exactly as long as the evidence does, so a
resume cannot revive it. That a promotion is about the graph it replaces needs
`EvidenceIsCurrent`, which is preserved by rollback because rollback needs `READY`, where
by `SpentEvidenceIsRefused` there is no live evidence. `IdsIssued` gives the freshness
used everywhere. From `IInv` follow `PhasesCohere` (the phase shows what is in flight and awaited, but for
what a pause leaves open), `NodeIsExecutable`, `GraphIsSnapshot`,
`PromotionNeedsApproval`, `RefusedStaysRefused`, `LostWorkIsLost`, `RevokedStaysRevoked`,
`PauseIsHeld`, the action property `PromotionAdvances` and the
refinement `Refinement` (`Spec => ImplementsGate`), one case per action. `RevisionsNameGraphs`
is inductive on top of `IInv`: a candidate is prepared above the graph in force and under an
identity no earlier candidate has, and what a promotion or a rollback puts in force is a
prepared graph.

**Store** (`RunStore_proofs`). `GrantMirrorsRow` carries the argument: a grant in memory
either mirrors the row or has expired, because a row is replaced only by a
transaction whose clock, read earlier, had already passed its expiry, and calls hold
clocks of the past (`CallsAreFromThePast`). With `CounterIsLastToken` it gives
`TokensAreUnique`, `FencingHolds`, `GrantIsOwnership` and the refinement of
`FencedLog`, for any number of processes sharing any holder ids. The clock is assumed
not to go backwards.

**Composition** (`Supervisor_proofs`). Every step of every process is a step of the
stream or leaves it alone, so `SystemSpec => Spec` (`SystemIsStream`) and all theorems of
the stream hold of a run driven by any number of supervisors and operators with any
crashes and lapses. `SystemTypeCorrectness` is the type invariant of the composition.

What processes keep in memory needs an invariant of its own, `ProcessInv`, relative to that
of the stream (`ProcessInvariance`). Attempt ids repeat, so an answer that names the attempt
in flight need not be about it; `OwnerDispatched` says why it is all the same: an owner past
`recover` dispatched the attempt in flight itself, and no pause was requested over it. A
process takes the lease only through `recover`, which declares such an attempt lost before it
ends, or through a command, which never dispatches; and whoever requested the pause had to own the
lease. From it follows `EvidenceIsOfOneExecution`, and with it `SecondAppendIsAccepted`: the owner's second append
finds what its first append wrote, because nobody else appended in between. For a promotion
that needs `AwaitedApprovalIsOpen`: an approval somebody awaits was asked for under an id
issued once, so as long as that id is the open request, the request is about the very
candidate that is promoted next. `AttemptsEndByDispatcher` is the same
argument for every way an attempt can end (`AttemptEnds`). The proofs treat a step as that of one process
and show first that it leaves every other owner's part alone (`BystandingSupervisor`,
`BystandingOperator`: two processes do not own one lease). `PausingCostsAttempt` proves item 11 of section 5:
a settlement of an attempt under a requested pause is impossible for an owner by
`OwnerDispatched`, so the only step that ends it is a recovery. Where the argument meets a
`recover` that throws, it uses that the object is dropped (section 2).

**Bridge** (`DshBridge_proofs`). Every action of a bridge is one of `Supervisor` or leaves
the run alone (`BridgeNextIsSystem`), so `BridgeSpec => SystemSpec` (`BridgeIsSystem`) and,
through it, the stream's theorems hold of a run the harness drives. This needs an
invariant, since a listener captures values and uses them later: `BridgeInv` adds to the
properties that a listener at its second append captured what its supervisor did
(`ListenerAgrees`), that it does what it was entered for (`GoalIsFollowed`), and that an
owner which goes on after asking was approved (`BeginIsApproved`). The argument has two
halves. A step of one process leaves what the invariant says of the others alone
(`Undisturbed`): whoever appends owns the run, so another owner's journal does not move. A step
of the process itself is treated conjunct by conjunct (`SelfAgrees`, `SelfApproved`,
`SelfSettled`, `SelfRemembers`). From `BridgeInv` follow `StepsSettleOnce`, `BridgeMemoryAgrees` and
`BridgeGateHolds`, for any number of processes, steps and faults; `BridgeRefinesGate` and
`BridgeEvidenceIsOfOneExecution` carry the promotion gate and the composition's properties
over to the bridge.

**Ids** (`EventIds_proofs`). `IdsAreNew`: no validation or request id is recorded twice. The
journal refuses a repeated event number (`NumbersUnique`), and the number drawn for a
payload is the one before the event's (`DrawnJustBefore`), so two events with one drawn
number would have one event number. Nothing is needed of the counters, which is why
restarting them is harmless. This is what `RunStream` assumes of its ids.
`AttachesSafely`: a bridge comes to keep a Supervisor only of a run that is safe, that is with
no attempt in flight, not at the admission gate, and validating only behind a pause.
`AttachesByPhase` says what an attach still has to append: everything the phase of the run
called for when the lease was acquired, or the recovery alone, and `OpenByPhase` what may be open in
which phase. Nobody else can change the phase meanwhile, because appending needs the lease;
so the last event of an attach finds the run safe or makes it so.

**Recovery coordinator** (`RecoveryCoordinator_proofs`). Every step is a step of the stream or leaves
it alone (`RecoveryIsStream`), so the stream's theorems hold with coordinators, too.
`SeenIsJournal` carries `RecoverySweepsWhatWasSeen`: as long as the revision a coordinator
read is the journal's, so is the view, because every append raises the revision.
`RecoveryReturnsSafe` needs two things: that a coordinator which returned had read a
journal that needed no recovery, which is the other half of `SeenIsJournal`, and what the
stream's `PhaseCoherent` says is open in the phases `recover` leaves alone.

**Artifact store** (`ArtifactStore_proofs`). Three facts make the properties inductive.
`FilesAreWhole`: a name holds what belongs under it, and synced bytes. `TemporaryIsOwn`: a
temporary file belongs to one call and is synced before it is linked, which gives the bytes of
`FilesAreWhole` at the link. `CallSawRight`: a call past a check still finds what it checked,
because nothing a live process saw goes away: names are never replaced, and a power
loss ends every process. From these follow `NamesAreWhole`, `ManifestsAreComplete`,
`ToldHolds`, `SyncedStays`, `TemporariesSurvive`, and the refinement
`StoreRefinesRegister`: a link is a write, a directory sync settles, a power loss is one,
and every other step stutters. Most actions change one call and no file; `MovePreserves` treats them
at once, and says what the new call must satisfy.

**Migrations** (`SchemaMigration_proofs`). Three facts are inductive together
(`MigrationInvariance`). `VersionRead`: the version a process read is still the current one
or an earlier one, never a later. `VersionHolds`: what a version promises of the rows, above
all that version 3 means a journal of which every stream replays. `LegacyIsMigratable`: a graph
was made from a reference only in a database that can be migrated as a whole. The step that
matters is a migration begun by a version read long ago: a stream that replays is
its own upgrade, so a late migration of a migrated database changes no row. From these follow `OpenIsCurrent`, `MigrationFailsClosed`, and the action
property `JournalIsKept`, for any number of processes and runs.

**Only model-checked.** Every invariant, action property and refinement the passing runs check
is stated by a theorem. The liveness properties (`UncertainWorkIsResolved`,
`PauseTakesEffect`, `AttachesInTheEnd`, `MigratableOpens`) are not, since liveness under fairness
and `ENABLED` are out of the prover's reach.
The violations are TLC traces. No definition is recursive, so nothing rests on induction
over data.

## 7. Plan

Done in this order: `RunReducer`, `RunStream`, `PromotionGate`, `RunStore`, `FencedLog`,
`Supervisor`, `DshBridge`, `RecoveryCoordinator`, `ArtifactStore`, `WriteOnceRegister`,
`SchemaMigration`, `EventIds`, with the proofs of section 6. Left:

1. `DshBridge`: several agents whose listeners interleave on one bridge.
2. `Supervisor` over `RunStore` itself, so that its lease is shown to be what the store's rows
   give instead of being taken from the store's theorems.

## 8. Not modelled

* *Event validation and canonical JSON*: pure functions on JSON shapes; the models
  start from events that passed them. Corrupt rows make every read throw.
* *Demo harness and scripts*: no logic of their own.
* *Logging, argument parsing, output* of the CLI, and `inspect`; the observation sink of the
  adapter, whose failures are contained.
* *SQLite itself*: `BEGIN IMMEDIATE ... COMMIT` is taken to be atomic and durable.
* *Several runs*: runs share no rows except the uniqueness of event ids, which `EventIds` models.
* *Artifact directories*: they are taken to exist and to be durable. Of two stores that
  create them at once one may find them made and throw (`#ensureDirectory`); their own
  entries in the parent directory are never synced. Symbolic links and size limits add refusals
  before anything is written.
* *Checkpoints with a wrong checksum*, which read as no checkpoint.
