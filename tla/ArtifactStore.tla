---------------------------- MODULE ArtifactStore ---------------------------
(***************************************************************************)
(* packages/storage/src/file-artifact-store.ts: blobs named by their       *)
(* digest and manifests named by their generation, published from a synced *)
(* temporary file by a hard link and a sync of the directory.              *)
(*                                                                         *)
(* Several processes have a store open on one root.  A call is one step    *)
(* per system call, or per await between which nothing is decided, so the  *)
(* calls of all processes interleave.  A process may die at any step and   *)
(* leave its temporary file behind; the machine may lose power, which ends *)
(* every process and takes from the disk what was not synced: the data of  *)
(* a file, the entry of a name.  The directories themselves exist.         *)
(*                                                                         *)
(* An operator marked Mutant is a mistake one could make in the definition *)
(* that follows it, kept to show which property notices it.                *)
(***************************************************************************)
EXTENDS FiniteSets

CONSTANTS
    Processes,     \* processes with a FileArtifactStore on the root
    Blobs,         \* digests, which stand for the bytes they name
    Generations,   \* generation ids
    Stamps,        \* values of createdAt
    Temps,         \* bound: names of temporary files, each used once
    None,          \* no content, no temporary file
    Torn           \* bytes that were not synced and did not survive

ASSUME PathsAssumption == Blobs \intersect Generations = {}

Manifests == [createdAt : Stamps, artifacts : SUBSET Blobs \ {{}}]
Paths == Blobs \union Generations
Contents == Blobs \union Manifests

ASSUME NoneAssumption == None \notin Contents /\ None \notin Temps /\ None \notin Paths

ASSUME TornAssumption == Torn \notin Contents /\ Torn # None

VARIABLES
    files,     \* path -> the file its name leads to
    temp,      \* temporary files
    old,       \* temporary files older than STALE_TEMP_AGE_MS
    store,     \* process -> what its FileArtifactStore is doing
    call,      \* process -> the operation it is in
    told,      \* history: publications a live process was told of
    acked,     \* history: publications that returned, and whether the
               \* returning call synced the directory itself
    lost       \* history: blobs a power loss took away

vars == <<files, temp, old, store, call, told, acked, lost>>

Dirs == {"blobs", "manifests"}
DirOf(path) == IF path \in Blobs THEN "blobs" ELSE "manifests"

\* synced: the bytes are on the disk; kept: so is the directory entry.
File(content, synced, kept) == [content |-> content, synced |-> synced, kept |-> kept]
Absent == File(None, FALSE, FALSE)
Files == [content : Contents \union {None, Torn}, synced : BOOLEAN, kept : BOOLEAN]

Unused == [dir |-> "nowhere", synced |-> FALSE]
Gone == [dir |-> "removed", synced |-> FALSE]
Temp(dir, synced) == [dir |-> dir, synced |-> synced]
TempFiles == [dir : Dirs \union {"nowhere", "removed"}, synced : BOOLEAN]
InDir(t) == temp[t].dir \in Dirs

Store(stage, dir, todo) == [stage |-> stage, dir |-> dir, todo |-> todo]
Closed == Store("closed", "blobs", {})
Ready == Store("ready", "blobs", {})
Broken == Store("broken", "blobs", {})

Call(stage, path, content, t, own) ==
    [stage |-> stage, path |-> path, content |-> content, temp |-> t, own |-> own]
Idle == Call("idle", None, None, None, FALSE)
At(p, stage) == call[p].stage = stage
Publication == [path : Paths, content : Contents]
\* What a name may hold.
ContentsOf(path) == IF path \in Blobs THEN {path} ELSE Manifests

Stages == {"idle", "read", "readblobs", "check", "write", "sync", "link", "syncdir",
           "compare", "verify", "done", "failed"}
Calls == [stage : Stages, path : Paths \union {None}, content : Contents \union {None},
          temp : Temps \union {None}, own : BOOLEAN]
\* What a call holds at its stage.
WellFormed(c) ==
    /\ c.stage = "idle" => c = Idle
    /\ c.stage # "idle" => c.path \in Paths
    /\ c.stage \notin {"idle", "read"} => c.content \in ContentsOf(c.path)
    /\ c.stage \in {"read", "readblobs", "check"} => c.path \in Generations
    /\ c.stage \in {"read", "readblobs", "check", "write"} => c.temp = None
    /\ c.stage \in {"sync", "link", "syncdir", "compare", "verify", "done"} => c.temp \in Temps
    /\ c.own => c.stage \in {"verify", "done", "failed"}

PublicationOf(p) == [path |-> call[p].path, content |-> call[p].content]

TypeOK ==
    /\ files \in [Paths -> Files]
    /\ temp \in [Temps -> TempFiles]
    /\ old \subseteq Temps
    /\ store \in [Processes -> [stage : {"closed", "list", "clean", "ready", "broken"},
                                dir : Dirs, todo : SUBSET Temps]]
    /\ call \in [Processes -> Calls]
    /\ \A p \in Processes : WellFormed(call[p])
    /\ told \subseteq Publication
    /\ acked \subseteq [path : Paths, content : Contents, own : BOOLEAN]
    /\ lost \subseteq Blobs

Init ==
    /\ files = [path \in Paths |-> Absent]
    /\ temp = [t \in Temps |-> Unused]
    /\ old = {}
    /\ store = [p \in Processes |-> Closed]
    /\ call = [p \in Processes |-> Idle]
    /\ told = {} /\ acked = {} /\ lost = {}

-----------------------------------------------------------------------------
Visible(path) == files[path].content # None

\* get: the file is there and its bytes have the digest it is named by.
Readable(b) == files[b].content = b

Go(p, stage) == call' = [call EXCEPT ![p].stage = stage]
Return(p) == call' = [call EXCEPT ![p] = Idle]

-----------------------------------------------------------------------------
(* Opening: the constructor starts #initialize, every operation awaits it. *)

OpenStore(p) ==
    /\ store[p] = Closed
    /\ store' = [store EXCEPT ![p] = Store("list", "blobs", {})]
    /\ UNCHANGED <<files, temp, old, call, told, acked, lost>>

\* readdir
ListTemporaries(p) ==
    /\ store[p].stage = "list"
    /\ store' = [store EXCEPT ![p] = Store("clean", store[p].dir,
                                     {t \in Temps : temp[t].dir = store[p].dir})]
    /\ UNCHANGED <<files, temp, old, call, told, acked, lost>>

\* One entry of the listing: lstat, and unlink if it is old.
CleanTemporary(p, t) ==
    /\ store[p].stage = "clean" /\ t \in store[p].todo
    /\ InDir(t)
    /\ temp' = IF t \in old THEN [temp EXCEPT ![t] = Gone] ELSE temp
    /\ store' = [store EXCEPT ![p].todo = store[p].todo \ {t}]
    /\ UNCHANGED <<files, old, call, told, acked, lost>>

\* The entry was listed and is gone: lstat throws, and the rejection of
\* #initialize is what every operation of this store will meet.
CleanupBreaks(p, t) ==
    /\ store[p].stage = "clean" /\ t \in store[p].todo
    /\ ~InDir(t)
    /\ store' = [store EXCEPT ![p] = Broken]
    /\ UNCHANGED <<files, temp, old, call, told, acked, lost>>

DirectoryCleaned(p) ==
    /\ store[p].stage = "clean" /\ store[p].todo = {}
    /\ store' = [store EXCEPT ![p] = IF store[p].dir = "blobs"
                                     THEN Store("list", "manifests", {}) ELSE Ready]
    /\ UNCHANGED <<files, temp, old, call, told, acked, lost>>

-----------------------------------------------------------------------------
(* put and publishGeneration *)

CallPut(p, b) ==
    /\ store[p] = Ready /\ call[p] = Idle
    /\ call' = [call EXCEPT ![p] = Call("write", b, b, None, FALSE)]
    /\ UNCHANGED <<files, temp, old, store, told, acked, lost>>

\* Mutant: the artifacts are only looked at after the link.
CallPublishUnchecked(p, g, manifest) ==
    /\ store[p] = Ready /\ call[p] = Idle
    /\ call' = [call EXCEPT ![p] = Call("write", g, manifest, None, FALSE)]
    /\ UNCHANGED <<files, temp, old, store, told, acked, lost>>

CallPublish(p, g, manifest) ==
    /\ store[p] = Ready /\ call[p] = Idle
    /\ call' = [call EXCEPT ![p] = Call("check", g, manifest, None, FALSE)]
    /\ UNCHANGED <<files, temp, old, store, told, acked, lost>>

\* publishGeneration gets every artifact before it writes anything.
CheckArtifacts(p) ==
    /\ At(p, "check")
    /\ \A b \in call[p].content.artifacts : Readable(b)
    /\ Go(p, "write")
    /\ UNCHANGED <<files, temp, old, store, told, acked, lost>>

\* An artifact is missing or cannot be read: nothing was written yet.
CheckThrows(p) ==
    /\ At(p, "check")
    /\ Return(p)
    /\ UNCHANGED <<files, temp, old, store, told, acked, lost>>

\* #writeSyncedTemporary opens a name nobody used and writes; then it syncs.
CreateTemporary(p, t) ==
    /\ At(p, "write")
    /\ temp[t] = Unused
    /\ temp' = [temp EXCEPT ![t] = Temp(DirOf(call[p].path), FALSE)]
    /\ call' = [call EXCEPT ![p].stage = "sync", ![p].temp = t]
    /\ UNCHANGED <<files, old, store, told, acked, lost>>

\* Mutant: the data is left to the page cache.
SkipDataSync(p) ==
    /\ At(p, "sync")
    /\ Go(p, "link")
    /\ UNCHANGED <<files, temp, old, store, told, acked, lost>>

SyncTemporary(p) ==
    /\ At(p, "sync")
    /\ temp' = IF InDir(call[p].temp)
               THEN [temp EXCEPT ![call[p].temp] = Temp(temp[call[p].temp].dir, TRUE)]
               ELSE temp
    /\ Go(p, "link")
    /\ UNCHANGED <<files, old, store, told, acked, lost>>

\* Mutant: rename instead of link, which replaces what the name holds.
RenameOver(p) ==
    /\ At(p, "link")
    /\ InDir(call[p].temp)
    /\ files' = [files EXCEPT ![call[p].path] =
                     File(call[p].content, temp[call[p].temp].synced, FALSE)]
    /\ Go(p, "syncdir")
    /\ UNCHANGED <<temp, old, store, told, acked, lost>>

Link(p) ==
    /\ At(p, "link")
    /\ InDir(call[p].temp) /\ ~Visible(call[p].path)
    /\ files' = [files EXCEPT ![call[p].path] =
                     File(call[p].content, temp[call[p].temp].synced, FALSE)]
    /\ Go(p, "syncdir")
    /\ UNCHANGED <<temp, old, store, told, acked, lost>>

\* Mutant: a manifest that is already there is as good as one's own.
LinkExistsUncompared(p) ==
    /\ At(p, "link")
    /\ InDir(call[p].temp) /\ Visible(call[p].path)
    /\ Go(p, "verify")
    /\ UNCHANGED <<files, temp, old, store, told, acked, lost>>

\* EEXIST: put goes on to read what is there, publishGeneration compares first.
LinkExists(p) ==
    /\ At(p, "link")
    /\ InDir(call[p].temp) /\ Visible(call[p].path)
    /\ Go(p, IF call[p].path \in Blobs THEN "verify" ELSE "compare")
    /\ UNCHANGED <<files, temp, old, store, told, acked, lost>>

\* ENOENT: a store that opened an hour later took the temporary file.
LinkLost(p) ==
    /\ At(p, "link")
    /\ ~InDir(call[p].temp)
    /\ Go(p, "failed")
    /\ UNCHANGED <<files, temp, old, store, told, acked, lost>>

\* Mutant: a directory that cannot be synced is taken for one that was.
SyncDirectoryQuietly(p) ==
    /\ At(p, "syncdir")
    /\ call' = [call EXCEPT ![p].stage = "verify", ![p].own = TRUE]
    /\ UNCHANGED <<files, temp, old, store, told, acked, lost>>

\* The sync keeps every entry of the directory, whoever linked it.
SyncDirectory(p) ==
    /\ At(p, "syncdir")
    /\ files' = [path \in Paths |->
                    IF DirOf(path) = DirOf(call[p].path) /\ Visible(path)
                    THEN File(files[path].content, files[path].synced, TRUE)
                    ELSE files[path]]
    /\ call' = [call EXCEPT ![p].stage = "verify", ![p].own = TRUE]
    /\ UNCHANGED <<temp, old, store, told, acked, lost>>

Compare(p) ==
    /\ At(p, "compare")
    /\ Go(p, IF files[call[p].path].content = call[p].content THEN "verify" ELSE "failed")
    /\ UNCHANGED <<files, temp, old, store, told, acked, lost>>

\* The last gets: of the blob, or of every artifact of the manifest.
Verify(p) ==
    /\ At(p, "verify")
    /\ LET needed == IF call[p].path \in Blobs THEN {call[p].path} ELSE call[p].content.artifacts
       IN  Go(p, IF \A b \in needed : Readable(b) THEN "done" ELSE "failed")
    /\ UNCHANGED <<files, temp, old, store, told, acked, lost>>

\* A system call fails: EIO, ENOSPC, a directory that cannot be synced.  The
\* name that was linked stays linked.
Fails(p) ==
    /\ call[p].stage \in {"write", "sync", "link", "syncdir", "compare", "verify"}
    /\ Go(p, "failed")
    /\ UNCHANGED <<files, temp, old, store, told, acked, lost>>

\* finally: the temporary file is unlinked, ENOENT is fine.
Unlinked(p) == IF call[p].temp # None THEN [temp EXCEPT ![call[p].temp] = Gone] ELSE temp

Published(p) ==
    /\ At(p, "done")
    /\ temp' = Unlinked(p)
    /\ told' = told \union {PublicationOf(p)}
    /\ acked' = acked \union {[path |-> call[p].path, content |-> call[p].content,
                               own |-> call[p].own]}
    /\ Return(p)
    /\ UNCHANGED <<files, old, store, lost>>

\* The call throws; also when only the unlink failed, and the file stays.
Throws(p) ==
    /\ \/ At(p, "failed") /\ temp' = Unlinked(p)
       \/ call[p].stage \in {"done", "failed"} /\ temp' = temp
    /\ Return(p)
    /\ UNCHANGED <<files, old, store, told, acked, lost>>

-----------------------------------------------------------------------------
(* readManifest *)

CallRead(p, g) ==
    /\ store[p] = Ready /\ call[p] = Idle
    /\ call' = [call EXCEPT ![p] = Call("read", g, None, None, FALSE)]
    /\ UNCHANGED <<files, temp, old, store, told, acked, lost>>

ReadContent(p) ==
    /\ At(p, "read")
    /\ files[call[p].path].content \in Manifests
    /\ call' = [call EXCEPT ![p].stage = "readblobs",
                            ![p].content = files[call[p].path].content]
    /\ UNCHANGED <<files, temp, old, store, told, acked, lost>>

ReadArtifacts(p) ==
    /\ At(p, "readblobs")
    /\ \A b \in call[p].content.artifacts : Readable(b)
    /\ told' = told \union {PublicationOf(p)}
    /\ Return(p)
    /\ UNCHANGED <<files, temp, old, store, acked, lost>>

\* NOT_FOUND, CORRUPT_EVENT or a read that fails.
ReadThrows(p) ==
    /\ call[p].stage \in {"read", "readblobs"}
    /\ Return(p)
    /\ UNCHANGED <<files, temp, old, store, told, acked, lost>>

-----------------------------------------------------------------------------
(* The world *)

\* An hour passes while temporary files lie around.
HourPasses ==
    /\ old' = old \union {t \in Temps : InDir(t)}
    /\ UNCHANGED <<files, temp, store, call, told, acked, lost>>

\* The process dies, and with it what only it was told.
Crash(p) ==
    /\ store' = [store EXCEPT ![p] = Closed]
    /\ Return(p)
    /\ UNCHANGED <<files, temp, old, told, acked, lost>>

\* The entries a directory sync did not keep, and any of which may be lost.
Unkept == {path \in Paths : Visible(path) /\ ~files[path].kept}

AfterPowerLoss(path, gone) ==
    IF ~Visible(path) \/ path \in gone THEN Absent
    ELSE File(IF files[path].synced THEN files[path].content ELSE Torn, TRUE, TRUE)

\* Temporary files stay: one that is lost too only leaves less to clean.
PowerLoss ==
    /\ \E gone \in SUBSET Unkept :
           /\ files' = [path \in Paths |-> AfterPowerLoss(path, gone)]
           /\ lost' = lost \union (gone \intersect Blobs)
    /\ store' = [p \in Processes |-> Closed]
    /\ call' = [p \in Processes |-> Idle]
    /\ told' = {}
    /\ UNCHANGED <<temp, old, acked>>

-----------------------------------------------------------------------------
OpenStep(p) ==
    \/ OpenStore(p) \/ ListTemporaries(p) \/ DirectoryCleaned(p)
    \/ \E t \in Temps : CleanTemporary(p, t) \/ CleanupBreaks(p, t)

PublishStep(p) ==
    \/ \E b \in Blobs : CallPut(p, b)
    \/ \E g \in Generations, manifest \in Manifests : CallPublish(p, g, manifest)
    \/ CheckArtifacts(p) \/ CheckThrows(p)
    \/ \E t \in Temps : CreateTemporary(p, t)
    \/ SyncTemporary(p) \/ Link(p) \/ LinkExists(p) \/ LinkLost(p)
    \/ SyncDirectory(p) \/ Compare(p) \/ Verify(p)
    \/ Fails(p) \/ Published(p) \/ Throws(p)

ReadStep(p) ==
    \/ \E g \in Generations : CallRead(p, g)
    \/ ReadContent(p) \/ ReadArtifacts(p) \/ ReadThrows(p)

Next ==
    \/ \E p \in Processes : OpenStep(p) \/ PublishStep(p) \/ ReadStep(p) \/ Crash(p)
    \/ HourPasses
    \/ PowerLoss

Spec == Init /\ [][Next]_vars

-----------------------------------------------------------------------------
\* What any live caller was told is published is what the name holds, and a
\* generation it was told of has all its artifacts: two publishers of one
\* generation with different manifests are never both told they succeeded.
ToldIsThere ==
    \A k \in told :
        /\ files[k.path].content = k.content
        /\ k.path \in Generations => \A b \in k.content.artifacts : Readable(b)

\* A manifest is the commit marker of its blobs: one that can be seen has all
\* its artifacts, except those a power loss took away later.
ManifestHasBlobs ==
    \A g \in Generations :
        files[g].content \in Manifests =>
            \A b \in files[g].content.artifacts : Readable(b) \/ b \in lost

\* No name leads to bytes that were cut short, whenever the power is lost.
NeverTorn == \A path \in Paths : Visible(path) => files[path].synced /\ files[path].content # Torn

\* A publication that returned after its own sync of the directory is there
\* for good, through crashes, power losses and every later publisher.
OwnPublicationIsDurable ==
    \A a \in acked : a.own => files[a.path].content = a.content /\ files[a.path].kept

\* What the documentation says of every publication that returned: it was
\* synced, so a power loss does not take it.
AcknowledgedIsDurable == \A a \in acked : files[a.path].content = a.content

\* A store that opens never takes a temporary file from a call in progress
\* unless that call has been at it for an hour.
FreshTemporarySurvives ==
    \A p \in Processes :
        call[p].stage \in {"sync", "link", "syncdir"} =>
            InDir(call[p].temp) \/ call[p].temp \in old

Register == INSTANCE WriteOnceRegister WITH
    Names <- Paths,
    Values <- Contents,
    Nothing <- None,
    value <- [path \in Paths |-> files[path].content],
    permanent <- {path \in Paths : files[path].kept}

\* Every name is a write-once register, made permanent by a directory sync.
ImplementsRegister == Register!Spec

-----------------------------------------------------------------------------
(* The strengthening that makes the safety properties inductive. *)

\* A name holds what belongs under it, and all of it is on the disk.
FilesAreWhole ==
    \A path \in Paths :
        /\ files[path].content \in ContentsOf(path) \union {None}
        /\ Visible(path) => files[path].synced
        /\ files[path].kept => Visible(path)

\* A temporary file belongs to one call, and is synced when it is linked.
TemporaryIsOwn ==
    \A p \in Processes :
        /\ call[p].temp # None => temp[call[p].temp] # Unused
        /\ \A q \in Processes : p # q /\ call[p].temp # None => call[p].temp # call[q].temp
        /\ At(p, "link") /\ InDir(call[p].temp) => temp[call[p].temp].synced

\* A call past a check still finds what the check found: nothing a process saw
\* goes away while that process lives.
CallSawRight ==
    \A p \in Processes :
        /\ call[p].stage \in {"syncdir", "verify", "done", "readblobs"} =>
               files[call[p].path].content = call[p].content
        /\ call[p].stage \in {"verify", "done"} /\ call[p].own => files[call[p].path].kept
        /\ call[p].stage \in {"write", "sync", "link", "syncdir", "compare", "verify", "done"}
               /\ call[p].path \in Generations =>
               \A b \in call[p].content.artifacts : Readable(b)

\* The inductive invariant.
IInv ==
    /\ TypeOK
    /\ FilesAreWhole
    /\ TemporaryIsOwn
    /\ CallSawRight
    /\ ToldIsThere
    /\ ManifestHasBlobs
    /\ OwnPublicationIsDurable
    /\ FreshTemporarySurvives
=============================================================================
