------------------------ MODULE ArtifactStore_proofs -------------------------
(***************************************************************************)
(* Proofs about ArtifactStore for any number of processes, blobs,          *)
(* generations and timestamps, with crashes and power losses at any step.  *)
(***************************************************************************)
EXTENDS ArtifactStore, TLAPS

StoreStates == [stage : {"closed", "list", "clean", "ready", "broken"},
                dir : Dirs, todo : SUBSET Temps]

\* What a process goes to fits what the files say, and it holds no temporary
\* file but its own; a call that is about to link or to sync is not among these.
Fits(p, c) ==
    /\ c \in Calls /\ WellFormed(c)
    /\ c.temp \in {None, call[p].temp}
    /\ c.stage \notin {"sync", "link", "syncdir"}
    /\ c.stage \in {"verify", "done", "readblobs"} => files[c.path].content = c.content
    /\ c.stage \in {"verify", "done"} /\ c.own => files[c.path].kept
    /\ c.stage \in {"write", "compare", "verify", "done"} /\ c.path \in Generations =>
           \A b \in c.content.artifacts : Readable(b)

\* Temporary files that other calls hold stay as they are.
OthersKeepTheirs(p) ==
    /\ temp' \in [Temps -> TempFiles]
    /\ \A q \in Processes \ {p} : call[q].temp # None => temp'[call[q].temp] = temp[call[q].temp]

\* The call a process goes to by Go.
LEMMA GoIs ==
  ASSUME TypeOK, NEW p \in Processes, NEW stage \in Stages, Go(p, stage)
  PROVE  /\ call' = [call EXCEPT ![p] = Call(stage, call[p].path, call[p].content,
                                             call[p].temp, call[p].own)]
         /\ Call(stage, call[p].path, call[p].content, call[p].temp, call[p].own) \in Calls
<1>1. call[p] \in Calls
  BY DEF TypeOK
<1>2. [call[p] EXCEPT !.stage = stage] = Call(stage, call[p].path, call[p].content,
                                            call[p].temp, call[p].own)
  BY <1>1 DEF Calls, Call
<1>3. call' = [call EXCEPT ![p] = [call[p] EXCEPT !.stage = stage]]
  BY DEF Go
<1>4. Call(stage, call[p].path, call[p].content, call[p].temp, call[p].own) \in Calls
  BY <1>1 DEF Calls, Call
<1> QED BY <1>2, <1>3, <1>4

\* An idle call fits anything.
LEMMA IdleFits ==
  ASSUME NEW p
  PROVE  Fits(p, Idle)
BY DEF Fits, Idle, Call, Calls, Stages, WellFormed

\* What a manifest names are blobs, hence paths.
LEMMA ArtifactsAreBlobs ==
  ASSUME NEW m \in Manifests, NEW b \in m.artifacts
  PROVE  b \in Blobs /\ b \in Paths
BY DEF Manifests, Paths

\* A call changes and the files do not.
LEMMA MovePreserves ==
  ASSUME IInv, NEW p \in Processes, NEW c, Fits(p, c), OthersKeepTheirs(p),
         call' = [call EXCEPT ![p] = c],
         c.temp = None \/ temp' = temp,
         store' \in [Processes -> StoreStates],
         files' = files, old' = old, lost' = lost,
         told' \subseteq Publication, ToldIsThere',
         acked' \subseteq [path : Paths, content : Contents, own : BOOLEAN],
         OwnPublicationIsDurable'
  PROVE  IInv'
<1>1. /\ call' \in [Processes -> Calls]
      /\ call'[p] = c
      /\ \A q \in Processes \ {p} : call'[q] = call[q]
  BY DEF IInv, TypeOK, Fits
<1>2. TypeOK'
  BY <1>1 DEF IInv, TypeOK, Fits, OthersKeepTheirs, StoreStates, WellFormed
<1>3. FilesAreWhole' /\ ManifestHasBlobs'
  BY DEF IInv, FilesAreWhole, ManifestHasBlobs, Visible, Readable
<1>4. TemporaryIsOwn'
  <2>1. \A q \in Processes \ {p} : call[q].temp # None => temp'[call[q].temp] = temp[call[q].temp]
    BY DEF OthersKeepTheirs
  <2>2. c.temp # None => c.temp = call[p].temp /\ temp' = temp
    BY DEF Fits
  <2>3. \A q \in Processes : call'[q].temp # None =>
            call'[q].temp = call[q].temp /\ temp'[call[q].temp] = temp[call[q].temp]
    BY <1>1, <2>1, <2>2
  <2>4. \A q \in Processes : call'[q].temp # None => temp'[call'[q].temp] # Unused
    BY <2>3 DEF IInv, TemporaryIsOwn
  <2>5. \A q, r \in Processes : q # r /\ call'[q].temp # None => call'[q].temp # call'[r].temp
    BY <2>3 DEF IInv, TemporaryIsOwn
  <2>6. \A q \in Processes : call'[q].stage = "link" => q # p
    BY <1>1 DEF Fits
  <2>7. \A q \in Processes : call[q].stage = "link" => call[q].temp # None
    BY NoneAssumption DEF IInv, TypeOK, WellFormed
  <2>8. \A q \in Processes : call'[q].stage = "link" /\ temp'[call'[q].temp].dir \in Dirs =>
            temp'[call'[q].temp].synced
    BY <1>1, <2>1, <2>6, <2>7 DEF IInv, TemporaryIsOwn, At, InDir
  <2> QED BY <2>4, <2>5, <2>8 DEF TemporaryIsOwn, At, InDir
<1>5. CallSawRight'
  <2>1. \A q \in Processes :
          /\ call'[q].stage \in {"syncdir", "verify", "done", "readblobs"} =>
                 files[call'[q].path].content = call'[q].content
          /\ call'[q].stage \in {"verify", "done"} /\ call'[q].own => files[call'[q].path].kept
    BY <1>1 DEF IInv, CallSawRight, Fits
  <2>2. \A q \in Processes :
            call'[q].stage \in {"write", "sync", "link", "syncdir", "compare", "verify", "done"}
               /\ call'[q].path \in Generations =>
               \A b \in call'[q].content.artifacts : Readable(b)
    BY <1>1 DEF IInv, CallSawRight, Fits
  <2> QED BY <2>1, <2>2 DEF CallSawRight, Readable
<1>6. FreshTemporarySurvives'
  <2> SUFFICES ASSUME NEW q \in Processes, call'[q].stage \in {"sync", "link", "syncdir"}
               PROVE  temp'[call'[q].temp].dir \in Dirs \/ call'[q].temp \in old'
    BY DEF FreshTemporarySurvives, InDir
  <2>1. CASE q = p
    BY <2>1, <1>1 DEF Fits
  <2>2. CASE q # p
    <3>1. call[q].stage \in {"sync", "link", "syncdir"} => call[q].temp # None
      BY NoneAssumption DEF IInv, TypeOK, WellFormed
    <3> QED BY <2>2, <3>1, <1>1 DEF IInv, FreshTemporarySurvives, InDir, OthersKeepTheirs
  <2> QED BY <2>1, <2>2
<1> QED BY <1>2, <1>3, <1>4, <1>5, <1>6 DEF IInv

\* The same, with nothing else changed.
LEMMA StepPreserves ==
  ASSUME IInv, NEW p \in Processes, NEW c, Fits(p, c),
         call' = [call EXCEPT ![p] = c],
         store' \in [Processes -> StoreStates],
         UNCHANGED <<files, temp, old, told, acked, lost>>
  PROVE  IInv'
<1>1. OthersKeepTheirs(p)
  BY DEF IInv, TypeOK, OthersKeepTheirs
<1>2. ToldIsThere' /\ told' \subseteq Publication
  BY DEF IInv, TypeOK, ToldIsThere, Readable
<1>3. OwnPublicationIsDurable' /\ acked' \subseteq [path : Paths, content : Contents, own : BOOLEAN]
  BY DEF IInv, TypeOK, OwnPublicationIsDurable
<1> QED BY <1>1, <1>2, <1>3, MovePreserves

\* What Go carries over from the call it moves.
Moved(p, stage) == Call(stage, call[p].path, call[p].content, call[p].temp, call[p].own)

\* A step that only moves a call to a stage it may be at.
LEMMA GoPreserves ==
  ASSUME IInv, NEW p \in Processes, NEW stage \in Stages, Go(p, stage), Fits(p, Moved(p, stage)),
         UNCHANGED <<files, temp, old, store, told, acked, lost>>
  PROVE  IInv'
<1>1. call' = [call EXCEPT ![p] = Moved(p, stage)]
  BY GoIs DEF IInv, Moved
<1>2. store' \in [Processes -> StoreStates]
  BY DEF IInv, TypeOK, StoreStates
<1> QED BY <1>1, <1>2, StepPreserves

\* A call begins or ends without a trace.
LEMMA BeginPreserves ==
  ASSUME IInv, NEW p \in Processes,
         \/ \E b \in Blobs : CallPut(p, b)
         \/ \E g \in Generations, m \in Manifests : CallPublish(p, g, m)
         \/ \E g \in Generations : CallRead(p, g)
         \/ CheckThrows(p) \/ ReadThrows(p)
  PROVE  IInv'
<1>0. store' \in [Processes -> StoreStates]
  BY DEF IInv, TypeOK, StoreStates, CallPut, CallPublish, CallRead, CheckThrows, ReadThrows
<1>1. ASSUME NEW b \in Blobs, CallPut(p, b) PROVE IInv'
  <2>1. Fits(p, Call("write", b, b, None, FALSE))
    BY PathsAssumption DEF Fits, Call, Calls, Stages, WellFormed, Paths, Contents, ContentsOf
  <2> QED BY <1>0, <1>1, <2>1, StepPreserves DEF CallPut
<1>2. ASSUME NEW g \in Generations, NEW m \in Manifests, CallPublish(p, g, m) PROVE IInv'
  <2>1. Fits(p, Call("check", g, m, None, FALSE))
    BY PathsAssumption DEF Fits, Call, Calls, Stages, WellFormed, Paths, Contents, ContentsOf
  <2> QED BY <1>0, <1>2, <2>1, StepPreserves DEF CallPublish
<1>3. ASSUME NEW g \in Generations, CallRead(p, g) PROVE IInv'
  <2>1. Fits(p, Call("read", g, None, None, FALSE))
    BY PathsAssumption DEF Fits, Call, Calls, Stages, WellFormed, Paths, Contents, ContentsOf
  <2> QED BY <1>0, <1>3, <2>1, StepPreserves DEF CallRead
<1>4. CASE CheckThrows(p) \/ ReadThrows(p)
  BY <1>0, <1>4, IdleFits, StepPreserves DEF CheckThrows, ReadThrows, Return
<1> QED BY <1>1, <1>2, <1>3, <1>4

\* Steps that only look at the files.
LEMMA LookPreserves ==
  ASSUME IInv, NEW p \in Processes,
         \/ CheckArtifacts(p) \/ LinkExists(p) \/ LinkLost(p) \/ Compare(p) \/ Verify(p) \/ Fails(p)
  PROVE  IInv'
<1> USE DEF At
<1>0. call[p] \in Calls /\ WellFormed(call[p])
  BY DEF IInv, TypeOK
<1>1. CASE CheckArtifacts(p)
  <2>1. Fits(p, Moved(p, "write"))
    BY <1>0, <1>1 DEF CheckArtifacts, Fits, Moved, Call, Calls, Stages, WellFormed
  <2> QED BY <1>1, <2>1, GoPreserves DEF CheckArtifacts, Stages
<1>2. CASE LinkExists(p)
  <2>1. call[p].path \in Blobs => files[call[p].path].content = call[p].content
    BY <1>0, <1>2 DEF LinkExists, IInv, FilesAreWhole, WellFormed, ContentsOf, Visible
  <2>2. call[p].path \in Generations => \A b \in call[p].content.artifacts : Readable(b)
    BY <1>2 DEF LinkExists, IInv, CallSawRight
  <2>3. CASE call[p].path \in Blobs
    <3>1. Fits(p, Moved(p, "verify"))
      BY <1>0, <1>2, <2>1, <2>2, <2>3 DEF LinkExists, Fits, Moved, Call, Calls, Stages, WellFormed
    <3> QED BY <1>2, <2>3, <3>1, GoPreserves DEF LinkExists, Stages
  <2>4. CASE call[p].path \notin Blobs
    <3>1. Fits(p, Moved(p, "compare"))
      BY <1>0, <1>2, <2>2 DEF LinkExists, Fits, Moved, Call, Calls, Stages, WellFormed
    <3> QED BY <1>2, <2>4, <3>1, GoPreserves DEF LinkExists, Stages
  <2> QED BY <2>3, <2>4
<1>3. CASE call[p].stage \in {"write", "sync", "link", "syncdir", "compare", "verify"} /\ Go(p, "failed")
           /\ UNCHANGED <<files, temp, old, store, told, acked, lost>>
  <2>1. Fits(p, Moved(p, "failed"))
    BY <1>0, <1>3 DEF Fits, Moved, Call, Calls, Stages, WellFormed
  <2> QED BY <1>3, <2>1, GoPreserves DEF Stages
<1>4. ASSUME call[p].stage = "compare", files[call[p].path].content = call[p].content
      PROVE  Fits(p, Moved(p, "verify"))
  <2>1. call[p].path \in Generations => \A b \in call[p].content.artifacts : Readable(b)
    BY <1>4 DEF IInv, CallSawRight
  <2> QED BY <1>0, <1>4, <2>1 DEF Fits, Moved, Call, Calls, Stages, WellFormed
<1>5. CASE Compare(p)
  <2>1. CASE files[call[p].path].content = call[p].content
    BY <1>4, <1>5, <2>1, GoPreserves DEF Compare, Stages
  <2>2. CASE files[call[p].path].content # call[p].content
    BY <1>3, <1>5, <2>2 DEF Compare
  <2> QED BY <2>1, <2>2
<1>6. CASE Verify(p)
  <2> DEFINE needed == IF call[p].path \in Blobs THEN {call[p].path} ELSE call[p].content.artifacts
  <2>1. CASE \A b \in needed : Readable(b)
    <3>1. /\ files[call[p].path].content = call[p].content
          /\ call[p].own => files[call[p].path].kept
          /\ call[p].path \in Generations => \A b \in call[p].content.artifacts : Readable(b)
      BY <1>6 DEF Verify, IInv, CallSawRight
    <3>2. Fits(p, Moved(p, "done"))
      BY <1>0, <1>6, <3>1 DEF Verify, Fits, Moved, Call, Calls, Stages, WellFormed
    <3> QED BY <1>6, <2>1, <3>2, GoPreserves DEF Verify, Stages
  <2>2. CASE ~(\A b \in needed : Readable(b))
    BY <1>3, <1>6, <2>2 DEF Verify
  <2> QED BY <2>1, <2>2
<1> QED BY <1>1, <1>2, <1>3, <1>5, <1>6 DEF LinkLost, Fails

\* A call whose stage and content change.
LEMMA TwoFields ==
  ASSUME NEW r \in Calls, NEW stage \in Stages, NEW m \in Contents
  PROVE  [r EXCEPT !.stage = stage, !.content = m] = Call(stage, r.path, m, r.temp, r.own)
<1>1. ASSUME NEW c, c = [r EXCEPT !.stage = stage, !.content = m]
      PROVE  c \in Calls
  BY <1>1 DEF Calls
<1>2. ASSUME NEW c, c = [r EXCEPT !.stage = stage, !.content = m]
      PROVE  /\ c.stage = stage /\ c.path = r.path /\ c.content = m
             /\ c.temp = r.temp /\ c.own = r.own
  BY <1>2 DEF Calls
<1>3. \A c \in Calls : c = Call(c.stage, c.path, c.content, c.temp, c.own)
  BY DEF Calls, Call
<1> QED BY <1>1, <1>2, <1>3

\* Reading a manifest.
LEMMA ReadPreserves ==
  ASSUME IInv, NEW p \in Processes, ReadContent(p) \/ ReadArtifacts(p)
  PROVE  IInv'
<1>0. call[p] \in Calls /\ WellFormed(call[p])
  BY DEF IInv, TypeOK
<1>1. store' \in [Processes -> StoreStates]
  BY DEF IInv, TypeOK, StoreStates, ReadContent, ReadArtifacts
<1>2. CASE ReadContent(p)
  <2> DEFINE c == Call("readblobs", call[p].path, files[call[p].path].content, call[p].temp, call[p].own)
  <2>1. call' = [call EXCEPT ![p] = [call[p] EXCEPT !.stage = "readblobs",
                                                    !.content = files[call[p].path].content]]
    BY <1>2 DEF ReadContent
  <2>2. [call[p] EXCEPT !.stage = "readblobs", !.content = files[call[p].path].content] = c
    BY <1>0, <1>2, TwoFields DEF ReadContent, At, Contents, Stages
  <2>3. files[call[p].path].content \in Manifests /\ call[p].path \in Generations
        /\ call[p].temp = None /\ ~call[p].own
    BY <1>0, <1>2 DEF ReadContent, At, WellFormed, Calls
  <2>4. Fits(p, c)
    BY <1>0, <2>3, PathsAssumption
       DEF Fits, Call, Calls, Stages, WellFormed, Contents, ContentsOf, Paths
  <2> QED BY <1>1, <1>2, <2>1, <2>2, <2>4, StepPreserves DEF ReadContent
<1>3. CASE ReadArtifacts(p)
  <2>1. files[call[p].path].content = call[p].content /\ call[p].path \in Generations
    BY <1>0, <1>3 DEF ReadArtifacts, At, IInv, CallSawRight, WellFormed
  <2>2. PublicationOf(p) \in Publication
    BY <1>0, <1>3, <2>1, PathsAssumption
       DEF ReadArtifacts, At, PublicationOf, Publication, WellFormed, ContentsOf, Contents, Paths
  <2>3. ToldIsThere'
    BY <1>3, <2>1 DEF ReadArtifacts, IInv, ToldIsThere, PublicationOf, Readable
  <2>4. told' \subseteq Publication
    BY <1>3, <2>2 DEF ReadArtifacts, IInv, TypeOK
  <2>5. OwnPublicationIsDurable' /\ acked' \subseteq [path : Paths, content : Contents, own : BOOLEAN]
    BY <1>3 DEF ReadArtifacts, IInv, TypeOK, OwnPublicationIsDurable
  <2>6. OthersKeepTheirs(p)
    BY <1>3 DEF ReadArtifacts, IInv, TypeOK, OthersKeepTheirs
  <2>7. Idle.temp = None
    BY DEF Idle, Call
  <2> QED BY <1>1, <1>3, <2>3, <2>4, <2>5, <2>6, <2>7, IdleFits, MovePreserves DEF ReadArtifacts, Return
<1> QED BY <1>2, <1>3
\* A call ends: its temporary file may go, what it tells is true.
LEMMA EndPreserves ==
  ASSUME IInv, NEW p \in Processes, Published(p) \/ Throws(p)
  PROVE  IInv'
<1>0. call[p] \in Calls /\ WellFormed(call[p])
  BY DEF IInv, TypeOK
<1>1. /\ store' \in [Processes -> StoreStates]
      /\ call' = [call EXCEPT ![p] = Idle] /\ Idle.temp = None
      /\ UNCHANGED <<files, old, lost>>
  BY DEF IInv, TypeOK, StoreStates, Published, Throws, Return, Idle, Call
<1>2. temp' = temp \/ temp' = Unlinked(p)
  BY DEF Published, Throws
<1>3. OthersKeepTheirs(p)
  <2>1. CASE temp' = temp
    BY <2>1 DEF IInv, TypeOK, OthersKeepTheirs
  <2>2. CASE temp' # temp /\ temp' = [temp EXCEPT ![call[p].temp] = Gone] /\ call[p].temp # None
    <3>1. temp' \in [Temps -> TempFiles]
      BY <2>2, <1>0 DEF IInv, TypeOK, Calls, Gone, TempFiles
    <3>2. \A q \in Processes \ {p} : call[q].temp # call[p].temp
      BY <2>2 DEF IInv, TemporaryIsOwn
    <3>3. \A q \in Processes \ {p} : call[q].temp # None => call[q].temp \in Temps
      BY DEF IInv, TypeOK, Calls
    <3> QED BY <2>2, <3>1, <3>2, <3>3 DEF IInv, TypeOK, OthersKeepTheirs
  <2> QED BY <1>2, <2>1, <2>2 DEF Unlinked
<1>4. /\ told' \subseteq Publication /\ ToldIsThere'
      /\ acked' \subseteq [path : Paths, content : Contents, own : BOOLEAN]
      /\ OwnPublicationIsDurable'
  <2>1. CASE Throws(p)
    BY <2>1 DEF Throws, IInv, TypeOK, ToldIsThere, OwnPublicationIsDurable, Readable
  <2>2. CASE Published(p)
    <3>1. call[p].path \in Paths /\ call[p].content \in Contents /\ call[p].own \in BOOLEAN
      BY <2>2, <1>0 DEF Published, At, WellFormed, Calls, ContentsOf, Contents, Paths
    <3>2. /\ files[call[p].path].content = call[p].content
          /\ call[p].own => files[call[p].path].kept
          /\ call[p].path \in Generations => \A b \in call[p].content.artifacts : Readable(b)
      BY <2>2 DEF Published, At, IInv, CallSawRight
    <3>3. told' \subseteq Publication
      BY <2>2, <3>1 DEF Published, IInv, TypeOK, PublicationOf, Publication
    <3>4. ToldIsThere'
      BY <2>2, <3>2 DEF Published, IInv, ToldIsThere, PublicationOf, Readable
    <3>5. acked' \subseteq [path : Paths, content : Contents, own : BOOLEAN]
      BY <2>2, <3>1 DEF Published, IInv, TypeOK
    <3>6. OwnPublicationIsDurable'
      BY <2>2, <3>2 DEF Published, IInv, OwnPublicationIsDurable
    <3> QED BY <3>3, <3>4, <3>5, <3>6
  <2> QED BY <2>1, <2>2
<1> QED BY <1>1, <1>3, <1>4, IdleFits, MovePreserves

\* What the properties say of the files stays true while the files do.
LEMMA FilesStay ==
  ASSUME IInv, UNCHANGED <<files, told, acked, lost>>
  PROVE  FilesAreWhole' /\ ManifestHasBlobs' /\ ToldIsThere' /\ OwnPublicationIsDurable'
BY DEF IInv, FilesAreWhole, ManifestHasBlobs, ToldIsThere, OwnPublicationIsDurable, Visible, Readable

\* A call opens its temporary file.
LEMMA CreatePreserves ==
  ASSUME IInv, NEW p \in Processes, NEW t \in Temps, CreateTemporary(p, t)
  PROVE  IInv'
<1> DEFINE c == [call[p] EXCEPT !.stage = "sync", !.temp = t]
<1>0. call[p] \in Calls /\ WellFormed(call[p]) /\ call[p].stage = "write"
  BY DEF IInv, TypeOK, CreateTemporary, At
<1>1. /\ c \in Calls /\ c.stage = "sync" /\ c.path = call[p].path
      /\ c.content = call[p].content /\ c.temp = t /\ c.own = call[p].own
  BY <1>0 DEF Calls, Stages
<1>2. WellFormed(c)
  BY <1>0, <1>1 DEF WellFormed
<1> HIDE DEF c
<1>3. call'[p] = c /\ \A q \in Processes \ {p} : call'[q] = call[q]
  BY DEF CreateTemporary, IInv, TypeOK, c
<1>4. call' \in [Processes -> Calls]
  BY <1>1 DEF CreateTemporary, IInv, TypeOK, c
<1>5. /\ temp' = [temp EXCEPT ![t] = Temp(DirOf(call[p].path), FALSE)]
      /\ temp[t] = Unused
      /\ UNCHANGED <<files, old, store, told, acked, lost>>
  BY DEF CreateTemporary
<1>6. Temp(DirOf(call[p].path), FALSE) \in TempFiles /\ DirOf(call[p].path) \in Dirs
  BY DEF Temp, TempFiles, DirOf, Dirs
<1>7. TypeOK'
  BY <1>2, <1>3, <1>4, <1>5, <1>6 DEF IInv, TypeOK
<1>8. \A q \in Processes \ {p} : call[q].temp # None => call[q].temp # t /\ temp'[call[q].temp] = temp[call[q].temp]
  BY <1>5 DEF IInv, TypeOK, TemporaryIsOwn, Calls
<1>9. temp'[t] = Temp(DirOf(call[p].path), FALSE)
  BY <1>5 DEF IInv, TypeOK
<1>10. TemporaryIsOwn'
  <2>1. \A q \in Processes : call'[q].temp # None => temp'[call'[q].temp] # Unused
    BY <1>1, <1>3, <1>6, <1>8, <1>9 DEF IInv, TemporaryIsOwn, Temp, Unused, Dirs
  <2>2. \A q, r \in Processes : q # r /\ call'[q].temp # None => call'[q].temp # call'[r].temp
    BY <1>1, <1>3, <1>8, NoneAssumption DEF IInv, TemporaryIsOwn
  <2>3. \A q \in Processes \ {p} : call[q].stage = "link" => call[q].temp # None
    BY NoneAssumption DEF IInv, TypeOK, WellFormed
  <2>4. \A q \in Processes : call'[q].stage = "link" /\ temp'[call'[q].temp].dir \in Dirs =>
            temp'[call'[q].temp].synced
    BY <1>1, <1>3, <1>8, <2>3 DEF IInv, TemporaryIsOwn, At, InDir
  <2> QED BY <2>1, <2>2, <2>4 DEF TemporaryIsOwn, At, InDir
<1>11. CallSawRight'
  <2>1. \A q \in Processes :
          /\ call'[q].stage \in {"syncdir", "verify", "done", "readblobs"} =>
                 files[call'[q].path].content = call'[q].content
          /\ call'[q].stage \in {"verify", "done"} /\ call'[q].own => files[call'[q].path].kept
    BY <1>1, <1>3 DEF IInv, CallSawRight
  <2>2. \A q \in Processes :
            call'[q].stage \in {"write", "sync", "link", "syncdir", "compare", "verify", "done"}
               /\ call'[q].path \in Generations =>
               \A b \in call'[q].content.artifacts : Readable(b)
    BY <1>0, <1>1, <1>3 DEF IInv, CallSawRight
  <2> QED BY <1>5, <2>1, <2>2 DEF CallSawRight, Readable
<1>12. FreshTemporarySurvives'
  <2> SUFFICES ASSUME NEW q \in Processes, call'[q].stage \in {"sync", "link", "syncdir"}
               PROVE  temp'[call'[q].temp].dir \in Dirs \/ call'[q].temp \in old'
    BY DEF FreshTemporarySurvives, InDir
  <2>1. CASE q = p
    BY <2>1, <1>1, <1>3, <1>6, <1>9 DEF Temp
  <2>2. CASE q # p
    <3>1. call[q].stage \in {"sync", "link", "syncdir"} => call[q].temp # None
      BY NoneAssumption DEF IInv, TypeOK, WellFormed
    <3> QED BY <2>2, <3>1, <1>3, <1>5, <1>8 DEF IInv, FreshTemporarySurvives, InDir
  <2> QED BY <2>1, <2>2
<1> QED BY <1>5, <1>7, <1>10, <1>11, <1>12, FilesStay DEF IInv
\* Temporary files change and calls do not, or one call gets to its link.
LEMMA TempPreserves ==
  ASSUME IInv, NEW p \in Processes, NEW stage \in {call[p].stage, "link"},
         stage = "link" => call[p].stage \in {"sync", "link"},
         call' = [call EXCEPT ![p] = Moved(p, stage)],
         temp' \in [Temps -> TempFiles], old \subseteq old', old' \subseteq Temps,
         store' \in [Processes -> StoreStates],
         UNCHANGED <<files, told, acked, lost>>,
         \A t \in Temps : temp[t] # Unused => temp'[t] # Unused,
         \A t \in Temps : InDir(t) /\ t \notin old => temp'[t].dir \in Dirs,
         \A t \in Temps : InDir(t) /\ temp[t].synced /\ temp'[t].dir \in Dirs => temp'[t].synced,
         \A t \in Temps : temp'[t].dir \in Dirs /\ temp[t] # Unused => InDir(t),
         call[p].stage = "sync" /\ stage = "link" /\ temp'[call[p].temp].dir \in Dirs =>
             temp'[call[p].temp].synced
  PROVE  IInv'
<1> DEFINE c == Moved(p, stage)
<1>0. call[p] \in Calls /\ WellFormed(call[p])
  BY DEF IInv, TypeOK
<1>1. /\ c \in Calls /\ c.stage = stage /\ c.path = call[p].path
      /\ c.content = call[p].content /\ c.temp = call[p].temp /\ c.own = call[p].own
  BY <1>0 DEF Calls, Stages, Moved, Call
<1>2. WellFormed(c)
  BY <1>0 DEF WellFormed, Moved, Call, Idle
<1> HIDE DEF c
<1>3. call'[p] = c /\ \A q \in Processes \ {p} : call'[q] = call[q]
  BY DEF IInv, TypeOK, c
<1>4. call' \in [Processes -> Calls]
  BY <1>1 DEF IInv, TypeOK, c
<1>5. TypeOK'
  BY <1>2, <1>3, <1>4 DEF IInv, TypeOK, StoreStates
<1>6. \A q \in Processes : call'[q].temp = call[q].temp /\ call[q].temp \in Temps \union {None}
  BY <1>1, <1>3 DEF IInv, TypeOK, Calls
<1>7. TemporaryIsOwn'
  <2>1. \A q \in Processes : call'[q].temp # None => temp'[call'[q].temp] # Unused
    BY <1>6 DEF IInv, TemporaryIsOwn
  <2>2. \A q, r \in Processes : q # r /\ call'[q].temp # None => call'[q].temp # call'[r].temp
    BY <1>6 DEF IInv, TemporaryIsOwn
  <2>3. ASSUME NEW q \in Processes, call'[q].stage = "link", temp'[call'[q].temp].dir \in Dirs
        PROVE  temp'[call'[q].temp].synced
    <3>1. call[q].stage \in {"sync", "link"}
      BY <1>1, <1>3, <2>3
    <3>2. call[q].temp \in Temps /\ call[q].temp # None
      BY <3>1, <1>6, NoneAssumption DEF IInv, TypeOK, WellFormed
    <3>3. temp[call[q].temp] # Unused
      BY <3>2 DEF IInv, TemporaryIsOwn
    <3>4. InDir(call[q].temp)
      BY <2>3, <1>6, <3>2, <3>3
    <3>5. CASE call[q].stage = "link"
      BY <2>3, <1>6, <3>2, <3>4, <3>5 DEF IInv, TemporaryIsOwn, At
    <3>6. CASE call[q].stage = "sync"
      BY <2>3, <1>1, <1>3, <1>6, <3>6
    <3> QED BY <3>1, <3>5, <3>6
  <2> QED BY <2>1, <2>2, <2>3 DEF TemporaryIsOwn, At, InDir
<1>8. CallSawRight'
  <2>1. \A q \in Processes :
          /\ call'[q].stage \in {"syncdir", "verify", "done", "readblobs"} =>
                 files[call'[q].path].content = call'[q].content
          /\ call'[q].stage \in {"verify", "done"} /\ call'[q].own => files[call'[q].path].kept
    BY <1>1, <1>3 DEF IInv, CallSawRight
  <2>2. \A q \in Processes :
            call'[q].stage \in {"write", "sync", "link", "syncdir", "compare", "verify", "done"}
               /\ call'[q].path \in Generations =>
               \A b \in call'[q].content.artifacts : Readable(b)
    BY <1>1, <1>3 DEF IInv, CallSawRight
  <2> QED BY <2>1, <2>2 DEF CallSawRight, Readable
<1>9. FreshTemporarySurvives'
  <2> SUFFICES ASSUME NEW q \in Processes, call'[q].stage \in {"sync", "link", "syncdir"}
               PROVE  temp'[call'[q].temp].dir \in Dirs \/ call'[q].temp \in old'
    BY DEF FreshTemporarySurvives, InDir
  <2>1. call[q].stage \in {"sync", "link", "syncdir"}
    BY <1>1, <1>3
  <2>2. call[q].temp \in Temps
    BY <2>1 DEF IInv, TypeOK, WellFormed
  <2>3. InDir(call[q].temp) \/ call[q].temp \in old
    BY <2>1 DEF IInv, FreshTemporarySurvives
  <2> QED BY <1>6, <2>2, <2>3
<1> QED BY <1>5, <1>7, <1>8, <1>9, FilesStay DEF IInv

\* A step that leaves a call alone is one that moves it to its own stage.
LEMMA StayIsMove ==
  ASSUME IInv, NEW p \in Processes, call' = call
  PROVE  call' = [call EXCEPT ![p] = Moved(p, call[p].stage)]
<1>1. call[p] = Moved(p, call[p].stage)
  BY DEF IInv, TypeOK, Calls, Moved, Call
<1> QED BY <1>1 DEF IInv, TypeOK

\* The data of a temporary file reaches the disk.
LEMMA SyncPreserves ==
  ASSUME IInv, NEW p \in Processes, SyncTemporary(p)
  PROVE  IInv'
<1>1. call[p].stage = "sync" /\ call[p].temp \in Temps
  BY DEF IInv, TypeOK, WellFormed, SyncTemporary, At
<1>2. call' = [call EXCEPT ![p] = Moved(p, "link")]
  BY GoIs DEF IInv, SyncTemporary, Moved, Stages
<1>3. store' \in [Processes -> StoreStates] /\ old' \subseteq Temps /\ old \subseteq old'
      /\ UNCHANGED <<files, told, acked, lost>>
  BY DEF IInv, TypeOK, StoreStates, SyncTemporary
<1>4. Temp(temp[call[p].temp].dir, TRUE) \in TempFiles
  BY <1>1 DEF IInv, TypeOK, Temp, TempFiles
<1>5. temp' = IF InDir(call[p].temp)
              THEN [temp EXCEPT ![call[p].temp] = Temp(temp[call[p].temp].dir, TRUE)]
              ELSE temp
  BY DEF SyncTemporary
<1>6. temp' \in [Temps -> TempFiles]
  BY <1>4, <1>5 DEF IInv, TypeOK
<1>7. \A t \in Temps :
          \/ temp'[t] = temp[t] /\ (t = call[p].temp => ~InDir(t))
          \/ t = call[p].temp /\ InDir(t) /\ temp'[t] = Temp(temp[t].dir, TRUE)
  BY <1>1, <1>5 DEF IInv, TypeOK
<1>8. \A d \in Dirs : Temp(d, TRUE) # Unused /\ Temp(d, TRUE).dir = d /\ Temp(d, TRUE).synced
  <2>1. \A d \in Dirs : Temp(d, TRUE).dir = d /\ Temp(d, TRUE).synced
    BY DEF Temp
  <2>2. Unused.dir \notin Dirs
    BY DEF Unused, Dirs
  <2> QED BY <2>1, <2>2
<1>9. /\ \A t \in Temps : temp[t] # Unused => temp'[t] # Unused
      /\ \A t \in Temps : InDir(t) /\ t \notin old => temp'[t].dir \in Dirs
      /\ \A t \in Temps : InDir(t) /\ temp[t].synced /\ temp'[t].dir \in Dirs => temp'[t].synced
      /\ \A t \in Temps : temp'[t].dir \in Dirs /\ temp[t] # Unused => InDir(t)
      /\ temp'[call[p].temp].dir \in Dirs => temp'[call[p].temp].synced
  BY <1>1, <1>7, <1>8 DEF InDir
<1> QED BY <1>1, <1>2, <1>3, <1>6, <1>9, TempPreserves

\* A store that opens looks at the temporary files and removes old ones.
LEMMA OpenPreserves ==
  ASSUME IInv, NEW p \in Processes, OpenStep(p)
  PROVE  IInv'
<1>1. /\ call' = call /\ UNCHANGED <<files, old, told, acked, lost>>
      /\ temp' = temp \/ \E t \in old : InDir(t) /\ temp' = [temp EXCEPT ![t] = Gone]
  BY DEF OpenStep, OpenStore, ListTemporaries, DirectoryCleaned, CleanTemporary, CleanupBreaks
<1>2. store' \in [Processes -> StoreStates]
  BY DEF IInv, TypeOK, StoreStates, OpenStep, OpenStore, ListTemporaries, DirectoryCleaned,
         CleanTemporary, CleanupBreaks, Store, Closed, Ready, Broken, Dirs
<1>3. /\ temp' \in [Temps -> TempFiles]
      /\ \A t \in Temps : temp'[t] = temp[t] \/ (t \in old /\ temp'[t] = Gone)
  <2>1. Gone \in TempFiles /\ temp \in [Temps -> TempFiles] /\ old \subseteq Temps
    BY DEF IInv, TypeOK, Gone, TempFiles
  <2>2. CASE temp' = temp
    BY <2>1, <2>2
  <2>3. ASSUME NEW t \in old, temp' = [temp EXCEPT ![t] = Gone]
        PROVE  /\ temp' \in [Temps -> TempFiles]
               /\ \A u \in Temps : temp'[u] = temp[u] \/ (u \in old /\ temp'[u] = Gone)
    BY <2>1, <2>3
  <2> QED BY <1>1, <2>2, <2>3
<1>4. /\ \A t \in Temps : temp[t] # Unused => temp'[t] # Unused
      /\ \A t \in Temps : InDir(t) /\ t \notin old => temp'[t].dir \in Dirs
      /\ \A t \in Temps : InDir(t) /\ temp[t].synced /\ temp'[t].dir \in Dirs => temp'[t].synced
      /\ \A t \in Temps : temp'[t].dir \in Dirs /\ temp[t] # Unused => InDir(t)
  <2>1. Gone # Unused /\ Gone.dir \notin Dirs
    <3>1. Gone.dir = "removed" /\ Unused.dir = "nowhere"
      BY DEF Gone, Unused
    <3> QED BY <3>1 DEF Dirs
  <2> QED BY <1>3, <2>1 DEF InDir
<1>5. call' = [call EXCEPT ![p] = Moved(p, call[p].stage)]
  BY <1>1, StayIsMove
<1>6. old' \subseteq Temps /\ old \subseteq old'
  BY <1>1 DEF IInv, TypeOK
<1> QED BY <1>1, <1>2, <1>3, <1>4, <1>5, <1>6, TempPreserves

\* Temporary files grow old.
LEMMA HourPreserves ==
  ASSUME IInv, HourPasses
  PROVE  IInv'
<1>1. UNCHANGED <<files, temp, store, call, told, acked, lost>> /\ old \subseteq old'
  BY DEF HourPasses
<1>2. TypeOK'
  BY <1>1 DEF HourPasses, IInv, TypeOK
<1>3. TemporaryIsOwn' /\ FreshTemporarySurvives' /\ CallSawRight'
  BY <1>1 DEF IInv, TemporaryIsOwn, FreshTemporarySurvives, CallSawRight, At, InDir, Readable
<1> QED BY <1>1, <1>2, <1>3, FilesStay DEF IInv

\* A process dies; what it held in memory is gone.
LEMMA CrashPreserves ==
  ASSUME IInv, NEW p \in Processes, Crash(p)
  PROVE  IInv'
<1>1. store' \in [Processes -> StoreStates]
  BY DEF IInv, TypeOK, StoreStates, Crash, Closed, Store, Dirs
<1> QED BY <1>1, IdleFits, StepPreserves DEF Crash, Return
\* A name appears: it is written once, with content that belongs under it.
LEMMA LinkPreserves ==
  ASSUME IInv, NEW p \in Processes, Link(p)
  PROVE  IInv'
<1> DEFINE path == call[p].path
           new == File(call[p].content, temp[call[p].temp].synced, FALSE)
           c == Moved(p, "syncdir")
<1>0. call[p] \in Calls /\ WellFormed(call[p]) /\ call[p].stage = "link"
  BY DEF IInv, TypeOK, Link, At
<1>1. /\ path \in Paths /\ call[p].content \in ContentsOf(path) /\ call[p].temp \in Temps
      /\ temp[call[p].temp].synced = TRUE
      /\ files[path].content = None
  BY <1>0 DEF WellFormed, IInv, TypeOK, TemporaryIsOwn, TempFiles, Link, At, InDir, Visible
<1>2. ContentsOf(path) \subseteq Contents
  BY <1>1 DEF ContentsOf, Contents
<1>3. new \in Files /\ new.content = call[p].content /\ new.synced /\ ~new.kept
  BY <1>1, <1>2 DEF File, Files
<1>4. /\ c \in Calls /\ c.stage = "syncdir" /\ c.path = path
      /\ c.content = call[p].content /\ c.temp = call[p].temp /\ c.own = call[p].own
  BY <1>0 DEF Calls, Stages, Moved, Call
<1>5. WellFormed(c)
  BY <1>0 DEF WellFormed, Moved, Call
<1>6. call' = [call EXCEPT ![p] = c]
  BY GoIs DEF IInv, Link, Moved, Stages
<1>7. files' = [files EXCEPT ![path] = new] /\ UNCHANGED <<temp, old, store, told, acked, lost>>
  BY DEF Link
<1> HIDE DEF new, c
<1>8. call'[p] = c /\ \A q \in Processes \ {p} : call'[q] = call[q]
  BY <1>6 DEF IInv, TypeOK
<1>9. files'[path] = new /\ \A k \in Paths \ {path} : files'[k] = files[k]
  BY <1>1, <1>7 DEF IInv, TypeOK
<1>10. \A k \in Paths : files[k].content # None => files'[k] = files[k]
  BY <1>1, <1>9
<1>11. TypeOK'
  BY <1>3, <1>4, <1>5, <1>6, <1>7, <1>8 DEF IInv, TypeOK
<1>12. FilesAreWhole'
  BY <1>1, <1>3, <1>9 DEF IInv, FilesAreWhole, Visible
<1>13. TemporaryIsOwn' /\ FreshTemporarySurvives'
  <2>1. \A q \in Processes : call'[q].temp = call[q].temp
    BY <1>4, <1>8
  <2>2. \A q \in Processes : call'[q].stage = "link" => call[q].stage = "link"
    BY <1>4, <1>8
  <2>3. \A q \in Processes : call'[q].stage \in {"sync", "link", "syncdir"} =>
            call[q].stage \in {"sync", "link", "syncdir"}
    BY <1>0, <1>4, <1>8
  <2>4. TemporaryIsOwn'
    BY <1>7, <2>1, <2>2 DEF IInv, TemporaryIsOwn, At, InDir
  <2>5. FreshTemporarySurvives'
    BY <1>7, <2>1, <2>3 DEF IInv, FreshTemporarySurvives, InDir
  <2> QED BY <2>4, <2>5
<1>14. \A b \in Blobs : Readable(b) => files'[b].content = b
  BY <1>10, NoneAssumption DEF Readable, Paths, Contents
<1>15. \A b \in call[p].content.artifacts : path \in Generations => Readable(b)
  BY <1>0 DEF IInv, CallSawRight
<1>16. path \in Generations => call[p].content \in Manifests
  BY <1>1, PathsAssumption DEF ContentsOf
<1>17. CallSawRight'
  <2>1. ASSUME NEW q \in Processes
        PROVE  /\ call'[q].stage \in {"syncdir", "verify", "done", "readblobs"} =>
                      files'[call'[q].path].content = call'[q].content
               /\ call'[q].stage \in {"verify", "done"} /\ call'[q].own => files'[call'[q].path].kept
               /\ call'[q].stage \in {"write", "sync", "link", "syncdir", "compare", "verify", "done"}
                     /\ call'[q].path \in Generations =>
                     \A b \in call'[q].content.artifacts : files'[b].content = b
    <3>1. CASE q = p
      <4>1. path \in Generations => \A b \in call[p].content.artifacts : files'[b].content = b
        BY <1>14, <1>15, <1>16, ArtifactsAreBlobs
      <4> QED BY <1>3, <1>4, <1>8, <1>9, <3>1, <4>1
    <3>2. CASE q # p
      <4>1. call'[q] = call[q] /\ call[q] \in Calls /\ WellFormed(call[q])
        BY <1>8, <3>2 DEF IInv, TypeOK
      <4>2. call[q].stage \in {"syncdir", "verify", "done", "readblobs"} =>
                /\ call[q].path \in Paths /\ call[q].content # None
                /\ files[call[q].path].content = call[q].content
        BY <4>1, NoneAssumption DEF IInv, CallSawRight, WellFormed, ContentsOf, Contents
      <4>3. call[q].stage \in {"write", "sync", "link", "syncdir", "compare", "verify", "done"}
               /\ call[q].path \in Generations => call[q].content \in Manifests
        BY <4>1, PathsAssumption DEF WellFormed, ContentsOf
      <4>4. call[q].stage \in {"syncdir", "verify", "done", "readblobs"} =>
                files'[call[q].path] = files[call[q].path]
        BY <1>10, <4>2
      <4>5. call[q].stage \in {"write", "sync", "link", "syncdir", "compare", "verify", "done"}
               /\ call[q].path \in Generations =>
               \A b \in call[q].content.artifacts : files'[b].content = b
        BY <4>3, <1>14, ArtifactsAreBlobs DEF IInv, CallSawRight
      <4> QED BY <4>1, <4>2, <4>4, <4>5 DEF IInv, CallSawRight
    <3> QED BY <3>1, <3>2
  <2> QED BY <2>1 DEF CallSawRight, Readable
<1>18. ToldIsThere'
  <2>1. ASSUME NEW k \in told
        PROVE  /\ files'[k.path].content = k.content
               /\ k.path \in Generations => \A b \in k.content.artifacts : files'[b].content = b
    <3>1. k.path \in Paths /\ k.content \in Contents /\ files[k.path].content = k.content
      BY DEF IInv, TypeOK, Publication, ToldIsThere
    <3>2. files'[k.path].content = k.content
      BY <1>10, <3>1, NoneAssumption
    <3>3. k.path \in Generations => k.content \in Manifests
      BY <3>1, PathsAssumption, NoneAssumption DEF IInv, FilesAreWhole, ContentsOf
    <3> QED BY <3>2, <3>3, <1>14, ArtifactsAreBlobs DEF IInv, ToldIsThere
  <2> QED BY <1>7, <2>1 DEF ToldIsThere, Readable
<1>19. ManifestHasBlobs'
  <2>1. ASSUME NEW g \in Generations, files'[g].content \in Manifests, NEW b \in files'[g].content.artifacts
        PROVE  files'[b].content = b \/ b \in lost
    <3>1. b \in Blobs
      BY <2>1, ArtifactsAreBlobs
    <3>2. CASE g = path
      BY <1>3, <1>9, <1>14, <1>15, <2>1, <3>1, <3>2
    <3>3. CASE g # path
      <4>1. files'[g] = files[g]
        BY <1>9, <3>3 DEF Paths
      <4> QED BY <1>14, <2>1, <3>1, <4>1 DEF IInv, ManifestHasBlobs
    <3> QED BY <3>2, <3>3
  <2> QED BY <1>7, <2>1 DEF ManifestHasBlobs, Readable
<1>20. OwnPublicationIsDurable'
  <2>1. ASSUME NEW a \in acked, a.own
        PROVE  files'[a.path].content = a.content /\ files'[a.path].kept
    <3>1. a.path \in Paths /\ a.content \in Contents
          /\ files[a.path].content = a.content /\ files[a.path].kept
      BY <2>1 DEF IInv, TypeOK, OwnPublicationIsDurable
    <3> QED BY <1>10, <3>1, NoneAssumption
  <2> QED BY <1>7, <2>1 DEF OwnPublicationIsDurable
<1> QED BY <1>11, <1>12, <1>13, <1>17, <1>18, <1>19, <1>20 DEF IInv
\* Directory entries reach the disk; what names hold does not change.
LEMMA SyncDirectoryPreserves ==
  ASSUME IInv, NEW p \in Processes, SyncDirectory(p)
  PROVE  IInv'
<1> DEFINE path == call[p].path
           c == Call("verify", path, call[p].content, call[p].temp, TRUE)
<1>0. call[p] \in Calls /\ WellFormed(call[p]) /\ call[p].stage = "syncdir"
  BY DEF IInv, TypeOK, SyncDirectory, At
<1>1. /\ path \in Paths /\ call[p].content \in Contents /\ call[p].temp \in Temps
      /\ files[path].content = call[p].content
  BY <1>0 DEF WellFormed, IInv, CallSawRight, ContentsOf, Contents
<1>2. /\ c \in Calls /\ c.stage = "verify" /\ c.path = path
      /\ c.content = call[p].content /\ c.temp = call[p].temp /\ c.own
  BY <1>1 DEF Calls, Stages, Call
<1>3. WellFormed(c)
  BY <1>0 DEF WellFormed, Call
<1>4. call' = [call EXCEPT ![p] = c]
  <2>1. [call[p] EXCEPT !.stage = "verify", !.own = TRUE] = c
    <3>1. ASSUME NEW d, d = [call[p] EXCEPT !.stage = "verify", !.own = TRUE]
          PROVE  d \in Calls
      BY <1>0, <3>1 DEF Calls, Stages
    <3>2. ASSUME NEW d, d = [call[p] EXCEPT !.stage = "verify", !.own = TRUE]
          PROVE  /\ d.stage = "verify" /\ d.path = path /\ d.content = call[p].content
                 /\ d.temp = call[p].temp /\ d.own = TRUE
      BY <1>0, <3>2 DEF Calls
    <3>3. \A d \in Calls : d = Call(d.stage, d.path, d.content, d.temp, d.own)
      BY DEF Calls, Call
    <3> QED BY <3>1, <3>2, <3>3
  <2>2. call' = [call EXCEPT ![p] = [call[p] EXCEPT !.stage = "verify", !.own = TRUE]]
    BY DEF SyncDirectory
  <2> QED BY <2>1, <2>2
<1> HIDE DEF c
<1>5. UNCHANGED <<temp, old, store, told, acked, lost>>
  BY DEF SyncDirectory
<1>6. call'[p] = c /\ \A q \in Processes \ {p} : call'[q] = call[q]
  BY <1>4 DEF IInv, TypeOK
<1>7. /\ files' \in [Paths -> Files]
      /\ \A k \in Paths : /\ files'[k].content = files[k].content
                          /\ files'[k].synced = files[k].synced
                          /\ files[k].kept => files'[k].kept
                          /\ files'[k].kept /\ ~files[k].kept => Visible(k)
  <2>1. files' = [k \in Paths |->
                    IF DirOf(k) = DirOf(path) /\ Visible(k)
                    THEN File(files[k].content, files[k].synced, TRUE)
                    ELSE files[k]]
    BY DEF SyncDirectory
  <2>2. ASSUME NEW k \in Paths
        PROVE  /\ files'[k] \in Files
               /\ files'[k].content = files[k].content
               /\ files'[k].synced = files[k].synced
               /\ files[k].kept => files'[k].kept
               /\ files'[k].kept /\ ~files[k].kept => Visible(k)
    <3>1. files[k] \in Files
      BY DEF IInv, TypeOK
    <3>2. CASE DirOf(k) = DirOf(path) /\ Visible(k)
      <4>1. files'[k] = File(files[k].content, files[k].synced, TRUE)
        BY <2>1, <3>2
      <4> QED BY <3>1, <3>2, <4>1 DEF File, Files
    <3>3. CASE ~(DirOf(k) = DirOf(path) /\ Visible(k))
      <4>1. files'[k] = files[k]
        BY <2>1, <3>3
      <4> QED BY <3>1, <4>1
    <3> QED BY <3>2, <3>3
  <2> QED BY <2>1, <2>2
<1>8. files'[path].kept
  <2>1. Visible(path)
    BY <1>1, NoneAssumption DEF Visible
  <2>2. files'[path] = File(files[path].content, files[path].synced, TRUE)
    BY <1>1, <2>1 DEF SyncDirectory
  <2> QED BY <2>2 DEF File
<1>9. TypeOK'
  BY <1>2, <1>3, <1>4, <1>5, <1>6, <1>7 DEF IInv, TypeOK
<1>10. FilesAreWhole'
  BY <1>7 DEF IInv, FilesAreWhole, Visible
<1>11. TemporaryIsOwn' /\ FreshTemporarySurvives'
  <2>1. \A q \in Processes : call'[q].temp = call[q].temp
    BY <1>2, <1>6
  <2>2. \A q \in Processes : call'[q].stage \in {"sync", "link", "syncdir"} => call'[q] = call[q]
    BY <1>2, <1>6
  <2>3. TemporaryIsOwn'
    BY <1>5, <2>1, <2>2 DEF IInv, TemporaryIsOwn, At, InDir
  <2>4. FreshTemporarySurvives'
    BY <1>5, <2>2 DEF IInv, FreshTemporarySurvives, InDir
  <2> QED BY <2>3, <2>4
<1>12. \A b \in Blobs : Readable(b) => files'[b].content = b
  BY <1>7 DEF Readable, Paths
<1>13. CallSawRight'
  <2>1. ASSUME NEW q \in Processes
        PROVE  /\ call'[q].stage \in {"syncdir", "verify", "done", "readblobs"} =>
                      files'[call'[q].path].content = call'[q].content
               /\ call'[q].stage \in {"verify", "done"} /\ call'[q].own => files'[call'[q].path].kept
               /\ call'[q].stage \in {"write", "sync", "link", "syncdir", "compare", "verify", "done"}
                     /\ call'[q].path \in Generations =>
                     \A b \in call'[q].content.artifacts : files'[b].content = b
    <3>1. call[q] \in Calls /\ WellFormed(call[q])
      BY DEF IInv, TypeOK
    <3>2. call[q].stage \in {"syncdir", "verify", "done", "readblobs"} => call[q].path \in Paths
      BY <3>1 DEF WellFormed
    <3>3. call[q].stage \in {"write", "sync", "link", "syncdir", "compare", "verify", "done"}
             /\ call[q].path \in Generations => call[q].content \in Manifests
      BY <3>1, PathsAssumption DEF WellFormed, ContentsOf
    <3>4. call[q].stage \in {"write", "sync", "link", "syncdir", "compare", "verify", "done"}
             /\ call[q].path \in Generations =>
             \A b \in call[q].content.artifacts : files'[b].content = b
      BY <3>3, <1>12, ArtifactsAreBlobs DEF IInv, CallSawRight
    <3>5. CASE q = p
      BY <1>0, <1>1, <1>2, <1>6, <1>7, <1>8, <3>4, <3>5
    <3>6. CASE q # p
      BY <1>6, <1>7, <3>2, <3>4, <3>6 DEF IInv, CallSawRight
    <3> QED BY <3>5, <3>6
  <2> QED BY <2>1 DEF CallSawRight, Readable
<1>14. ToldIsThere'
  <2>1. ASSUME NEW k \in told
        PROVE  /\ files'[k.path].content = k.content
               /\ k.path \in Generations => \A b \in k.content.artifacts : files'[b].content = b
    <3>1. k.path \in Paths /\ k.content \in Contents /\ files[k.path].content = k.content
      BY DEF IInv, TypeOK, Publication, ToldIsThere
    <3>2. k.path \in Generations => k.content \in Manifests
      BY <3>1, PathsAssumption, NoneAssumption DEF IInv, FilesAreWhole, ContentsOf
    <3> QED BY <3>1, <3>2, <1>7, <1>12, ArtifactsAreBlobs DEF IInv, ToldIsThere
  <2> QED BY <1>5, <2>1 DEF ToldIsThere, Readable
<1>15. ManifestHasBlobs'
  <2>1. ASSUME NEW g \in Generations, files'[g].content \in Manifests, NEW b \in files'[g].content.artifacts
        PROVE  files'[b].content = b \/ b \in lost
    <3>1. b \in Blobs
      BY <2>1, ArtifactsAreBlobs
    <3>2. files'[g].content = files[g].content
      BY <1>7 DEF Paths
    <3> QED BY <1>12, <2>1, <3>1, <3>2 DEF IInv, ManifestHasBlobs
  <2> QED BY <1>5, <2>1 DEF ManifestHasBlobs, Readable
<1>16. OwnPublicationIsDurable'
  <2>1. \A a \in acked : a.path \in Paths
    BY DEF IInv, TypeOK
  <2> QED BY <1>5, <1>7, <2>1 DEF IInv, OwnPublicationIsDurable
<1> QED BY <1>9, <1>10, <1>11, <1>13, <1>14, <1>15, <1>16 DEF IInv

\* A power loss takes names that were not kept, and nothing of the others: what
\* is linked has been synced.
LEMMA PowerLossFiles ==
  ASSUME IInv, NEW gone \in SUBSET Unkept,
         files' = [path \in Paths |-> AfterPowerLoss(path, gone)]
  PROVE  \A path \in Paths :
             /\ path \in gone \/ ~Visible(path) => files'[path] = Absent
             /\ path \notin gone /\ Visible(path) => files'[path] = File(files[path].content, TRUE, TRUE)
             /\ files[path].kept => path \notin gone /\ Visible(path)
BY DEF IInv, FilesAreWhole, AfterPowerLoss, Unkept

LEMMA PowerLossPreserves ==
  ASSUME IInv, PowerLoss
  PROVE  IInv'
<1> PICK gone \in SUBSET Unkept :
        /\ files' = [path \in Paths |-> AfterPowerLoss(path, gone)]
        /\ lost' = lost \union (gone \intersect Blobs)
  BY DEF PowerLoss
<1>1. \A path \in Paths :
        /\ path \in gone \/ ~Visible(path) => files'[path] = Absent
        /\ path \notin gone /\ Visible(path) => files'[path] = File(files[path].content, TRUE, TRUE)
        /\ files[path].kept => path \notin gone /\ Visible(path)
  BY PowerLossFiles
<1>2. Absent \in Files /\ Absent.content = None /\ ~Absent.kept
  BY DEF Absent, File, Files
<1>3. \A x \in Contents \union {None, Torn} :
        LET f == File(x, TRUE, TRUE)
        IN  f \in Files /\ f.content = x /\ f.synced /\ f.kept
  BY DEF File, Files
<1>4. \A path \in Paths : files[path] \in Files /\ files[path].content \in Contents \union {None, Torn}
  BY DEF IInv, TypeOK, Files
<1>5. \A path \in Paths : files'[path] \in Files
  BY <1>1, <1>2, <1>3, <1>4
<1>6. \A path \in Paths : files'[path].content # None =>
        /\ files'[path].content = files[path].content
        /\ files'[path].synced /\ path \notin gone
  BY <1>1, <1>2, <1>3, <1>4 DEF Visible
<1>7. \A path \in Paths : path \notin gone /\ files[path].content # None =>
        files'[path].content = files[path].content /\ files'[path].kept
  BY <1>1, <1>3, <1>4 DEF Visible
<1>8. \A path \in Paths : files'[path].kept => files'[path].content # None
  BY <1>1, <1>2, <1>3, <1>4 DEF Visible
<1>9. /\ call' = [q \in Processes |-> Idle] /\ store' = [q \in Processes |-> Closed]
      /\ told' = {} /\ UNCHANGED <<temp, old, acked>>
  BY DEF PowerLoss
<1>10. Idle \in Calls /\ WellFormed(Idle) /\ Idle.stage = "idle" /\ Idle.temp = None
  BY DEF Idle, Call, Calls, Stages, WellFormed
<1>11. files' \in [Paths -> Files]
  BY <1>5
<1>12. TypeOK'
  BY <1>9, <1>10, <1>11 DEF IInv, TypeOK, Closed, Store, Dirs
<1>13. FilesAreWhole'
  BY <1>1, <1>2, <1>6, <1>8 DEF IInv, FilesAreWhole, Visible
<1>14. TemporaryIsOwn' /\ CallSawRight' /\ FreshTemporarySurvives' /\ ToldIsThere'
  BY <1>9, <1>10 DEF TemporaryIsOwn, CallSawRight, FreshTemporarySurvives, ToldIsThere, At
<1>15. ManifestHasBlobs'
  <2>1. ASSUME NEW g \in Generations, files'[g].content \in Manifests, NEW b \in files'[g].content.artifacts
        PROVE  files'[b].content = b \/ b \in lost'
    <3>1. b \in Blobs /\ b \in Paths /\ g \in Paths
      BY <2>1, ArtifactsAreBlobs DEF Paths
    <3>2. files'[g].content # None
      BY <2>1, NoneAssumption DEF Contents
    <3>3. files'[g].content = files[g].content
      BY <1>6, <3>1, <3>2
    <3>4. files[b].content = b \/ b \in lost
      BY <2>1, <3>3 DEF IInv, ManifestHasBlobs, Readable
    <3>5. CASE b \in gone
      BY <3>1, <3>5
    <3>6. CASE b \notin gone
      BY <1>7, <3>1, <3>4, <3>6, NoneAssumption
    <3> QED BY <3>5, <3>6
  <2> QED BY <2>1 DEF ManifestHasBlobs, Readable
<1>16. OwnPublicationIsDurable'
  <2>1. ASSUME NEW a \in acked, a.own
        PROVE  files'[a.path].content = a.content /\ files'[a.path].kept
    <3>1. a.path \in Paths /\ files[a.path].content = a.content /\ files[a.path].kept
      BY <2>1 DEF IInv, TypeOK, OwnPublicationIsDurable
    <3> QED BY <1>1, <1>7, <3>1 DEF Visible
  <2> QED BY <1>9, <2>1 DEF OwnPublicationIsDurable
<1> QED BY <1>12, <1>13, <1>14, <1>15, <1>16 DEF IInv
\* An empty root.
LEMMA InitInv == Init => IInv
<1> SUFFICES ASSUME Init PROVE IInv
  OBVIOUS
<1>1. Absent \in Files /\ Absent.content = None /\ ~Absent.kept
  BY DEF Absent, File, Files
<1>2. Idle \in Calls /\ WellFormed(Idle) /\ Idle.stage = "idle" /\ Idle.temp = None
  BY DEF Idle, Call, Calls, Stages, WellFormed
<1>3. Unused \in TempFiles /\ Closed \in StoreStates
  BY DEF Unused, TempFiles, Closed, Store, StoreStates, Dirs
<1>4. TypeOK
  BY <1>1, <1>2, <1>3 DEF Init, TypeOK, StoreStates
<1>5. FilesAreWhole /\ TemporaryIsOwn /\ CallSawRight /\ FreshTemporarySurvives
  BY <1>1, <1>2 DEF Init, FilesAreWhole, TemporaryIsOwn, CallSawRight, FreshTemporarySurvives, At, Visible
<1>6. ToldIsThere /\ OwnPublicationIsDurable
  BY DEF Init, ToldIsThere, OwnPublicationIsDurable
<1>7. ManifestHasBlobs
  BY <1>1, NoneAssumption DEF Init, ManifestHasBlobs, Paths, Contents
<1> QED BY <1>4, <1>5, <1>6, <1>7 DEF IInv

\* Every step keeps the invariant.
LEMMA NextInv == IInv /\ [Next]_vars => IInv'
<1> SUFFICES ASSUME IInv, [Next]_vars PROVE IInv'
  OBVIOUS
<1>1. CASE UNCHANGED vars
  <2>1. TypeOK'
    BY <1>1 DEF IInv, TypeOK, vars
  <2>2. TemporaryIsOwn' /\ FreshTemporarySurvives' /\ CallSawRight'
    BY <1>1 DEF IInv, vars, TemporaryIsOwn, FreshTemporarySurvives, CallSawRight, At, InDir, Readable
  <2>3. UNCHANGED <<files, told, acked, lost>>
    BY <1>1 DEF vars
  <2> QED BY <2>1, <2>2, <2>3, FilesStay DEF IInv
<1>2. ASSUME NEW p \in Processes, PublishStep(p)
      PROVE  IInv'
  BY <1>2, BeginPreserves, LookPreserves, CreatePreserves, SyncPreserves, LinkPreserves,
     SyncDirectoryPreserves, EndPreserves DEF PublishStep
<1>3. ASSUME NEW p \in Processes, ReadStep(p)
      PROVE  IInv'
  BY <1>3, BeginPreserves, ReadPreserves DEF ReadStep
<1> QED BY <1>1, <1>2, <1>3, OpenPreserves, CrashPreserves, HourPreserves, PowerLossPreserves DEF Next

\* The inductive invariant holds in every reachable state.
THEOREM StoreInvariance == Spec => []IInv
BY InitInv, NextInv, PTL DEF Spec

\* Every variable is well typed, and a call holds what its stage needs.
THEOREM StoreTypeCorrectness == Spec => []TypeOK
<1>1. IInv => TypeOK
  BY DEF IInv
<1> QED BY <1>1, StoreInvariance, PTL

\* What a live caller was told of is what the name holds, with its artifacts.
THEOREM ToldHolds == Spec => []ToldIsThere
<1>1. IInv => ToldIsThere
  BY DEF IInv
<1> QED BY <1>1, StoreInvariance, PTL

\* A manifest that can be seen has its blobs, but for what a power loss took.
THEOREM ManifestsAreComplete == Spec => []ManifestHasBlobs
<1>1. IInv => ManifestHasBlobs
  BY DEF IInv
<1> QED BY <1>1, StoreInvariance, PTL

\* No name ever leads to bytes that were not synced.
THEOREM NamesAreWhole == Spec => []NeverTorn
<1>1. IInv => NeverTorn
  <2> SUFFICES ASSUME IInv, NEW path \in Paths, Visible(path)
               PROVE  files[path].synced /\ files[path].content # Torn
    BY DEF NeverTorn
  <2>1. files[path].content \in Contents
    BY DEF IInv, FilesAreWhole, Visible, ContentsOf, Contents
  <2> QED BY <2>1, TornAssumption DEF IInv, FilesAreWhole
<1> QED BY <1>1, StoreInvariance, PTL

\* A publication whose caller synced the directory is never lost or replaced.
THEOREM SyncedStays == Spec => []OwnPublicationIsDurable
<1>1. IInv => OwnPublicationIsDurable
  BY DEF IInv
<1> QED BY <1>1, StoreInvariance, PTL

\* Only an hour of standing still costs a call its temporary file.
THEOREM TemporariesSurvive == Spec => []FreshTemporarySurvives
<1>1. IInv => FreshTemporarySurvives
  BY DEF IInv
<1> QED BY <1>1, StoreInvariance, PTL

-----------------------------------------------------------------------------
(* The refinement of WriteOnceRegister. *)

Value == [path \in Paths |-> files[path].content]
Permanent == {path \in Paths : files[path].kept}

\* A link writes an unwritten name.
LEMMA LinkWrites ==
  ASSUME IInv, NEW p \in Processes, Link(p)
  PROVE  /\ call[p].path \in Paths /\ call[p].content \in Contents
         /\ Value[call[p].path] = None
         /\ Value' = [Value EXCEPT ![call[p].path] = call[p].content]
         /\ Permanent' = Permanent
<1> DEFINE path == call[p].path
           new == File(call[p].content, temp[call[p].temp].synced, FALSE)
<1>1. path \in Paths /\ call[p].content \in ContentsOf(path) /\ files[path].content = None
  BY DEF IInv, TypeOK, Link, At, WellFormed, Visible
<1>2. call[p].content \in Contents
  BY <1>1 DEF ContentsOf, Contents
<1>3. files' = [files EXCEPT ![path] = new] /\ new.content = call[p].content /\ ~new.kept
  BY DEF Link, File
<1> HIDE DEF new
<1>4. files'[path] = new /\ \A k \in Paths \ {path} : files'[k] = files[k]
  BY <1>1, <1>3 DEF IInv, TypeOK
<1>5. ~files[path].kept
  BY <1>1 DEF IInv, FilesAreWhole, Visible
<1>6. Permanent' = Permanent
  BY <1>1, <1>3, <1>4, <1>5 DEF Permanent
<1>7. Value' = [Value EXCEPT ![path] = call[p].content]
  <2>1. \A k \in Paths : files'[k].content = IF k = path THEN call[p].content ELSE files[k].content
    BY <1>3, <1>4
  <2> QED BY <1>1, <2>1 DEF Value
<1> QED BY <1>1, <1>2, <1>6, <1>7 DEF Value

\* A sync of a directory makes names permanent.
LEMMA SyncSettles ==
  ASSUME IInv, NEW p \in Processes, SyncDirectory(p)
  PROVE  /\ Permanent \subseteq Permanent'
         /\ \A path \in Permanent' : Value[path] # None
         /\ Value' = Value
<1>1. \A k \in Paths :
         /\ files'[k].content = files[k].content
         /\ files[k].kept => files'[k].kept
         /\ files'[k].kept => Visible(k)
  <2> SUFFICES ASSUME NEW k \in Paths
               PROVE  /\ files'[k].content = files[k].content
                      /\ files[k].kept => files'[k].kept
                      /\ files'[k].kept => Visible(k)
    OBVIOUS
  <2>1. files[k].kept => Visible(k)
    BY DEF IInv, FilesAreWhole
  <2>2. files'[k] = IF DirOf(k) = DirOf(call[p].path) /\ Visible(k)
                    THEN File(files[k].content, files[k].synced, TRUE) ELSE files[k]
    BY DEF SyncDirectory
  <2>3. CASE DirOf(k) = DirOf(call[p].path) /\ Visible(k)
    BY <2>2, <2>3 DEF File
  <2>4. CASE ~(DirOf(k) = DirOf(call[p].path) /\ Visible(k))
    <3>1. files'[k] = files[k]
      BY <2>2, <2>4
    <3> QED BY <2>1, <3>1
  <2> QED BY <2>3, <2>4
<1> QED BY <1>1 DEF Permanent, Value, Visible

\* A power loss takes only names that are not permanent, and keeps the others.
LEMMA LossLoses ==
  ASSUME IInv, PowerLoss
  PROVE  /\ Value' \in [Paths -> Contents \union {None}]
         /\ \A path \in Paths : Value'[path] \in {Value[path], None}
         /\ \A path \in Permanent : Value'[path] = Value[path]
         /\ Permanent' = {path \in Paths : Value'[path] # None}
<1> PICK gone \in SUBSET Unkept : files' = [path \in Paths |-> AfterPowerLoss(path, gone)]
  BY DEF PowerLoss
<1>1. \A path \in Paths :
        /\ path \in gone \/ ~Visible(path) => files'[path] = Absent
        /\ path \notin gone /\ Visible(path) => files'[path] = File(files[path].content, TRUE, TRUE)
        /\ files[path].kept => path \notin gone /\ Visible(path)
  BY PowerLossFiles
<1>2. Absent.content = None /\ Absent.kept = FALSE
  BY DEF Absent, File
<1>3. \A x : File(x, TRUE, TRUE).content = x /\ File(x, TRUE, TRUE).kept = TRUE
  BY DEF File
<1>4. \A path \in Paths : files[path].content \in Contents \union {None}
  BY DEF IInv, FilesAreWhole, ContentsOf, Contents
<1>5. \A path \in Paths :
        /\ files'[path].content \in {files[path].content, None}
        /\ files[path].kept => files'[path].content = files[path].content
        /\ files'[path].kept <=> files'[path].content # None
  <2> SUFFICES ASSUME NEW path \in Paths
               PROVE  /\ files'[path].content \in {files[path].content, None}
                      /\ files[path].kept => files'[path].content = files[path].content
                      /\ files'[path].kept <=> files'[path].content # None
    OBVIOUS
  <2>1. CASE path \in gone \/ ~Visible(path)
    <3>1. files'[path] = Absent /\ ~files[path].kept
      BY <1>1, <2>1
    <3> QED BY <1>2, <3>1
  <2>2. CASE path \notin gone /\ Visible(path)
    <3>1. files'[path] = File(files[path].content, TRUE, TRUE)
      BY <1>1, <2>2
    <3> QED BY <1>3, <2>2, <3>1 DEF Visible
  <2> QED BY <2>1, <2>2
<1> QED BY <1>4, <1>5 DEF Value, Permanent

\* Every step of the store is a step of the register or invisible to it.
LEMMA NextRegister == IInv /\ [Next]_vars => [Register!Next]_(Register!vars)
<1> SUFFICES ASSUME IInv, [Next]_vars PROVE [Register!Next]_(Register!vars)
  OBVIOUS
<1>1. ASSUME NEW p \in Processes, Link(p)
      PROVE  Register!Next
  BY <1>1, LinkWrites DEF Register!Next, Register!Write, Value, Permanent
<1>2. ASSUME NEW p \in Processes, SyncDirectory(p)
      PROVE  Register!Next
  BY <1>2, SyncSettles DEF Register!Next, Register!Settle, Value, Permanent
<1>3. CASE PowerLoss
  BY <1>3, LossLoses DEF Register!Next, Register!PowerLoss, Value, Permanent
<1>4. CASE files' = files
  BY <1>4 DEF Register!vars
<1>5. ASSUME NEW p \in Processes, OpenStep(p) \/ ReadStep(p) \/ Crash(p)
      PROVE  files' = files
  BY <1>5 DEF OpenStep, OpenStore, ListTemporaries, DirectoryCleaned, CleanTemporary, CleanupBreaks,
              ReadStep, CallRead, ReadContent, ReadArtifacts, ReadThrows, Crash
<1>6. ASSUME NEW p \in Processes, PublishStep(p), ~Link(p), ~SyncDirectory(p)
      PROVE  files' = files
  BY <1>6 DEF PublishStep, CallPut, CallPublish, CheckArtifacts, CheckThrows, CreateTemporary,
              SyncTemporary, LinkExists, LinkLost, Compare, Verify, Fails, Published, Throws
<1>7. CASE HourPasses \/ UNCHANGED vars
  BY <1>4, <1>7 DEF HourPasses, vars
<1> QED BY <1>1, <1>2, <1>3, <1>4, <1>5, <1>6, <1>7 DEF Next

\* Every name of the store is a write-once register.
THEOREM StoreRefinesRegister == Spec => ImplementsRegister
<1>1. Init => Register!Init
  BY DEF Init, Absent, File, Register!Init
<1>2. IInv /\ [Next]_vars => [Register!Next]_(Register!vars)
  BY NextRegister
<1> QED BY <1>1, <1>2, StoreInvariance, PTL DEF Spec, ImplementsRegister, Register!Spec
=============================================================================
