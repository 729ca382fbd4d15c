---------------------------- MODULE AssetsProofs ----------------------------
(***************************************************************************)
(* What the asset plugin guarantees for every number of sessions, files    *)
(* and edits, whatever fails or is killed: the files that the generated    *)
(* modules point at are there and are shipped, a copy that was not lost    *)
(* track of is in the manifest, and what is published for storage is       *)
(* stored.                                                                 *)
(***************************************************************************)
EXTENDS Assets, TLAPS

\* Engine.publish holds the output lock.
OneAtATime ==
    \A p, q \in Sessions : Publishing(p) /\ Publishing(q) => p = q

\* No time in the folder, or in what a session remembers of it, is to come.
ClockIsAhead ==
    /\ mtime # None => mtime <= clock
    /\ \A p \in Sessions : session[p].record.readAt <= clock

\* The copies in the folder that nobody has lost track of are in the manifest,
\* or were copied by the build that is about to write it.
Copying(p) == At(p, "copying") \/ At(p, "uncopied")
Listed ==
    (\A p \in Sessions : ~Copying(p)) /\ manifest # None =>
        folder \cap Copies \subseteq manifest \cup unrecorded

\* How far each build is with the folder.
InPlace(assets) ==
    manifest # None /\ assets \subseteq manifest /\ assets \subseteq folder
IsPublished(p) ==
    /\ published = [assets |-> job[p].assets, synced |-> Syncs(p)]
    /\ taken = {}
CopyingKnows(p) ==
    /\ job[p].listed = (manifest # None)
    /\ job[p].listed => job[p].previous = manifest
    /\ folder \cap Copies \subseteq job[p].previous \cup job[p].present \cup unrecorded
    /\ ~job[p].listed => folder \subseteq job[p].previous \cup job[p].present
    /\ job[p].present \subseteq folder
PruningKnows(p) ==
    /\ job[p].listed /\ job[p].previous = manifest
    /\ job[p].assets \subseteq job[p].present /\ job[p].present \subseteq manifest
    /\ folder \cap Copies \subseteq job[p].present \cup unrecorded
StatKnows(p) ==
    manifest = job[p].assets /\ session[p].record.assets = job[p].assets
ProgressOf(p) ==
    /\ Copying(p) => CopyingKnows(p)
    /\ At(p, "sync") => InPlace(job[p].assets)
    /\ At(p, "prune") \/ At(p, "pruning") \/ At(p, "stat") =>
           InPlace(job[p].assets) /\ IsPublished(p)
    /\ At(p, "storage") => IsPublished(p)
    /\ At(p, "pruning") => PruningKnows(p)
    /\ At(p, "stat") => StatKnows(p)
    /\ Copying(p) \/ At(p, "pruning") \/ At(p, "stat") =>
           session[p].record.mtime = None
Progress == \A p \in Sessions : ProgressOf(p)

\* A record is to be trusted when the time of the folder is still the one it
\* had, and that time was over when the folder was last looked at.
Trusted(r) == r.mtime # None /\ r.mtime < r.readAt /\ mtime = r.mtime
RecordsAreRight ==
    \A p \in Sessions :
        Trusted(session[p].record) =>
            /\ session[p].record.assets # None
            /\ session[p].record.assets = manifest
            /\ session[p].record.assets \subseteq folder

\* A key that a session knows is in storage, but for those that another session
\* deleted or a batch that failed in part.
KnownAreStored ==
    \A p \in Sessions : session[p].known \subseteq storage \cup lost

Inv ==
    /\ TypeOK
    /\ OneAtATime
    /\ ClockIsAhead
    /\ Listed
    /\ Progress
    /\ RecordsAreRight
    /\ PublishedAreThere
    /\ KnownAreStored
    /\ PublishedAreStored

----------------------------------------------------------------------------
(* What all steps have in common.                                          *)

LEMMA InitInv == Init => Inv
  <1> SUFFICES ASSUME Init PROVE Inv
    OBVIOUS
  <1>1. TypeOK
    BY DEF Init, TypeOK, NewSession, Session, FolderRecord
  <1>2. \A p \in Sessions : ~Publishing(p)
    BY DEF Init, Publishing
  <1>3. Progress /\ OneAtATime
    BY <1>2 DEF Progress, ProgressOf, OneAtATime, Publishing, Copying, At
  <1>4. Listed /\ PublishedAreThere /\ PublishedAreStored
    BY DEF Init, Listed, PublishedAreThere, PublishedAreStored
  <1>5. ClockIsAhead /\ RecordsAreRight /\ KnownAreStored
    <2>1. \A p \in Sessions : /\ session[p].record.mtime = None
                             /\ session[p].record.readAt = 0
                             /\ session[p].known = {}
      BY DEF Init, NewSession
    <2>2. ClockIsAhead
      BY <2>1 DEF Init, ClockIsAhead
    <2>3. RecordsAreRight /\ KnownAreStored
      BY <2>1 DEF RecordsAreRight, Trusted, KnownAreStored
    <2>4. QED
      BY <2>2, <2>3
  <1>6. QED
    BY <1>1, <1>3, <1>4, <1>5 DEF Inv

\* The fields of a build.
LEMMA JobMade ==
    ASSUME TypeOK, NEW p \in Sessions, job[p] # None
    PROVE  /\ job[p] \in Job
           /\ job[p].pc \in Steps
           /\ job[p].todo \subseteq Sources
           /\ job[p].assets \subseteq Copies
           /\ job[p].previous \subseteq Copies
           /\ job[p].listed \in BOOLEAN
           /\ job[p].present \subseteq Copies
  BY DEF TypeOK, Job

\* What a step that only moves the build of p on leaves of the types.
LEMMA StepTyped ==
    ASSUME TypeOK, NEW p \in Sessions, NEW next \in {None} \cup Job, Step(p, next)
    PROVE  /\ job' \in [Sessions -> {None} \cup Job]
           /\ job'[p] = next
           /\ \A q \in Sessions \ {p} : job'[q] = job[q]
  BY DEF TypeOK, Step

LEMMA StepTo ==
    ASSUME TypeOK, NEW p \in Sessions, NEW next, Step(p, next)
    PROVE  job'[p] = next
  BY DEF TypeOK, Step

LEMMA StopsAtNone ==
    ASSUME TypeOK, NEW p \in Sessions, Stop(p)
    PROVE  job'[p] = None
  BY DEF TypeOK, Stop

\* Where nothing is published there is nothing to keep.
LEMMA IdleKnowsNothing ==
    ASSUME NEW p, ~Publishing(p)'
    PROVE  ProgressOf(p)'
  BY DEF Publishing, ProgressOf, Copying, At

\* While p publishes nobody else does, nor begins to.
LEMMA OthersWait ==
    ASSUME TypeOK, OneAtATime, NEW p \in Sessions, Publishing(p),
           NEW next \in {None} \cup Job, Step(p, next)
    PROVE  /\ OneAtATime'
           /\ \A q \in Sessions \ {p} : ~Publishing(q)' /\ ~Publishing(q)
           /\ \A q \in Sessions \ {p} : ProgressOf(q)'
           /\ \A q \in Sessions \ {p} : ~Copying(q) /\ ~Copying(q)'
  <1>1. \A q \in Sessions \ {p} : ~Publishing(q)
    BY DEF OneAtATime
  <1>2. \A q \in Sessions \ {p} : ~Publishing(q)'
    BY <1>1, StepTyped DEF Publishing
  <1>3. QED
    BY <1>1, <1>2, IdleKnowsNothing DEF OneAtATime, Copying, At, Publishing

\* A session that begins or ends nothing that is published: what the others
\* know stays true while the folder and what is published stay the same.
LEMMA KeepsProgress ==
    ASSUME Progress, NEW p \in Sessions,
           UNCHANGED <<folder, manifest, published, taken, unrecorded>>,
           job'[p] = job[p], session'[p].record = session[p].record
    PROVE  ProgressOf(p)'
  BY DEF Progress, ProgressOf, Copying, At, CopyingKnows, InPlace, IsPublished,
         Syncs, PruningKnows, StatKnows

\* What is published stays there and stays stored while nothing is taken away.
LEMMA FolderKept ==
    ASSUME PublishedAreThere, RecordsAreRight, ClockIsAhead,
           UNCHANGED <<clock, place, published, taken>>,
           \A q \in Sessions : session'[q].record = session[q].record
    PROVE  PublishedAreThere' /\ RecordsAreRight' /\ ClockIsAhead'
  BY DEF place, PublishedAreThere, CurrentFiles, RecordsAreRight, Trusted, ClockIsAhead

LEMMA StorageKept ==
    ASSUME KnownAreStored, PublishedAreStored, UNCHANGED <<storage, lost, published>>,
           \A q \in Sessions : session'[q].known = session[q].known
    PROVE  KnownAreStored' /\ PublishedAreStored'
  BY DEF KnownAreStored, PublishedAreStored

----------------------------------------------------------------------------
(* Hashing, and the turn to publish.                                       *)

LEMMA BeginBuildInv ==
    ASSUME Inv, NEW p \in Sessions, BeginBuild(p)
    PROVE  Inv'
  <1> DEFINE next == [pc |-> "hash", todo |-> wanted, assets |-> {}, previous |-> {},
                      listed |-> FALSE, present |-> {}]
  <1> USE DEF Inv
  <1>1. /\ Step(p, next) /\ job[p] = None
        /\ UNCHANGED <<content, clock, place, storage, session, published, ghosts>>
        /\ count' \in [{"edits", "builds", "wrong"} -> Nat]
    BY DEF BeginBuild, Within, TypeOK
  <1>2. next \in Job
    BY AssetConstants DEF TypeOK, Job, Steps
  <1> HIDE DEF next
  <1>3. /\ job' \in [Sessions -> {None} \cup Job] /\ job'[p] = next
        /\ \A q \in Sessions \ {p} : job'[q] = job[q]
    BY <1>1, <1>2, StepTyped
  <1>4. TypeOK'
    BY <1>1, <1>3 DEF TypeOK, content, place, ghosts
  <1>5. ~Publishing(p) /\ ~Publishing(p)'
    BY <1>1, <1>3 DEF Publishing, next
  <1>6. OneAtATime'
    BY <1>3, <1>5 DEF OneAtATime, Publishing
  <1>7. ~Copying(p) /\ \A q \in Sessions : Copying(q)' => Copying(q)
    BY <1>3, <1>5 DEF Copying, At, Publishing
  <1>8. Listed'
    <2>1. \A q \in Sessions \ {p} : Copying(q)' = Copying(q)
      BY <1>3 DEF Copying, At
    <2>2. QED
      BY <1>1, <1>7, <2>1 DEF Listed, place, ghosts
  <1>9. Progress'
    <2>1. ASSUME NEW q \in Sessions \ {p} PROVE ProgressOf(q)'
      BY <1>1, <1>3, KeepsProgress DEF place, ghosts
    <2>2. QED
      BY <1>5, <2>1, IdleKnowsNothing DEF Progress
  <1>10. PublishedAreThere' /\ RecordsAreRight' /\ ClockIsAhead'
    BY <1>1, FolderKept DEF ghosts
  <1>11. KnownAreStored' /\ PublishedAreStored'
    BY <1>1, StorageKept DEF ghosts
  <1>12. QED
    BY <1>4, <1>6, <1>8, <1>9, <1>10, <1>11

LEMMA CheckAssetFileInv ==
    ASSUME Inv, NEW p \in Sessions, NEW s \in Sources, CheckAssetFile(p, s)
    PROVE  Inv'
  <1> USE DEF Inv
  <1>1. /\ At(p, "hash")
        /\ UNCHANGED <<content, clock, place, storage, published, ghosts, count>>
    BY DEF CheckAssetFile
  <1>2. PICK next \in {None} \cup Job :
          /\ Step(p, next)
          /\ next = None \/ next.pc = "hash"
          /\ session' \in [Sessions -> Session]
          /\ \A q \in Sessions : /\ session'[q].record = session[q].record
                                 /\ session'[q].known = session[q].known
    <2>1. CASE MayBeCopied(s) /\ text[s] # None
      <3> DEFINE entry == HashFile(p, s)
                 copy == [source |-> s, hash |-> entry.hash]
                 next == [job[p] EXCEPT !.todo = @ \ {s}, !.assets = @ \cup {copy}]
      <3>1. Step(p, next) /\ session' = [session EXCEPT ![p].memo[s] = entry]
        BY <2>1 DEF CheckAssetFile
      <3>2. entry \in Hash
        BY <2>1 DEF HashFile, TypeOK, Session, Hash
      <3>3. copy \in Copies
        BY <3>2 DEF Copies, Hash
      <3> HIDE DEF entry, copy
      <3>4. next \in Job /\ next.pc = "hash"
        BY <1>1, <3>3, JobMade DEF At, Job
      <3>5. \A q \in Sessions : /\ session'[q].record = session[q].record
                                /\ session'[q].known = session[q].known
        BY <3>1 DEF TypeOK, Session
      <3>6. session' \in [Sessions -> Session]
        BY <3>1, <3>2 DEF TypeOK, Session
      <3>7. QED
        BY <3>1, <3>4, <3>5, <3>6
    <2>2. CASE ~(MayBeCopied(s) /\ text[s] # None)
      BY <2>2 DEF CheckAssetFile, Stop, Step, TypeOK
    <2>3. QED
      BY <2>1, <2>2
  <1>3. /\ job' \in [Sessions -> {None} \cup Job] /\ job'[p] = next
        /\ \A q \in Sessions \ {p} : job'[q] = job[q]
    BY <1>2, StepTyped
  <1>4. TypeOK'
    BY <1>1, <1>2, <1>3 DEF TypeOK, content, place, ghosts
  <1>5. ~Publishing(p) /\ ~Publishing(p)'
    BY <1>1, <1>2, <1>3 DEF Publishing, At
  <1>6. OneAtATime'
    BY <1>3, <1>5 DEF OneAtATime, Publishing
  <1>7. ~Copying(p) /\ \A q \in Sessions \ {p} : Copying(q)' = Copying(q)
    BY <1>3, <1>5 DEF Copying, At, Publishing
  <1>8. Listed'
    BY <1>1, <1>7 DEF Listed, place, ghosts
  <1>9. Progress'
    <2>1. ASSUME NEW q \in Sessions \ {p} PROVE ProgressOf(q)'
      BY <1>1, <1>2, <1>3, KeepsProgress DEF place, ghosts
    <2>2. QED
      BY <1>5, <2>1, IdleKnowsNothing DEF Progress
  <1>10. PublishedAreThere' /\ RecordsAreRight' /\ ClockIsAhead'
    BY <1>1, <1>2, FolderKept DEF ghosts
  <1>11. KnownAreStored' /\ PublishedAreStored'
    BY <1>1, <1>2, StorageKept DEF ghosts
  <1>12. QED
    BY <1>4, <1>6, <1>8, <1>9, <1>10, <1>11

LEMMA LockInv ==
    ASSUME Inv, NEW p \in Sessions, Lock(p)
    PROVE  Inv'
  <1> DEFINE next == [job[p] EXCEPT !.pc = "copy"]
  <1> USE DEF Inv
  <1>1. /\ At(p, "hash") /\ Step(p, next)
        /\ \A q \in Sessions : ~Publishing(q)
        /\ UNCHANGED <<content, clock, place, storage, session, published, ghosts, count>>
    BY DEF Lock
  <1>2. next \in Job /\ next.pc = "copy"
    BY <1>1, JobMade DEF At, Job, Steps
  <1> HIDE DEF next
  <1>3. /\ job' \in [Sessions -> {None} \cup Job] /\ job'[p] = next
        /\ \A q \in Sessions \ {p} : job'[q] = job[q]
    BY <1>1, <1>2, StepTyped
  <1>4. TypeOK'
    BY <1>1, <1>3 DEF TypeOK, content, place, ghosts
  <1>5. \A q \in Sessions \ {p} : ~Publishing(q)'
    BY <1>1, <1>3 DEF Publishing
  <1>6. \A q \in Sessions : ~Copying(q) /\ ~Copying(q)'
    BY <1>1, <1>2, <1>3, <1>5 DEF Copying, At, Publishing
  <1>7. OneAtATime' /\ Listed'
    BY <1>1, <1>5, <1>6 DEF OneAtATime, Listed, place, ghosts
  <1>8. Progress'
    <2>1. ProgressOf(p)'
      BY <1>2, <1>3 DEF ProgressOf, Copying, At
    <2>2. QED
      BY <1>5, <2>1, IdleKnowsNothing DEF Progress
  <1>9. PublishedAreThere' /\ RecordsAreRight' /\ ClockIsAhead'
    BY <1>1, FolderKept DEF ghosts
  <1>10. KnownAreStored' /\ PublishedAreStored'
    BY <1>1, StorageKept DEF ghosts
  <1>11. QED
    BY <1>4, <1>7, <1>8, <1>9, <1>10

----------------------------------------------------------------------------
(* copyAssets.                                                             *)

\* A session forgets the time of the folder, and nothing else.
LEMMA Forgets ==
    ASSUME TypeOK, NEW p \in Sessions, Forget(p)
    PROVE  /\ session' \in [Sessions -> Session]
           /\ session'[p].record.mtime = None
           /\ \A q \in Sessions :
                  /\ session'[q].known = session[q].known
                  /\ session'[q].record.readAt = session[q].record.readAt
                  /\ q # p => session'[q].record = session[q].record
  <1>1. session[p].record \in FolderRecord /\ session[p] \in Session
    BY DEF TypeOK, Session
  <1>2. /\ session'[p] = [session[p] EXCEPT !.record = [@ EXCEPT !.mtime = None]]
        /\ \A q \in Sessions \ {p} : session'[q] = session[q]
        /\ DOMAIN session' = Sessions /\ session' = [q \in Sessions |-> session'[q]]
    BY DEF TypeOK, Forget
  <1>3. [session[p].record EXCEPT !.mtime = None] \in FolderRecord
    BY <1>1 DEF FolderRecord
  <1>4. /\ session'[p] \in Session
        /\ session'[p].record = [session[p].record EXCEPT !.mtime = None]
        /\ session'[p].known = session[p].known
    BY <1>1, <1>2, <1>3 DEF Session
  <1>5. /\ session'[p].record.mtime = None
        /\ session'[p].record.readAt = session[p].record.readAt
    BY <1>1, <1>4 DEF FolderRecord
  <1>6. session' \in [Sessions -> Session]
    BY <1>2, <1>4 DEF TypeOK
  <1>7. QED
    BY <1>2, <1>4, <1>5, <1>6

\* A folder that is as the session left it holds the files of the build.
LEMMA SettledIsInPlace ==
    ASSUME RecordsAreRight, NEW p \in Sessions, IsSettled(p)
    PROVE  InPlace(job[p].assets)
  BY DEF RecordsAreRight, Trusted, IsSettled, InPlace

\* What Anhur may delete is copies only; without a manifest it is all there is.
LEMMA OwnedTyped ==
    ASSUME TypeOK, OwnedFiles # None
    PROVE  /\ OwnedFiles \subseteq Copies
           /\ manifest # None => OwnedFiles = manifest
           /\ manifest = None => OwnedFiles = folder /\ folder \subseteq Copies
  BY DEF TypeOK, OwnedFiles

\* A folder that was just changed is not the one a session remembers.
LEMMA TouchedIsNotTrusted ==
    ASSUME TypeOK, ClockIsAhead, NEW q \in Sessions, mtime' = clock,
           session'[q].record = session[q].record
    PROVE  ~Trusted(session[q].record)'
  <1>1. session[q].record.readAt \in Nat /\ session[q].record.readAt <= clock
    BY DEF TypeOK, Session, FolderRecord, ClockIsAhead
  <1>2. QED
    BY <1>1 DEF Trusted, TypeOK

LEMMA CopyAssetsInv ==
    ASSUME Inv, NEW p \in Sessions, CopyAssets(p)
    PROVE  Inv'
  <1> USE DEF Inv
  <1>1. /\ At(p, "copy") /\ Publishing(p)
        /\ job[p] # None
        /\ UNCHANGED <<content, clock, folder, manifest, storage, published, ghosts, count>>
    BY DEF CopyAssets, At, Publishing
  <1>2. PICK next \in {None} \cup Job :
          /\ Step(p, next)
          /\ \/ /\ IsSettled(p) /\ next # None /\ next.pc = "sync"
                /\ next.assets = job[p].assets
                /\ UNCHANGED <<session, mtime>>
             \/ next = None /\ Forget(p) /\ UNCHANGED mtime
             \/ /\ OwnedFiles # None /\ next # None /\ next.pc = "copying"
                /\ next.previous = OwnedFiles /\ next.listed = (manifest # None)
                /\ next.present \subseteq folder
                /\ Forget(p) /\ mtime' = IF mtime = None THEN clock ELSE mtime
    <2>1. CASE IsSettled(p)
      <3>1. Step(p, [job[p] EXCEPT !.pc = "sync"]) /\ UNCHANGED <<session, mtime>>
        BY <2>1 DEF CopyAssets
      <3>2. /\ [job[p] EXCEPT !.pc = "sync"] \in Job
            /\ [job[p] EXCEPT !.pc = "sync"].pc = "sync"
            /\ [job[p] EXCEPT !.pc = "sync"].assets = job[p].assets
        BY <1>1, JobMade DEF Job, Steps
      <3>3. QED
        BY <2>1, <3>1, <3>2, NoneIsNone
    <2>2. CASE ~IsSettled(p) /\ OwnedFiles = None
      BY <2>2 DEF CopyAssets, Stop, Step
    <2>3. CASE ~IsSettled(p) /\ OwnedFiles # None
      <3> DEFINE next == [job[p] EXCEPT !.pc = "copying", !.previous = OwnedFiles,
                                        !.listed = manifest # None,
                                        !.present = job[p].assets \cap folder]
      <3>1. /\ Step(p, next) /\ Forget(p)
            /\ mtime' = IF mtime = None THEN clock ELSE mtime
        BY <2>3 DEF CopyAssets
      <3>2. /\ next \in Job /\ next.pc = "copying"
            /\ next.previous = OwnedFiles /\ next.listed = (manifest # None)
            /\ next.present \subseteq folder
        BY <1>1, <2>3, JobMade, OwnedTyped DEF Job, Steps
      <3>3. QED
        BY <2>3, <3>1, <3>2, NoneIsNone
    <2>4. QED
      BY <2>1, <2>2, <2>3
  <1>3. /\ job' \in [Sessions -> {None} \cup Job] /\ job'[p] = next
        /\ \A q \in Sessions \ {p} : job'[q] = job[q]
    BY <1>2, StepTyped
  <1>4. /\ session' \in [Sessions -> Session]
        /\ \A q \in Sessions :
               /\ session'[q].known = session[q].known
               /\ session'[q].record.readAt = session[q].record.readAt
               /\ \/ session'[q].record = session[q].record
                  \/ session'[q].record.mtime = None
        /\ ~IsSettled(p) => session'[p].record.mtime = None
    BY <1>2, Forgets DEF TypeOK
  <1>5. TypeOK'
    <2>1. mtime' \in {None} \cup Nat
      BY <1>2 DEF TypeOK
    <2>2. QED
      BY <1>1, <1>3, <1>4, <2>1 DEF TypeOK, content, ghosts
  <1>6. /\ OneAtATime'
        /\ \A q \in Sessions \ {p} : ProgressOf(q)' /\ ~Copying(q)
    BY <1>1, <1>2, OthersWait
  <1>7. ~Copying(p)
    BY <1>1 DEF Copying, At
  <1>8. Listed'
    BY <1>1, <1>6, <1>7 DEF Listed, ghosts
  <1>9. Progress'
    <2>1. CASE next = None
      BY <1>3, <1>6, <2>1 DEF Progress, ProgressOf, Copying, At
    <2>2. CASE next # None /\ next.pc = "sync"
      <3>1. InPlace(job[p].assets) /\ next.assets = job[p].assets
        BY <1>2, <2>2, SettledIsInPlace
      <3>2. InPlace(job[p].assets)'
        BY <1>1, <1>3, <3>1 DEF InPlace
      <3>3. ProgressOf(p)'
        BY <1>3, <2>2, <3>2 DEF ProgressOf, Copying, At
      <3>4. QED
        BY <1>6, <3>3 DEF Progress
    <2>3. CASE next # None /\ next.pc = "copying"
      <3>1. /\ OwnedFiles # None /\ session'[p].record.mtime = None
            /\ next.previous = OwnedFiles /\ next.listed = (manifest # None)
            /\ next.present \subseteq folder
        BY <1>2, <2>3, Forgets
      <3>2. manifest # None => folder \cap Copies \subseteq manifest \cup unrecorded
        BY <1>6, <1>7 DEF Listed
      <3>3. CopyingKnows(p)'
        BY <1>1, <1>3, <3>1, <3>2, OwnedTyped DEF CopyingKnows, ghosts
      <3>4. ProgressOf(p)'
        BY <1>3, <2>3, <3>1, <3>3 DEF ProgressOf, Copying, At
      <3>5. QED
        BY <1>6, <3>4 DEF Progress
    <2>4. QED
      BY <1>2, <2>1, <2>2, <2>3
  <1>10. ClockIsAhead'
    BY <1>1, <1>2, <1>4 DEF ClockIsAhead, TypeOK
  <1>11. RecordsAreRight'
    <2>1. ASSUME NEW q \in Sessions, Trusted(session[q].record)'
          PROVE  Trusted(session[q].record) /\ session'[q].record = session[q].record
      <3>1. session'[q].record = session[q].record
        BY <1>4, <2>1 DEF Trusted
      <3>2. mtime' = mtime
        BY <1>1, <1>2, <2>1, <3>1, TouchedIsNotTrusted
      <3>3. QED
        BY <2>1, <3>1, <3>2 DEF Trusted
    <2>2. QED
      BY <1>1, <2>1 DEF RecordsAreRight
  <1>12. PublishedAreThere'
    BY <1>1 DEF PublishedAreThere, CurrentFiles, ghosts
  <1>13. KnownAreStored' /\ PublishedAreStored'
    BY <1>1, <1>4, StorageKept DEF ghosts
  <1>14. QED
    BY <1>5, <1>6, <1>8, <1>9, <1>10, <1>11, <1>12, <1>13

\* The files in the folder were added to, and it was touched.
LEMMA CopyOneInv ==
    ASSUME Inv, NEW p \in Sessions, NEW a \in Copies, CopyOne(p, a)
    PROVE  Inv'
  <1> USE DEF Inv
  <1>1. /\ Copying(p) /\ Publishing(p) /\ job[p] # None
        /\ UNCHANGED <<content, clock, manifest, storage, session, published, ghosts>>
        /\ count' \in [{"edits", "builds", "wrong"} -> Nat]
    BY DEF CopyOne, Copying, At, Publishing, Within, TypeOK
  <1>2. PICK next \in Job :
          /\ Step(p, next) /\ next.pc \in {"copying", "uncopied"}
          /\ next.previous = job[p].previous /\ next.listed = job[p].listed
          /\ \/ /\ folder' = folder \cup {a} /\ mtime' = clock
                /\ next.present = job[p].present \cup {a}
             \/ UNCHANGED <<folder, mtime>> /\ next.present = job[p].present
    <2> DEFINE copied == [job[p] EXCEPT !.present = @ \cup {a}]
               failed == [job[p] EXCEPT !.pc = "uncopied"]
    <2>1. \/ Step(p, copied) /\ folder' = folder \cup {a} /\ mtime' = clock
          \/ Step(p, failed) /\ UNCHANGED <<folder, mtime>>
      BY DEF CopyOne, Touched
    <2>2. /\ copied \in Job /\ copied.pc = job[p].pc
          /\ copied.previous = job[p].previous /\ copied.listed = job[p].listed
          /\ copied.present = job[p].present \cup {a}
      BY <1>1, JobMade DEF Job
    <2>3. /\ failed \in Job /\ failed.pc = "uncopied"
          /\ failed.previous = job[p].previous /\ failed.listed = job[p].listed
          /\ failed.present = job[p].present
      BY <1>1, JobMade DEF Job, Steps
    <2>4. QED
      BY <1>1, <2>1, <2>2, <2>3 DEF Copying, At
  <1>3. /\ job' \in [Sessions -> {None} \cup Job] /\ job'[p] = next
        /\ \A q \in Sessions \ {p} : job'[q] = job[q]
    BY <1>2, StepTyped
  <1>4. TypeOK'
    <2>1. folder' \subseteq Copies \cup {Note} /\ mtime' \in {None} \cup Nat
      BY <1>2 DEF TypeOK
    <2>2. QED
      BY <1>1, <1>3, <2>1 DEF TypeOK, content, ghosts
  <1>5. /\ OneAtATime'
        /\ \A q \in Sessions \ {p} : ProgressOf(q)'
    BY <1>1, <1>2, OthersWait
  <1>6. Copying(p)'
    BY <1>2, <1>3, NoneIsNone DEF Copying, At
  <1>7. Listed'
    BY <1>6 DEF Listed
  <1>8. Progress'
    <2>1. CopyingKnows(p) /\ session[p].record.mtime = None
      BY <1>1 DEF Progress, ProgressOf
    <2>2. CopyingKnows(p)'
      BY <1>1, <1>2, <1>3, <2>1 DEF CopyingKnows, ghosts
    <2>3. ProgressOf(p)'
      BY <1>1, <1>2, <1>3, <2>1, <2>2 DEF ProgressOf, Copying, At
    <2>4. QED
      BY <1>5, <2>3 DEF Progress
  <1>9. ClockIsAhead'
    BY <1>1, <1>2 DEF ClockIsAhead, TypeOK
  <1>10. RecordsAreRight'
    <2>1. ASSUME NEW q \in Sessions, Trusted(session[q].record)'
          PROVE  Trusted(session[q].record) /\ UNCHANGED folder
      BY <1>1, <1>2, <2>1, TouchedIsNotTrusted DEF Trusted
    <2>2. QED
      BY <1>1, <2>1 DEF RecordsAreRight
  <1>11. PublishedAreThere'
    BY <1>1, <1>2 DEF PublishedAreThere, CurrentFiles, ghosts
  <1>12. KnownAreStored' /\ PublishedAreStored'
    BY <1>1, StorageKept DEF ghosts
  <1>13. QED
    BY <1>4, <1>5, <1>7, <1>8, <1>9, <1>10, <1>11, <1>12

LEMMA RecordInv ==
    ASSUME Inv, NEW p \in Sessions, Record(p)
    PROVE  Inv'
  <1> USE DEF Inv
  <1>1. /\ Copying(p) /\ Publishing(p) /\ job[p] # None
        /\ UNCHANGED <<content, clock, folder, storage, session, published, taken, lost>>
        /\ count' \in [{"edits", "builds", "wrong"} -> Nat]
    BY DEF Record, Copying, At, Publishing, Within, TypeOK
  <1>2. PICK next \in {None} \cup Job :
          /\ Step(p, next)
          /\ next # None =>
                 /\ next.pc = "sync" /\ next.assets = job[p].assets
                 /\ job[p].assets \subseteq job[p].present
          /\ \/ /\ job[p].listed /\ job[p].present \subseteq job[p].previous
                /\ UNCHANGED <<manifest, mtime, unrecorded>>
             \/ manifest' = Recorded(p) /\ mtime' = clock /\ UNCHANGED unrecorded
             \/ /\ next = None /\ UNCHANGED manifest
                /\ mtime' = clock \/ UNCHANGED mtime
                /\ unrecorded' = unrecorded \cup job[p].present
    <2> DEFINE next == [job[p] EXCEPT !.pc = "sync"]
    <2>1. next \in Job /\ next.pc = "sync" /\ next.assets = job[p].assets
      BY <1>1, JobMade DEF Job, Steps
    <2> HIDE DEF next
    <2>2. (At(p, "copying") /\ Missing(p) = {}) \/ At(p, "uncopied")
      BY DEF Record
    <2>3. At(p, "copying") => job[p].assets \subseteq job[p].present
      BY <2>2 DEF At, Missing
    <2>4. \/ /\ job[p].listed /\ job[p].present \subseteq job[p].previous
             /\ UNCHANGED <<manifest, mtime, unrecorded>>
             /\ IF At(p, "copying") THEN Step(p, next) ELSE Stop(p)
          \/ /\ manifest' = Recorded(p) /\ mtime' = clock /\ UNCHANGED unrecorded
             /\ IF At(p, "copying") THEN Step(p, next) ELSE Stop(p)
          \/ /\ Stop(p) /\ UNCHANGED manifest /\ (mtime' = clock \/ UNCHANGED mtime)
             /\ unrecorded' = unrecorded \cup job[p].present
      BY DEF Record, Touched, WriteManifest, ManifestFails, next
    <2>5. Stop(p) <=> Step(p, None)
      BY DEF Stop, Step
    <2>6. QED
      BY <2>1, <2>3, <2>4, <2>5
  <1>3. /\ job' \in [Sessions -> {None} \cup Job] /\ job'[p] = next
        /\ \A q \in Sessions \ {p} : job'[q] = job[q]
    BY <1>2, StepTyped
  <1>4. /\ job[p].present \subseteq Copies /\ job[p].previous \subseteq Copies
        /\ Recorded(p) \in SUBSET Copies /\ Recorded(p) # None
    BY <1>1, JobMade, NoneIsNone DEF Recorded
  <1>5. TypeOK'
    <2>1. /\ manifest' \in {None} \cup SUBSET Copies /\ mtime' \in {None} \cup Nat
          /\ unrecorded' \subseteq Copies
      BY <1>2, <1>4 DEF TypeOK
    <2>2. QED
      BY <1>1, <1>3, <2>1 DEF TypeOK, content
  <1>6. /\ OneAtATime'
        /\ \A q \in Sessions \ {p} : ProgressOf(q)'
    BY <1>1, <1>2, OthersWait
  <1>7. CopyingKnows(p) /\ session[p].record.mtime = None
    BY <1>1 DEF Progress, ProgressOf
  <1>8. /\ next # None =>
               manifest' # None /\ job[p].previous \cup job[p].present = manifest'
        /\ manifest' # None => folder \cap Copies \subseteq manifest' \cup unrecorded'
        /\ folder \cap CurrentFiles \subseteq CurrentFiles'
    BY <1>1, <1>2, <1>4, <1>7 DEF CopyingKnows, Recorded, CurrentFiles
  <1>9. Listed'
    BY <1>1, <1>8 DEF Listed
  <1>10. Progress'
    <2>1. CASE next = None
      BY <1>3, <1>6, <2>1 DEF Progress, ProgressOf, Copying, At
    <2>2. CASE next # None
      <3>1. InPlace(job[p].assets)'
        BY <1>1, <1>2, <1>3, <1>7, <1>8, <2>2 DEF InPlace, CopyingKnows
      <3>2. ProgressOf(p)'
        BY <1>2, <1>3, <2>2, <3>1 DEF ProgressOf, Copying, At
      <3>3. QED
        BY <1>6, <3>2 DEF Progress
    <2>3. QED
      BY <2>1, <2>2
  <1>11. ClockIsAhead'
    BY <1>1, <1>2 DEF ClockIsAhead, TypeOK
  <1>12. RecordsAreRight'
    <2>1. ASSUME NEW q \in Sessions, Trusted(session[q].record)'
          PROVE  Trusted(session[q].record) /\ UNCHANGED manifest
      BY <1>1, <1>2, <2>1, TouchedIsNotTrusted DEF Trusted
    <2>2. QED
      BY <1>1, <2>1 DEF RecordsAreRight
  <1>13. PublishedAreThere'
    BY <1>1, <1>8 DEF PublishedAreThere
  <1>14. KnownAreStored' /\ PublishedAreStored'
    BY <1>1, StorageKept
  <1>15. QED
    BY <1>5, <1>6, <1>9, <1>10, <1>11, <1>12, <1>13, <1>14

----------------------------------------------------------------------------
(* syncStorage, and what the generated modules point at.                   *)

\* A session learns of a key, or forgets some, and nothing else.
LEMMA Learns ==
    ASSUME TypeOK, NEW p \in Sessions, NEW keys \in SUBSET Copies,
           session' = [session EXCEPT ![p].known = keys]
    PROVE  /\ session' \in [Sessions -> Session]
           /\ session'[p].known = keys
           /\ \A q \in Sessions : /\ session'[q].record = session[q].record
                                  /\ q # p => session'[q].known = session[q].known
  BY DEF TypeOK, Session

LEMMA SyncOneInv ==
    ASSUME Inv, NEW p \in Sessions, NEW a \in Copies, SyncOne(p, a)
    PROVE  Inv'
  <1> USE DEF Inv
  <1>1. /\ At(p, "sync") /\ Publishing(p) /\ job[p] # None
        /\ UNCHANGED <<content, clock, place, published, taken, unrecorded>>
        /\ count' \in [{"edits", "builds", "wrong"} -> Nat]
    <2>1. count' = count \/ Within("wrong", MaxWrong)
      BY DEF SyncOne
    <2>2. count' \in [{"edits", "builds", "wrong"} -> Nat]
      BY <2>1 DEF Within, TypeOK
    <2>3. QED
      BY <2>2 DEF SyncOne, At, Publishing
  <1>2. PICK keys \in SUBSET Copies :
          /\ session' = [session EXCEPT ![p].known = keys]
          /\ \/ /\ keys = session[p].known \cup {a} /\ UNCHANGED job
                /\ storage' = storage \cup {a} /\ lost' = lost \ {a}
             \/ /\ keys = session[p].known /\ Stop(p)
                /\ UNCHANGED <<storage, lost>>
    BY DEF SyncOne, KnownAfter, TypeOK, Session
  <1>3. /\ session' \in [Sessions -> Session] /\ session'[p].known = keys
        /\ \A q \in Sessions : /\ session'[q].record = session[q].record
                               /\ q # p => session'[q].known = session[q].known
    BY <1>2, Learns
  <1>4. PICK next \in {None} \cup Job :
          Step(p, next) /\ (next = None \/ next = job[p])
    BY <1>2 DEF Stop, Step, TypeOK
  <1>5. /\ job' \in [Sessions -> {None} \cup Job] /\ job'[p] = next
        /\ \A q \in Sessions \ {p} : job'[q] = job[q]
    BY <1>4, StepTyped
  <1>6. TypeOK'
    BY <1>1, <1>2, <1>3, <1>5 DEF TypeOK, content, place
  <1>7. /\ OneAtATime'
        /\ \A q \in Sessions \ {p} : ProgressOf(q)' /\ ~Copying(q)
    BY <1>1, <1>4, OthersWait
  <1>8. ~Copying(p)
    BY <1>1 DEF Copying, At
  <1>9. Listed'
    BY <1>1, <1>7, <1>8 DEF Listed, place
  <1>10. Progress'
    <2>1. CASE next = None
      BY <1>5, <1>7, <2>1 DEF Progress, ProgressOf, Copying, At
    <2>2. CASE next = job[p]
      BY <1>1, <1>3, <1>5, <1>7, <2>2, KeepsProgress DEF Progress, place
    <2>3. QED
      BY <1>4, <2>1, <2>2
  <1>11. PublishedAreThere' /\ RecordsAreRight' /\ ClockIsAhead'
    BY <1>1, <1>3, FolderKept
  <1>12. storage \cup lost \subseteq storage' \cup lost'
    BY <1>2
  <1>13. KnownAreStored'
    BY <1>2, <1>3, <1>12 DEF KnownAreStored
  <1>14. PublishedAreStored'
    BY <1>1, <1>12 DEF PublishedAreStored
  <1>15. QED
    BY <1>6, <1>7, <1>9, <1>10, <1>11, <1>13, <1>14

LEMMA WriteInv ==
    ASSUME Inv, NEW p \in Sessions, Write(p)
    PROVE  Inv'
  <1> USE DEF Inv
  <1>1. /\ At(p, "sync") /\ Pending(p) = {} /\ Publishing(p) /\ job[p] # None
        /\ UNCHANGED <<content, clock, place, storage, session, unrecorded, lost>>
        /\ count' \in [{"edits", "builds", "wrong"} -> Nat]
    BY DEF Write, At, Publishing, Within, TypeOK
  <1>2. PICK next \in {None} \cup Job :
          /\ Step(p, next)
          /\ \/ /\ published' = [assets |-> job[p].assets, synced |-> Syncs(p)]
                /\ taken' = {}
                /\ next # None /\ next.pc = "prune" /\ next.assets = job[p].assets
             \/ next = None /\ UNCHANGED <<published, taken>>
    <2>1. /\ [job[p] EXCEPT !.pc = "prune"] \in Job
          /\ [job[p] EXCEPT !.pc = "prune"].pc = "prune"
          /\ [job[p] EXCEPT !.pc = "prune"].assets = job[p].assets
      BY <1>1, JobMade DEF Job, Steps
    <2>2. QED
      BY <2>1, NoneIsNone DEF Write, Stop, Step
  <1>3. /\ job' \in [Sessions -> {None} \cup Job] /\ job'[p] = next
        /\ \A q \in Sessions \ {p} : job'[q] = job[q]
    BY <1>2, StepTyped
  <1>4. Syncs(p) \in BOOLEAN /\ job[p].assets \subseteq Copies
    BY <1>1, JobMade DEF Syncs
  <1>5. TypeOK'
    <2>1. /\ published' \in [assets : SUBSET Copies, synced : BOOLEAN]
          /\ taken' \subseteq Copies \cup {Note}
      BY <1>2, <1>4 DEF TypeOK
    <2>2. QED
      BY <1>1, <1>3, <2>1 DEF TypeOK, content, place
  <1>6. /\ OneAtATime'
        /\ \A q \in Sessions \ {p} : ProgressOf(q)' /\ ~Copying(q)
    BY <1>1, <1>2, OthersWait
  <1>7. ~Copying(p)
    BY <1>1 DEF Copying, At
  <1>8. Listed'
    BY <1>1, <1>6, <1>7 DEF Listed, place
  <1>9. InPlace(job[p].assets)
    BY <1>1 DEF Progress, ProgressOf
  <1>10. Progress'
    <2>1. CASE next = None
      BY <1>3, <1>6, <2>1 DEF Progress, ProgressOf, Copying, At
    <2>2. CASE next # None
      <3>1. InPlace(job[p].assets)'
        BY <1>1, <1>2, <1>3, <1>9, <2>2 DEF InPlace, place
      <3>2. IsPublished(p)'
        BY <1>2, <1>3, <2>2 DEF IsPublished, Syncs
      <3>3. ProgressOf(p)'
        BY <1>2, <1>3, <2>2, <3>1, <3>2 DEF ProgressOf, Copying, At
      <3>4. QED
        BY <1>6, <3>3 DEF Progress
    <2>3. QED
      BY <2>1, <2>2
  <1>11. ClockIsAhead' /\ RecordsAreRight' /\ KnownAreStored'
    BY <1>1 DEF ClockIsAhead, RecordsAreRight, Trusted, KnownAreStored, place
  <1>12. PublishedAreThere'
    BY <1>1, <1>2, <1>9 DEF PublishedAreThere, CurrentFiles, InPlace, place
  <1>13. PublishedAreStored'
    BY <1>1, <1>2 DEF PublishedAreStored, KnownAreStored, Pending
  <1>14. QED
    BY <1>5, <1>6, <1>8, <1>10, <1>11, <1>12, <1>13

----------------------------------------------------------------------------
(* pruneAssets.                                                            *)

LEMMA PruneAssetsInv ==
    ASSUME Inv, NEW p \in Sessions, PruneAssets(p)
    PROVE  Inv'
  <1> USE DEF Inv
  <1>1. /\ At(p, "prune") /\ Publishing(p) /\ job[p] # None
        /\ UNCHANGED <<content, clock, place, storage, published, ghosts, count>>
    BY DEF PruneAssets, At, Publishing
  <1>2. PICK next \in {None} \cup Job :
          /\ Step(p, next)
          /\ next # None => next.assets = job[p].assets
          /\ \/ next # None /\ next.pc = "storage" /\ UNCHANGED session
             \/ next = None /\ Forget(p)
             \/ /\ OwnedFiles # None /\ next # None /\ next.pc = "pruning"
                /\ next.previous = OwnedFiles /\ next.listed = (manifest # None)
                /\ next.present = OwnedFiles \cup job[p].assets
                /\ Forget(p)
    <2>1. CASE IsSettled(p)
      <3>1. /\ [job[p] EXCEPT !.pc = "storage"] \in Job
            /\ [job[p] EXCEPT !.pc = "storage"].pc = "storage"
            /\ [job[p] EXCEPT !.pc = "storage"].assets = job[p].assets
        BY <1>1, JobMade DEF Job, Steps
      <3>2. QED
        BY <2>1, <3>1, NoneIsNone DEF PruneAssets
    <2>2. CASE ~IsSettled(p) /\ OwnedFiles = None
      BY <2>2 DEF PruneAssets, Stop, Step
    <2>3. CASE ~IsSettled(p) /\ OwnedFiles # None
      <3> DEFINE next == [job[p] EXCEPT !.pc = "pruning", !.previous = OwnedFiles,
                                        !.listed = manifest # None,
                                        !.present = OwnedFiles \cup job[p].assets]
      <3>1. Step(p, next) /\ Forget(p)
        BY <2>3 DEF PruneAssets
      <3>2. /\ next \in Job /\ next.pc = "pruning" /\ next.assets = job[p].assets
            /\ next.previous = OwnedFiles /\ next.listed = (manifest # None)
            /\ next.present = OwnedFiles \cup job[p].assets
        BY <1>1, <2>3, JobMade, OwnedTyped DEF Job, Steps
      <3>3. QED
        BY <2>3, <3>1, <3>2, NoneIsNone
    <2>4. QED
      BY <2>1, <2>2, <2>3
  <1>3. /\ job' \in [Sessions -> {None} \cup Job] /\ job'[p] = next
        /\ \A q \in Sessions \ {p} : job'[q] = job[q]
    BY <1>2, StepTyped
  <1>4. /\ session' \in [Sessions -> Session]
        /\ \A q \in Sessions :
               /\ session'[q].known = session[q].known
               /\ session'[q].record.readAt = session[q].record.readAt
               /\ \/ session'[q].record = session[q].record
                  \/ session'[q].record.mtime = None
    BY <1>2, Forgets DEF TypeOK
  <1>5. TypeOK'
    BY <1>1, <1>3, <1>4 DEF TypeOK, content, place, ghosts
  <1>6. /\ OneAtATime'
        /\ \A q \in Sessions \ {p} : ProgressOf(q)' /\ ~Copying(q)
    BY <1>1, <1>2, OthersWait
  <1>7. ~Copying(p)
    BY <1>1 DEF Copying, At
  <1>8. Listed'
    BY <1>1, <1>6, <1>7 DEF Listed, place, ghosts
  <1>9. InPlace(job[p].assets) /\ IsPublished(p)
    BY <1>1 DEF Progress, ProgressOf
  <1>10. Progress'
    <2>1. CASE next = None
      BY <1>3, <1>6, <2>1 DEF Progress, ProgressOf, Copying, At
    <2>2. CASE next # None
      <3>1. InPlace(job[p].assets)' /\ IsPublished(p)'
        BY <1>1, <1>2, <1>3, <1>9, <2>2 DEF InPlace, IsPublished, Syncs, place, ghosts
      <3>2. CASE next.pc = "storage"
        BY <1>3, <1>6, <2>2, <3>1, <3>2 DEF Progress, ProgressOf, Copying, At
      <3>3. CASE next.pc = "pruning"
        <4>1. /\ manifest # None /\ OwnedFiles = manifest
              /\ next.previous = OwnedFiles /\ next.listed = (manifest # None)
              /\ next.present = OwnedFiles \cup job[p].assets
              /\ session'[p].record.mtime = None
          BY <1>2, <1>9, <2>2, <3>3, Forgets, OwnedTyped DEF InPlace
        <4>2. folder \cap Copies \subseteq manifest \cup unrecorded
          BY <1>6, <1>7, <4>1 DEF Listed
        <4>3. PruningKnows(p)'
          BY <1>1, <1>2, <1>3, <1>9, <2>2, <4>1, <4>2
             DEF PruningKnows, InPlace, place, ghosts
        <4>4. ProgressOf(p)'
          BY <1>3, <2>2, <3>1, <3>3, <4>1, <4>3 DEF ProgressOf, Copying, At
        <4>5. QED
          BY <1>6, <4>4 DEF Progress
      <3>4. QED
        BY <1>2, <2>2, <3>2, <3>3
    <2>3. QED
      BY <2>1, <2>2
  <1>11. ClockIsAhead' /\ PublishedAreThere'
    BY <1>1, <1>4 DEF ClockIsAhead, PublishedAreThere, CurrentFiles, place, ghosts
  <1>12. RecordsAreRight'
    <2>1. ASSUME NEW q \in Sessions, Trusted(session[q].record)'
          PROVE  Trusted(session[q].record) /\ session'[q].record = session[q].record
      BY <1>1, <1>4, <2>1 DEF Trusted, place
    <2>2. QED
      BY <1>1, <2>1 DEF RecordsAreRight, place
  <1>13. KnownAreStored' /\ PublishedAreStored'
    BY <1>1, <1>4, StorageKept DEF ghosts
  <1>14. QED
    BY <1>5, <1>6, <1>8, <1>10, <1>11, <1>12, <1>13

LEMMA PruneOneInv ==
    ASSUME Inv, NEW p \in Sessions, NEW f \in Copies, PruneOne(p, f)
    PROVE  Inv'
  <1> USE DEF Inv
  <1>1. /\ At(p, "pruning") /\ Publishing(p) /\ job[p] # None
        /\ f \in job[p].present \ job[p].assets
        /\ UNCHANGED <<content, clock, storage, session, published, ghosts>>
        /\ count' \in [{"edits", "builds", "wrong"} -> Nat]
    BY DEF PruneOne, At, Publishing, Within, TypeOK
  <1>2. PICK next \in {None} \cup Job :
          /\ Step(p, next)
          /\ \/ /\ next # None /\ next.pc = "pruning" /\ next.assets = job[p].assets
                /\ next.listed = job[p].listed /\ next.previous = job[p].previous
                /\ next.present = job[p].present \ {f}
                /\ folder' = folder \ {f} /\ UNCHANGED manifest
                /\ \/ mtime' = clock
                   \/ UNCHANGED <<mtime, folder>>
             \/ /\ next = None /\ UNCHANGED folder
                /\ manifest' \in {job[p].present, manifest}
                /\ mtime' = clock \/ UNCHANGED <<mtime, manifest>>
    <2> DEFINE next == [job[p] EXCEPT !.present = @ \ {f}]
    <2>1. /\ next \in Job /\ next.pc = "pruning" /\ next.assets = job[p].assets
          /\ next.listed = job[p].listed /\ next.previous = job[p].previous
          /\ next.present = job[p].present \ {f}
      BY <1>1, JobMade DEF Job, At
    <2>2. \/ /\ folder' = folder \ {f} /\ Step(p, next) /\ UNCHANGED manifest
             /\ mtime' = IF f \in folder THEN clock ELSE mtime
          \/ /\ Stop(p) /\ UNCHANGED folder
             /\ manifest' \in {job[p].present, manifest}
             /\ mtime' = clock \/ UNCHANGED <<mtime, manifest>>
      BY DEF PruneOne, Touched, WriteManifest, ManifestFails
    <2> HIDE DEF next
    <2>3. f \notin folder => folder \ {f} = folder
      OBVIOUS
    <2>4. QED
      BY <2>1, <2>2, <2>3, NoneIsNone DEF Stop, Step
  <1>3. /\ job' \in [Sessions -> {None} \cup Job] /\ job'[p] = next
        /\ \A q \in Sessions \ {p} : job'[q] = job[q]
    BY <1>2, StepTyped
  <1>4. /\ job[p].present \in SUBSET Copies /\ job[p].present # None
    BY <1>1, JobMade, NoneIsNone
  <1>5. TypeOK'
    <2>1. /\ folder' \subseteq Copies \cup {Note} /\ mtime' \in {None} \cup Nat
          /\ manifest' \in {None} \cup SUBSET Copies
      BY <1>2, <1>4 DEF TypeOK
    <2>2. QED
      BY <1>1, <1>3, <2>1 DEF TypeOK, content, ghosts
  <1>6. /\ OneAtATime'
        /\ \A q \in Sessions \ {p} : ProgressOf(q)' /\ ~Copying(q)
    BY <1>1, <1>2, OthersWait
  <1>7. ~Copying(p)
    BY <1>1 DEF Copying, At
  <1>8. /\ InPlace(job[p].assets) /\ IsPublished(p) /\ PruningKnows(p)
        /\ session[p].record.mtime = None
    BY <1>1 DEF Progress, ProgressOf
  <1>9. Listed'
    <2>1. folder \cap Copies \subseteq manifest \cup unrecorded
      BY <1>6, <1>7, <1>8 DEF Listed, InPlace
    <2>2. QED
      BY <1>1, <1>2, <1>8, <2>1 DEF Listed, PruningKnows, ghosts
  <1>10. Progress'
    <2>1. CASE next = None
      BY <1>3, <1>6, <2>1 DEF Progress, ProgressOf, Copying, At
    <2>2. CASE next # None
      <3>1. InPlace(job[p].assets)'
        BY <1>1, <1>2, <1>3, <1>8, <2>2 DEF InPlace
      <3>2. IsPublished(p)'
        BY <1>1, <1>2, <1>3, <1>8, <2>2 DEF IsPublished, Syncs, ghosts
      <3>3. PruningKnows(p)'
        BY <1>1, <1>2, <1>3, <1>8, <2>2 DEF PruningKnows, ghosts
      <3>4. ProgressOf(p)'
        BY <1>1, <1>2, <1>3, <1>8, <2>2, <3>1, <3>2, <3>3 DEF ProgressOf, Copying, At
      <3>5. QED
        BY <1>6, <3>4 DEF Progress
    <2>3. QED
      BY <2>1, <2>2
  <1>11. ClockIsAhead'
    BY <1>1, <1>2 DEF ClockIsAhead, TypeOK
  <1>12. RecordsAreRight'
    <2>1. ASSUME NEW q \in Sessions, Trusted(session[q].record)'
          PROVE  Trusted(session[q].record) /\ UNCHANGED <<folder, manifest>>
      BY <1>1, <1>2, <2>1, TouchedIsNotTrusted DEF Trusted
    <2>2. QED
      BY <1>1, <2>1 DEF RecordsAreRight
  <1>13. PublishedAreThere'
    <2>1. published.assets = job[p].assets /\ taken = {}
      BY <1>8 DEF IsPublished
    <2>2. QED
      BY <1>1, <1>2, <1>4, <1>8, <2>1
         DEF PublishedAreThere, CurrentFiles, InPlace, PruningKnows, ghosts
  <1>14. KnownAreStored' /\ PublishedAreStored'
    BY <1>1, StorageKept DEF ghosts
  <1>15. QED
    BY <1>5, <1>6, <1>9, <1>10, <1>11, <1>12, <1>13, <1>14

\* Before the time of the folder is read again, it is recorded what is in it.
LEMMA EndsPruneInv ==
    ASSUME Inv, NEW p \in Sessions, EndPrune(p), job'[p] # None
    PROVE  Inv'
  <1> DEFINE next == [job[p] EXCEPT !.pc = "stat"]
             record == [session[p].record EXCEPT !.assets = job[p].assets,
                                                 !.readAt = clock]
  <1> USE DEF Inv
  <1>1. /\ At(p, "pruning") /\ job[p].present = job[p].assets
        /\ Publishing(p) /\ job[p] # None /\ Step(p, next)
        /\ \/ /\ job[p].present = job[p].previous /\ job[p].listed
              /\ UNCHANGED <<manifest, mtime>>
           \/ manifest' = job[p].present /\ mtime' = clock
        /\ session' = [session EXCEPT ![p].record.assets = job[p].assets,
                                      ![p].record.readAt = clock]
        /\ UNCHANGED <<content, clock, folder, storage, published, ghosts, count>>
    BY StopsAtNone DEF EndPrune, At, Publishing, Touched, WriteManifest, IsUnchanged
  <1>2. /\ next \in Job /\ next # None /\ next.pc = "stat"
        /\ next.assets = job[p].assets
    BY <1>1, JobMade, NoneIsNone DEF Job, Steps
  <1> HIDE DEF next
  <1>3. /\ job' \in [Sessions -> {None} \cup Job] /\ job'[p] = next
        /\ \A q \in Sessions \ {p} : job'[q] = job[q]
    BY <1>1, <1>2, StepTyped
  <1>4. job[p].assets \in SUBSET Copies /\ job[p].assets # None
    BY <1>1, JobMade, NoneIsNone
  <1>5. /\ session[p] \in Session /\ session[p].record \in FolderRecord
    BY DEF TypeOK, Session
  <1>6. /\ record \in FolderRecord
        /\ record.assets = job[p].assets /\ record.readAt = clock
        /\ record.mtime = session[p].record.mtime
    BY <1>4, <1>5 DEF FolderRecord, TypeOK
  <1>7. /\ session' = [session EXCEPT ![p] = [session[p] EXCEPT !.record = record]]
    BY <1>1, <1>5 DEF TypeOK, Session, FolderRecord
  <1> HIDE DEF record
  <1>8. /\ session' \in [Sessions -> Session]
        /\ session'[p].record = record
        /\ \A q \in Sessions : /\ session'[q].known = session[q].known
                               /\ q # p => session'[q].record = session[q].record
    BY <1>5, <1>6, <1>7 DEF TypeOK, Session
  <1>9. TypeOK'
    <2>1. manifest' \in {None} \cup SUBSET Copies /\ mtime' \in {None} \cup Nat
      BY <1>1, <1>4 DEF TypeOK
    <2>2. QED
      BY <1>1, <1>3, <1>8, <2>1 DEF TypeOK, content, ghosts
  <1>10. /\ OneAtATime'
         /\ \A q \in Sessions \ {p} : ProgressOf(q)' /\ ~Copying(q)
    BY <1>1, <1>2, OthersWait
  <1>11. /\ InPlace(job[p].assets) /\ IsPublished(p) /\ PruningKnows(p)
         /\ session[p].record.mtime = None
    BY <1>1 DEF Progress, ProgressOf
  <1>12. manifest' = job[p].assets
    BY <1>1, <1>11 DEF PruningKnows
  <1>13. Listed'
    BY <1>1, <1>11, <1>12 DEF Listed, PruningKnows, ghosts
  <1>14. Progress'
    <2>1. InPlace(job[p].assets)'
      BY <1>1, <1>2, <1>3, <1>4, <1>11, <1>12 DEF InPlace
    <2>2. IsPublished(p)'
      BY <1>1, <1>2, <1>3, <1>11 DEF IsPublished, Syncs, ghosts
    <2>3. StatKnows(p)' /\ session'[p].record.mtime = None
      BY <1>2, <1>3, <1>6, <1>8, <1>11, <1>12 DEF StatKnows
    <2>4. ProgressOf(p)'
      BY <1>2, <1>3, <2>1, <2>2, <2>3 DEF ProgressOf, Copying, At
    <2>5. QED
      BY <1>10, <2>4 DEF Progress
  <1>15. ClockIsAhead'
    BY <1>1, <1>6, <1>8 DEF ClockIsAhead, TypeOK
  <1>16. RecordsAreRight'
    <2>1. ASSUME NEW q \in Sessions, Trusted(session[q].record)'
          PROVE  /\ Trusted(session[q].record) /\ UNCHANGED manifest
                 /\ session'[q].record = session[q].record
      <3>1. q # p
        BY <1>6, <1>8, <1>11, <2>1 DEF Trusted
      <3>2. QED
        BY <1>1, <1>8, <2>1, <3>1, TouchedIsNotTrusted DEF Trusted
    <2>2. QED
      BY <1>1, <2>1 DEF RecordsAreRight
  <1>17. PublishedAreThere'
    <2>1. published.assets = job[p].assets
      BY <1>11 DEF IsPublished
    <2>2. QED
      BY <1>1, <1>4, <1>11, <1>12, <2>1 DEF PublishedAreThere, CurrentFiles, InPlace, ghosts
  <1>18. KnownAreStored' /\ PublishedAreStored'
    BY <1>1, <1>8, StorageKept DEF ghosts
  <1>19. QED
    BY <1>9, <1>10, <1>13, <1>14, <1>15, <1>16, <1>17, <1>18

\* Without a manifest the build fails, and what is listed stays listed.
LEMMA EndPruneFails ==
    ASSUME Inv, NEW p \in Sessions, EndPrune(p), job'[p] = None
    PROVE  Inv'
  <1> USE DEF Inv
  <1>1. /\ At(p, "pruning") /\ Publishing(p) /\ job[p] # None /\ Step(p, None)
        /\ UNCHANGED <<content, clock, folder, manifest, storage, session,
                       published, ghosts>>
        /\ mtime' = clock \/ UNCHANGED mtime
        /\ count' \in [{"edits", "builds", "wrong"} -> Nat]
    <2>1. At(p, "pruning") /\ job[p] # None /\ job[p] \in Job
      BY JobMade DEF EndPrune, At
    <2>2. [job[p] EXCEPT !.pc = "stat"] # None
      BY <2>1, NoneIsNone DEF Job, Steps
    <2>3. ~Step(p, [job[p] EXCEPT !.pc = "stat"])
      BY <2>2, StepTo
    <2>4. QED
      BY <2>1, <2>3 DEF EndPrune, At, Publishing, Touched, ManifestFails, Stop, Step,
                        Within, TypeOK
  <1>2. /\ job' \in [Sessions -> {None} \cup Job] /\ job'[p] = None
        /\ \A q \in Sessions \ {p} : job'[q] = job[q]
    BY <1>1, StepTyped
  <1>3. TypeOK'
    BY <1>1, <1>2 DEF TypeOK, content, ghosts
  <1>4. /\ OneAtATime'
        /\ \A q \in Sessions \ {p} : ProgressOf(q)' /\ ~Copying(q)
    BY <1>1, OthersWait
  <1>5. Listed'
    BY <1>1, <1>2, <1>4 DEF Listed, ghosts, Copying, At
  <1>6. Progress'
    BY <1>2, <1>4 DEF Progress, ProgressOf, Copying, At
  <1>7. ClockIsAhead'
    BY <1>1 DEF ClockIsAhead, TypeOK
  <1>8. RecordsAreRight'
    <2>1. ASSUME NEW q \in Sessions, Trusted(session[q].record)'
          PROVE  Trusted(session[q].record)
      BY <1>1, <2>1, TouchedIsNotTrusted DEF Trusted
    <2>2. QED
      BY <1>1, <2>1 DEF RecordsAreRight
  <1>9. PublishedAreThere'
    BY <1>1 DEF PublishedAreThere, CurrentFiles, ghosts
  <1>10. KnownAreStored' /\ PublishedAreStored'
    BY <1>1, StorageKept DEF ghosts
  <1>11. QED
    BY <1>3, <1>4, <1>5, <1>6, <1>7, <1>8, <1>9, <1>10

LEMMA EndPruneInv ==
    ASSUME Inv, NEW p \in Sessions, EndPrune(p)
    PROVE  Inv'
  BY EndsPruneInv, EndPruneFails

LEMMA FolderMtimeInv ==
    ASSUME Inv, NEW p \in Sessions, FolderMtime(p)
    PROVE  Inv'
  <1> DEFINE next == [job[p] EXCEPT !.pc = "storage"]
             record == [session[p].record EXCEPT !.mtime = mtime]
  <1> USE DEF Inv
  <1>1. /\ At(p, "stat") /\ Publishing(p) /\ job[p] # None /\ Step(p, next)
        /\ session' = [session EXCEPT ![p].record.mtime = mtime]
        /\ UNCHANGED <<content, clock, place, storage, published, ghosts, count>>
    BY DEF FolderMtime, At, Publishing
  <1>2. /\ next \in Job /\ next # None /\ next.pc = "storage"
        /\ next.assets = job[p].assets
    BY <1>1, JobMade, NoneIsNone DEF Job, Steps
  <1> HIDE DEF next
  <1>3. /\ job' \in [Sessions -> {None} \cup Job] /\ job'[p] = next
        /\ \A q \in Sessions \ {p} : job'[q] = job[q]
    BY <1>1, <1>2, StepTyped
  <1>4. /\ session[p] \in Session /\ session[p].record \in FolderRecord
    BY DEF TypeOK, Session
  <1>5. /\ record \in FolderRecord
        /\ record.assets = session[p].record.assets
        /\ record.readAt = session[p].record.readAt
    BY <1>4 DEF FolderRecord, TypeOK
  <1>6. /\ session' = [session EXCEPT ![p] = [session[p] EXCEPT !.record = record]]
    BY <1>1, <1>4 DEF TypeOK, Session, FolderRecord
  <1> HIDE DEF record
  <1>7. /\ session' \in [Sessions -> Session]
        /\ session'[p].record = record
        /\ \A q \in Sessions : /\ session'[q].known = session[q].known
                               /\ q # p => session'[q].record = session[q].record
    BY <1>4, <1>5, <1>6 DEF TypeOK, Session
  <1>8. TypeOK'
    BY <1>1, <1>3, <1>7 DEF TypeOK, content, place, ghosts
  <1>9. /\ OneAtATime'
        /\ \A q \in Sessions \ {p} : ProgressOf(q)' /\ ~Copying(q)
    BY <1>1, <1>2, OthersWait
  <1>10. ~Copying(p)
    BY <1>1 DEF Copying, At
  <1>11. Listed'
    BY <1>1, <1>9, <1>10 DEF Listed, place, ghosts
  <1>12. InPlace(job[p].assets) /\ IsPublished(p) /\ StatKnows(p)
    BY <1>1 DEF Progress, ProgressOf
  <1>13. Progress'
    <2>1. IsPublished(p)'
      BY <1>1, <1>2, <1>3, <1>12 DEF IsPublished, Syncs, ghosts
    <2>2. ProgressOf(p)'
      BY <1>2, <1>3, <2>1 DEF ProgressOf, Copying, At
    <2>3. QED
      BY <1>9, <2>2 DEF Progress
  <1>14. ClockIsAhead'
    BY <1>1, <1>5, <1>7 DEF ClockIsAhead, TypeOK, place
  <1>15. RecordsAreRight'
    <2>1. ASSUME NEW q \in Sessions, Trusted(session[q].record)'
          PROVE  /\ session'[q].record.assets # None
                 /\ session'[q].record.assets = manifest
                 /\ session'[q].record.assets \subseteq folder
      <3>1. CASE q = p
        BY <1>5, <1>7, <1>12, <3>1 DEF InPlace, StatKnows
      <3>2. CASE q # p
        BY <1>1, <1>7, <2>1, <3>2 DEF RecordsAreRight, Trusted, place
      <3>3. QED
        BY <3>1, <3>2
    <2>2. QED
      BY <1>1, <2>1 DEF RecordsAreRight, place
  <1>16. PublishedAreThere'
    BY <1>1 DEF PublishedAreThere, CurrentFiles, place, ghosts
  <1>17. KnownAreStored' /\ PublishedAreStored'
    BY <1>1, <1>7, StorageKept DEF ghosts
  <1>18. QED
    BY <1>8, <1>9, <1>11, <1>13, <1>14, <1>15, <1>16, <1>17

\* What this build published is not deleted; what others know is lost to them.
LEMMA PruneStorageInv ==
    ASSUME Inv, NEW p \in Sessions, PruneStorage(p)
    PROVE  Inv'
  <1> USE DEF Inv
  <1>1. /\ At(p, "storage") /\ Publishing(p) /\ job[p] # None /\ Step(p, None)
        /\ UNCHANGED <<content, clock, place, published, taken, unrecorded>>
        /\ count' \in [{"edits", "builds", "wrong"} -> Nat]
    <2>1. count' = count \/ Within("wrong", MaxWrong)
      BY DEF PruneStorage
    <2>2. count' \in [{"edits", "builds", "wrong"} -> Nat]
      BY <2>1 DEF Within, TypeOK
    <2>3. QED
      BY <2>2 DEF PruneStorage, At, Publishing, Stop, Step
  <1>2. PICK deleted \in SUBSET (storage \ job[p].assets),
             keys \in SUBSET session[p].known :
          /\ storage' = storage \ deleted
          /\ session' = [session EXCEPT ![p].known = keys]
          /\ lost' = lost \cup
                 {k \in deleted : \E q \in Sessions : k \in session'[q].known}
    <2> DEFINE stale == storage \ job[p].assets
               StillKnown(deleted) ==
                   {k \in deleted : \E q \in Sessions : k \in session'[q].known}
    <2>1. session = [session EXCEPT ![p].known = session[p].known]
      BY DEF TypeOK, Session
    <2>2. CASE /\ storage' = storage \ stale
               /\ session' = [session EXCEPT ![p].known = @ \ stale]
               /\ lost' = lost \cup StillKnown(stale)
      <3>1. session' = [session EXCEPT ![p].known = session[p].known \ stale]
        BY <2>2 DEF TypeOK, Session
      <3>2. stale \in SUBSET stale /\ session[p].known \ stale \in SUBSET session[p].known
        OBVIOUS
      <3>3. QED
        BY <2>2, <3>1, <3>2
    <2>3. CASE \E deleted \in SUBSET stale \ {stale} :
                   /\ storage' = storage \ deleted
                   /\ UNCHANGED session
                   /\ lost' = lost \cup StillKnown(deleted)
      BY <2>1, <2>3
    <2>4. CASE UNCHANGED <<storage, session, lost>>
      <3>1. storage' = storage \ {} /\ lost' = lost \cup StillKnown({})
        BY <2>4
      <3>2. QED
        BY <2>1, <2>4, <3>1
    <2>5. QED
      BY <2>2, <2>3, <2>4 DEF PruneStorage
  <1>3. session[p].known \subseteq Copies
    BY DEF TypeOK, Session
  <1>4. /\ session' \in [Sessions -> Session] /\ session'[p].known = keys
        /\ \A q \in Sessions : /\ session'[q].record = session[q].record
                               /\ q # p => session'[q].known = session[q].known
    BY <1>2, <1>3, Learns
  <1>5. /\ job' \in [Sessions -> {None} \cup Job] /\ job'[p] = None
        /\ \A q \in Sessions \ {p} : job'[q] = job[q]
    BY <1>1, StepTyped
  <1>6. TypeOK'
    <2>1. storage' \subseteq Copies /\ lost' \subseteq Copies
      BY <1>2 DEF TypeOK
    <2>2. QED
      BY <1>1, <1>4, <1>5, <2>1 DEF TypeOK, content, place
  <1>7. /\ OneAtATime'
        /\ \A q \in Sessions \ {p} : ProgressOf(q)' /\ ~Copying(q)
    BY <1>1, OthersWait
  <1>8. ~Copying(p)
    BY <1>1 DEF Copying, At
  <1>9. Listed'
    BY <1>1, <1>7, <1>8 DEF Listed, place
  <1>10. Progress'
    BY <1>5, <1>7 DEF Progress, ProgressOf, Copying, At
  <1>11. PublishedAreThere' /\ RecordsAreRight' /\ ClockIsAhead'
    BY <1>1, <1>4, FolderKept
  <1>12. KnownAreStored'
    <2>1. ASSUME NEW q \in Sessions, NEW k \in session'[q].known
          PROVE  k \in storage' \cup lost'
      <3>1. k \in storage \cup lost
        BY <1>2, <1>4, <2>1 DEF KnownAreStored
      <3>2. k \in deleted => k \in lost'
        BY <1>2, <2>1
      <3>3. QED
        BY <1>2, <3>1, <3>2
    <2>2. QED
      BY <2>1 DEF KnownAreStored
  <1>13. PublishedAreStored'
    <2>1. published.assets = job[p].assets
      BY <1>1 DEF Progress, ProgressOf, IsPublished
    <2>2. QED
      BY <1>1, <1>2, <2>1 DEF PublishedAreStored
  <1>14. QED
    BY <1>6, <1>7, <1>9, <1>10, <1>11, <1>12, <1>13

----------------------------------------------------------------------------
(* What happens around the builds.                                         *)

\* A session that is killed while it copies leaves copies that nobody records.
LEMMA KillInv ==
    ASSUME Inv, NEW p \in Sessions, Kill(p)
    PROVE  Inv'
  <1> USE DEF Inv
  <1>1. /\ job[p] # None /\ Step(p, None)
        /\ session' = [session EXCEPT ![p] = NewSession]
        /\ unrecorded' = IF Copying(p) THEN unrecorded \cup job[p].present
                         ELSE unrecorded
        /\ UNCHANGED <<content, clock, place, storage, published, taken, lost>>
        /\ count' \in [{"edits", "builds", "wrong"} -> Nat]
    BY DEF Kill, Stop, Step, Copying, Within, TypeOK
  <1>2. /\ job' \in [Sessions -> {None} \cup Job] /\ job'[p] = None
        /\ \A q \in Sessions \ {p} : job'[q] = job[q]
    BY <1>1, StepTyped
  <1>3. /\ NewSession \in Session /\ NewSession.record.mtime = None
        /\ NewSession.record.readAt = 0 /\ NewSession.known = {}
    BY DEF NewSession, Session, FolderRecord
  <1>4. /\ session' \in [Sessions -> Session]
        /\ session'[p].record.mtime = None /\ session'[p].record.readAt = 0
        /\ session'[p].known = {}
        /\ \A q \in Sessions \ {p} : session'[q] = session[q]
    BY <1>1, <1>3 DEF TypeOK
  <1>5. TypeOK'
    <2>1. unrecorded' \subseteq Copies
      BY <1>1, JobMade DEF TypeOK
    <2>2. QED
      BY <1>1, <1>2, <1>4, <2>1 DEF TypeOK, content, place
  <1>6. ~Publishing(p)' /\ ~Copying(p)'
    BY <1>2 DEF Publishing, Copying, At
  <1>7. OneAtATime'
    BY <1>2, <1>6 DEF OneAtATime, Publishing
  <1>8. \A q \in Sessions \ {p} : Copying(q)' = Copying(q)
    BY <1>2 DEF Copying, At
  <1>9. \A q \in Sessions \ {p} : Publishing(q) => ~Publishing(p)
    BY DEF OneAtATime
  <1>10. Copying(p) =>
             /\ CopyingKnows(p)
             /\ \A q \in Sessions \ {p} : ~Copying(q)
    BY <1>9 DEF Progress, ProgressOf, Copying, At, Publishing
  <1>11. Listed'
    <2>1. CASE Copying(p)
      BY <1>1, <1>10, <2>1 DEF Listed, CopyingKnows, place
    <2>2. CASE ~Copying(p)
      BY <1>1, <1>6, <1>8, <2>2 DEF Listed, place
    <2>3. QED
      BY <2>1, <2>2
  <1>12. Progress'
    <2>1. ASSUME NEW q \in Sessions \ {p}, Publishing(q)
          PROVE  ProgressOf(q)'
      <3>1. ~Copying(p)
        BY <1>9, <2>1 DEF Copying, At, Publishing
      <3>2. UNCHANGED unrecorded
        BY <1>1, <3>1
      <3>3. QED
        BY <1>1, <1>2, <1>4, <3>2, KeepsProgress DEF place
    <2>2. ASSUME NEW q \in Sessions \ {p}, ~Publishing(q)
          PROVE  ProgressOf(q)'
      BY <1>2, <2>2, IdleKnowsNothing DEF Publishing
    <2>3. QED
      BY <1>6, <2>1, <2>2, IdleKnowsNothing DEF Progress
  <1>13. ClockIsAhead'
    BY <1>1, <1>4 DEF ClockIsAhead, TypeOK, place
  <1>14. RecordsAreRight'
    BY <1>1, <1>4 DEF RecordsAreRight, Trusted, place
  <1>15. PublishedAreThere' /\ KnownAreStored' /\ PublishedAreStored'
    BY <1>1, <1>4
       DEF PublishedAreThere, CurrentFiles, KnownAreStored, PublishedAreStored, place
  <1>16. QED
    BY <1>5, <1>7, <1>11, <1>12, <1>13, <1>14, <1>15

\* The user's edits of files and documents change nothing that is published.
LEMMA EditInv ==
    ASSUME Inv, EditContent \/ \E s \in Sources : EditSource(s)
    PROVE  Inv'
  <1> USE DEF Inv
  <1>1. /\ UNCHANGED <<clock, place, storage, session, job, published, ghosts>>
        /\ count' \in [{"edits", "builds", "wrong"} -> Nat]
    BY DEF EditSource, EditContent, Within, TypeOK
  <1>2. TypeOK'
    <2>1. /\ text' \in [Sources -> {None} \cup Texts] /\ stamp' \in [Sources -> Nat]
          /\ wanted' \in Wants
      BY DEF EditSource, EditContent, TypeOK
    <2>2. QED
      BY <1>1, <2>1 DEF TypeOK, place, ghosts
  <1>3. OneAtATime' /\ Listed'
    BY <1>1 DEF OneAtATime, Publishing, Listed, Copying, At, place, ghosts
  <1>4. Progress'
    BY <1>1, KeepsProgress DEF Progress, place, ghosts
  <1>5. PublishedAreThere' /\ RecordsAreRight' /\ ClockIsAhead'
    BY <1>1, FolderKept DEF ghosts
  <1>6. KnownAreStored' /\ PublishedAreStored'
    BY <1>1, StorageKept DEF ghosts
  <1>7. QED
    BY <1>2, <1>3, <1>4, <1>5, <1>6

\* The user's visits to the folder show in its time.
LEMMA VisitInv ==
    ASSUME Inv, CleanFolder \/ AddNote
    PROVE  Inv'
  <1> USE DEF Inv
  <1>1. /\ \A p \in Sessions : ~Publishing(p)
        /\ UNCHANGED <<content, clock, storage, session, job, published, unrecorded, lost>>
        /\ count' \in [{"edits", "builds", "wrong"} -> Nat]
    BY DEF CleanFolder, AddNote, Within, TypeOK, ghosts
  <1>2. \/ folder' = {} /\ manifest' = None /\ mtime' = None /\ taken' = taken \cup folder
        \/ /\ \E f \in folder : folder' = folder \ {f} /\ taken' = taken \cup {f}
           /\ mtime' = clock /\ UNCHANGED manifest
        \/ /\ folder' = folder \cup {Note} /\ mtime' = clock
           /\ UNCHANGED <<manifest, taken>>
    BY DEF CleanFolder, AddNote, Touched, ghosts
  <1>3. TypeOK'
    <2>1. /\ folder' \subseteq Copies \cup {Note} /\ taken' \subseteq Copies \cup {Note}
          /\ manifest' \in {None} \cup SUBSET Copies /\ mtime' \in {None} \cup Nat
      BY <1>2 DEF TypeOK
    <2>2. QED
      BY <1>1, <2>1 DEF TypeOK, content
  <1>4. \A p \in Sessions : ~Publishing(p)' /\ ~Copying(p)
    BY <1>1 DEF Publishing, Copying, At
  <1>5. OneAtATime' /\ Progress'
    BY <1>4, IdleKnowsNothing DEF OneAtATime, Progress
  <1>6. Listed'
    BY <1>1, <1>2, <1>4, NoteIsNoCopy DEF Listed
  <1>7. ClockIsAhead'
    BY <1>1, <1>2 DEF ClockIsAhead, TypeOK
  <1>8. RecordsAreRight'
    <2>1. ASSUME NEW p \in Sessions PROVE ~Trusted(session[p].record)'
      BY <1>1, <1>2, TouchedIsNotTrusted DEF Trusted
    <2>2. QED
      BY <2>1 DEF RecordsAreRight
  <1>9. PublishedAreThere'
    <2>1. published.assets \subseteq Copies
      BY DEF TypeOK
    <2>2. QED
      BY <1>1, <1>2, <2>1, NoteIsNoCopy DEF PublishedAreThere, CurrentFiles
  <1>10. KnownAreStored' /\ PublishedAreStored'
    BY <1>1, StorageKept
  <1>11. QED
    BY <1>3, <1>5, <1>6, <1>7, <1>8, <1>9, <1>10

LEMMA TickInv ==
    ASSUME Inv, Tick
    PROVE  Inv'
  <1> USE DEF Inv
  <1>1. /\ clock' = clock + 1
        /\ UNCHANGED <<content, place, storage, session, job, published, ghosts, count>>
    BY DEF Tick
  <1>2. TypeOK'
    BY <1>1 DEF TypeOK, content, place, ghosts
  <1>3. OneAtATime' /\ Listed'
    BY <1>1 DEF OneAtATime, Publishing, Listed, Copying, At, place, ghosts
  <1>4. Progress'
    BY <1>1, KeepsProgress DEF Progress, place, ghosts
  <1>5. ClockIsAhead'
    BY <1>1 DEF ClockIsAhead, TypeOK, Session, FolderRecord, place
  <1>6. RecordsAreRight' /\ PublishedAreThere'
    BY <1>1 DEF RecordsAreRight, Trusted, PublishedAreThere, CurrentFiles, place, ghosts
  <1>7. KnownAreStored' /\ PublishedAreStored'
    BY <1>1, StorageKept DEF ghosts
  <1>8. QED
    BY <1>2, <1>3, <1>4, <1>5, <1>6, <1>7

----------------------------------------------------------------------------

LEMMA NextInv ==
    ASSUME Inv, [Next]_vars
    PROVE  Inv'
  <1>1. CASE UNCHANGED vars
    <2>1. UNCHANGED <<content, clock, place, storage, session, job, published, ghosts, count>>
      BY <1>1 DEF vars
    <2>2. TypeOK' /\ OneAtATime' /\ Listed'
      BY <2>1 DEF Inv, TypeOK, OneAtATime, Publishing, Listed, Copying, At, content,
                  place, ghosts
    <2>3. Progress'
      BY <2>1, KeepsProgress DEF Inv, Progress, place, ghosts
    <2>4. PublishedAreThere' /\ RecordsAreRight' /\ ClockIsAhead'
      BY <2>1, FolderKept DEF Inv, ghosts
    <2>5. KnownAreStored' /\ PublishedAreStored'
      BY <2>1, StorageKept DEF Inv, ghosts
    <2>6. QED
      BY <2>2, <2>3, <2>4, <2>5 DEF Inv
  <1>2. ASSUME NEW p \in Sessions, BeginBuild(p) \/ Lock(p)
        PROVE  Inv'
    BY <1>2, BeginBuildInv, LockInv
  <1>3. ASSUME NEW p \in Sessions, CopyAssets(p) \/ Record(p) \/ Write(p)
        PROVE  Inv'
    BY <1>3, CopyAssetsInv, RecordInv, WriteInv
  <1>4. ASSUME NEW p \in Sessions, PruneAssets(p) \/ EndPrune(p) \/ FolderMtime(p)
        PROVE  Inv'
    BY <1>4, PruneAssetsInv, EndPruneInv, FolderMtimeInv
  <1>5. ASSUME NEW p \in Sessions, PruneStorage(p) \/ Kill(p)
        PROVE  Inv'
    BY <1>5, PruneStorageInv, KillInv
  <1>6. ASSUME NEW p \in Sessions, NEW s \in Sources, CheckAssetFile(p, s)
        PROVE  Inv'
    BY <1>6, CheckAssetFileInv
  <1>7. ASSUME NEW p \in Sessions, NEW a \in Copies,
               CopyOne(p, a) \/ SyncOne(p, a) \/ PruneOne(p, a)
        PROVE  Inv'
    BY <1>7, CopyOneInv, SyncOneInv, PruneOneInv
  <1>8. ASSUME NEW s \in Allowed, EditSource(s)
        PROVE  Inv'
    BY <1>8, EditInv, AssetConstants
  <1>9. CASE EditContent
    BY <1>9, EditInv
  <1>10. CASE CleanFolder \/ AddNote
    BY <1>10, VisitInv
  <1>11. CASE Tick
    BY <1>11, TickInv
  <1>12. QED
    BY <1>1, <1>2, <1>3, <1>4, <1>5, <1>6, <1>7, <1>8, <1>9, <1>10, <1>11 DEF Next

(* The inductive invariant: one session publishes at a time and has done what *)
(* its step says, and a folder that looks as a session left it is as it left  *)
(* it.                                                                        *)
THEOREM Invariance == Spec => []Inv
  BY InitInv, NextInv, PTL DEF Spec

(* Every session, build and record of the folder has the type it is declared  *)
(* with, and what the manifest lists are copies.                              *)
THEOREM TypeCorrectness == Spec => []TypeOK
  <1>1. Inv => TypeOK
    BY DEF Inv
  <1>2. QED
    BY <1>1, Invariance, PTL

(* The files that the generated modules point at are in the folder, and are   *)
(* shipped with an app, but for those the user took away: copyAssets comes    *)
(* before publish and pruneAssets after it, also when a session trusts the    *)
(* time of the folder instead of looking into it (isSettled).                 *)
THEOREM ThePublishedAreThere == Spec => []PublishedAreThere
  <1>1. Inv => PublishedAreThere
    BY DEF Inv
  <1>2. QED
    BY <1>1, Invariance, PTL

(* Between builds the manifest lists every copy in the folder that a killed   *)
(* session, or one that could not write the manifest, did not leave: after a  *)
(* failed copy it is written too (copyAssets).                                *)
THEOREM TheCopiesAreListed == Spec => []CopiesAreListed
  <1>1. Inv => CopiesAreListed
    BY DEF Inv, Listed, CopiesAreListed, Copying, At, Publishing
  <1>2. QED
    BY <1>1, Invariance, PTL

(* What is published for storage is stored, though sessions skip the keys     *)
(* they know (syncStorage): but for keys that another session deleted, or a   *)
(* batch that failed in part (pruneStorage).                                  *)
THEOREM ThePublishedAreStored == Spec => []PublishedAreStored
  <1>1. Inv => PublishedAreStored
    BY DEF Inv
  <1>2. QED
    BY <1>1, Invariance, PTL

=============================================================================
