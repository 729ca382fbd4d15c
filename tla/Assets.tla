------------------------------- MODULE Assets -------------------------------
(* The asset plugin, packages/assets/src: the files that documents use are     *)
(* hashed (core's field-context.ts), copied into a folder and uploaded before  *)
(* the generated modules are published, and what is no longer used is pruned   *)
(* after that.  Sessions of one project take turns by the output lock; each    *)
(* remembers hashes, the folder as it left it and the keys it saw in storage.  *)
(* A session can be killed at any step; copies, deletes, uploads and writes of *)
(* the manifest can fail; the user edits the files and cleans the folder.      *)
(*                                                                             *)
(* A copy is named by its file and the hash of its text: [source, hash].  The  *)
(* clock counts steps of the time that the file system keeps.  Left out: dry   *)
(* runs, which write nothing, and the sanitizing of SVGs.                      *)
EXTENDS Integers

CONSTANTS
    None,
    Sessions,
    Sources,         \* files that documents can use
    Allowed,         \* those the rules let be copied (assetPathProblem)
    Texts,
    Note,            \* a file of the user, not named like a copy
    Wants,           \* sets of files that the documents can use
    Mode,            \* [Sessions -> {"build", "dev"}]
    SyncInDev, Prune, PruneEmpty,   \* options of the storage
    MaxClock, MaxEdits, MaxBuilds,
    MaxWrong         \* kills, failures of a call, and visits of the user to the folder

VARIABLES
    text, stamp,     \* [Sources -> text, and when it was written]
    wanted,          \* the files that the documents use
    clock,
    folder, manifest, mtime,   \* the assets folder; mtime None: it is not there
    storage,         \* copies in storage
    session,         \* [Sessions -> what it remembers]
    job,             \* [Sessions -> the build it is at, or None]
    published,       \* what the generated modules were last published with
    taken,           \* copies the user took away since
    unrecorded,      \* copies of a session that could not write the manifest
    lost,            \* keys deleted from storage that a session still knows
    count            \* how often something happened, for the bounds

content == <<text, stamp, wanted>>
place == <<folder, manifest, mtime>>
ghosts == <<taken, unrecorded, lost>>
vars == <<content, clock, place, storage, session, job, published, ghosts, count>>

Copies == [source : Sources, hash : Texts]     \* isHashedAssetName
Hash == [stamp : Nat, hash : Texts]
Steps == {"hash", "copy", "copying", "uncopied", "sync", "prune", "pruning", "stat",
          "storage"}
FolderRecord == [assets : {None} \cup SUBSET Copies, mtime : {None} \cup Nat, readAt : Nat]
Session == [memo : [Sources -> {None} \cup Hash], record : FolderRecord, known : SUBSET Copies]
\* A build: the files it still has to hash; the assets it publishes; and, for
\* copyAssets and pruneAssets, the files that Anhur owned at first, whether the
\* manifest said so, and the ones in place now.
Job == [pc : Steps, todo : SUBSET Sources, assets : SUBSET Copies,
        previous : SUBSET Copies, listed : BOOLEAN, present : SUBSET Copies]

ASSUME AssetConstants ==
    /\ Allowed \subseteq Sources /\ Wants \subseteq SUBSET Sources
    /\ Mode \in [Sessions -> {"build", "dev"}]
    /\ {MaxClock, MaxEdits, MaxBuilds, MaxWrong} \subseteq Nat
ASSUME NoteIsNoCopy == Note \notin Copies
ASSUME NoneIsNone ==
    /\ None \notin Job /\ None \notin Hash /\ None \notin Texts
    /\ \A assets \in SUBSET Copies : assets # None

NewSession ==
    [memo |-> [s \in Sources |-> None],
     record |-> [assets |-> None, mtime |-> None, readAt |-> 0], known |-> {}]

Within(what, bound) == count[what] < bound /\ count' = [count EXCEPT ![what] = @ + 1]
At(p, pc) == job[p] # None /\ job[p].pc = pc
Step(p, next) == job' = [job EXCEPT ![p] = next]
\* The build of p is over; the output lock is free again.
Stop(p) == job' = [job EXCEPT ![p] = None]
Publishing(p) == job[p] # None /\ job[p].pc # "hash"
Touched == mtime' = clock

-----------------------------------------------------------------------------
(* A build hashes the files its documents use (emitAssetFile).             *)

BeginBuild(p) ==
    /\ job[p] = None
    /\ Within("builds", MaxBuilds)
    /\ Step(p, [pc |-> "hash", todo |-> wanted, assets |-> {},
                previous |-> {}, listed |-> FALSE, present |-> {}])
    /\ UNCHANGED <<content, clock, place, storage, session, published, ghosts>>

\* The hash of a file is kept while its stamp is the same.
HashFile(p, s) ==
    LET known == session[p].memo[s]
    IN  IF known # None /\ known.stamp = stamp[s]
        THEN known
        ELSE [stamp |-> stamp[s], hash |-> text[s]]

MayBeCopied(s) == s \in Allowed

\* A file that the rules refuse, or that is not there, fails the build.
CheckAssetFile(p, s) ==
    /\ At(p, "hash") /\ s \in job[p].todo
    /\ IF MayBeCopied(s) /\ text[s] # None
       THEN LET entry == HashFile(p, s)
            IN  /\ session' = [session EXCEPT ![p].memo[s] = entry]
                /\ Step(p, [job[p] EXCEPT
                        !.todo = @ \ {s},
                        !.assets = @ \cup {[source |-> s, hash |-> entry.hash]}])
       ELSE Stop(p) /\ UNCHANGED session
    /\ UNCHANGED <<content, clock, place, storage, published, ghosts, count>>

\* One session publishes at a time (Engine.publish).
Lock(p) ==
    /\ At(p, "hash") /\ job[p].todo = {}
    /\ \A q \in Sessions : ~Publishing(q)
    /\ Step(p, [job[p] EXCEPT !.pc = "copy"])
    /\ UNCHANGED <<content, clock, place, storage, session, published, ghosts, count>>

-----------------------------------------------------------------------------
(* copyAssets.                                                             *)

SettledAtOnce(p) ==                                               \* mutant
    LET record == session[p].record
    IN  /\ record.mtime # None
        /\ record.assets = job[p].assets
        /\ mtime = record.mtime
\* A folder changed twice within a step of its time keeps its mtime.
IsSettled(p) ==
    LET record == session[p].record
    IN  /\ record.mtime # None /\ record.mtime < record.readAt
        /\ record.assets = job[p].assets
        /\ mtime = record.mtime

\* What Anhur may delete: what the manifest lists.  Without one, a folder is
\* adopted whose files are all named like copies; None: it is refused.
OwnedFiles ==
    IF manifest # None THEN manifest
    ELSE IF folder \subseteq Copies THEN folder ELSE None
Forget(p) == session' = [session EXCEPT ![p].record.mtime = None]

CopyAssets(p) ==
    /\ At(p, "copy")
    /\ IF IsSettled(p)
       THEN Step(p, [job[p] EXCEPT !.pc = "sync"]) /\ UNCHANGED <<session, mtime>>
       ELSE /\ Forget(p)
            /\ IF OwnedFiles = None
               THEN Stop(p) /\ UNCHANGED mtime
               ELSE /\ Step(p, [job[p] EXCEPT !.pc = "copying",
                                            !.previous = OwnedFiles,
                                            !.listed = manifest # None,
                                            !.present = job[p].assets \cap folder])
                    /\ mtime' = IF mtime = None THEN clock ELSE mtime
    /\ UNCHANGED <<content, clock, folder, manifest, storage, published, ghosts, count>>

Missing(p) == job[p].assets \ job[p].present

\* The copy has the hash of its name, or it is not kept.
CopyIsGood(p, a) == text[a.source] = a.hash

CopyOne(p, a) ==
    /\ job[p] # None /\ job[p].pc \in {"copying", "uncopied"}
    /\ a \in Missing(p)
    /\ \/ /\ CopyIsGood(p, a)
          /\ folder' = folder \cup {a} /\ Touched
          /\ Step(p, [job[p] EXCEPT !.present = @ \cup {a}])
          /\ UNCHANGED count
       \/ /\ IF CopyIsGood(p, a) THEN Within("wrong", MaxWrong) ELSE UNCHANGED count
          /\ Step(p, [job[p] EXCEPT !.pc = "uncopied"])
          /\ UNCHANGED <<folder, mtime>>
    /\ UNCHANGED <<content, clock, manifest, storage, session, published, ghosts>>

\* A manifest that cannot be written is the one before.  What is left of the
\* attempt has a hidden name: it counts for nothing, but touches the folder.
WriteManifest(files) == manifest' = files /\ Touched
ManifestFails == UNCHANGED manifest /\ (Touched \/ UNCHANGED mtime)

RecordPresent(p) == job[p].present                                \* mutant
\* The files of earlier builds and the ones in place now.
Recorded(p) == job[p].previous \cup job[p].present

\* Nothing is written when the manifest lists all of them.  After a failed
\* copy (what had begun to be copied is waited for) it is written too.
Record(p) ==
    /\ \/ At(p, "copying") /\ Missing(p) = {}
       \/ At(p, "uncopied")
    /\ \/ /\ IF job[p].listed /\ job[p].present \subseteq job[p].previous
             THEN UNCHANGED <<manifest, mtime>>
             ELSE WriteManifest(Recorded(p))
          /\ IF At(p, "copying") THEN Step(p, [job[p] EXCEPT !.pc = "sync"]) ELSE Stop(p)
          /\ UNCHANGED <<count, unrecorded>>
       \/ /\ ~(job[p].listed /\ job[p].present \subseteq job[p].previous)
          /\ Within("wrong", MaxWrong) /\ ManifestFails
          /\ unrecorded' = unrecorded \cup job[p].present
          /\ Stop(p)
    /\ UNCHANGED <<content, clock, folder, storage, session, published, taken, lost>>

-----------------------------------------------------------------------------
(* syncStorage.                                                            *)

Syncs(p) == Mode[p] = "build" \/ SyncInDev
Pending(p) == IF Syncs(p) THEN job[p].assets \ session[p].known ELSE {}

KnownBefore(p, uploaded, a) == session[p].known \cup {a}          \* mutant
KnownAfter(p, uploaded, a) == session[p].known \cup (IF uploaded THEN {a} ELSE {})

\* What is in storage, or is uploaded, is known from then on.
SyncOne(p, a) ==
    /\ At(p, "sync") /\ a \in Pending(p)
    /\ \/ /\ storage' = storage \cup {a}
          /\ lost' = lost \ {a}
          /\ session' = [session EXCEPT ![p].known = KnownAfter(p, TRUE, a)]
          /\ UNCHANGED <<job, count>>
       \/ /\ Within("wrong", MaxWrong)
          /\ session' = [session EXCEPT ![p].known = KnownAfter(p, FALSE, a)]
          /\ Stop(p) /\ UNCHANGED <<storage, lost>>
    /\ UNCHANGED <<content, clock, place, published, taken, unrecorded>>

\* The generated modules point at the assets of the build (OutputWriter).
Write(p) ==
    /\ At(p, "sync") /\ Pending(p) = {}
    /\ \/ /\ published' = [assets |-> job[p].assets, synced |-> Syncs(p)]
          /\ taken' = {}
          /\ Step(p, [job[p] EXCEPT !.pc = "prune"]) /\ UNCHANGED count
       \/ /\ Within("wrong", MaxWrong)
          /\ Stop(p) /\ UNCHANGED <<published, taken>>
    /\ UNCHANGED <<content, clock, place, storage, session, unrecorded, lost>>

-----------------------------------------------------------------------------
(* pruneAssets.                                                            *)

PruneAssets(p) ==
    /\ At(p, "prune")
    /\ IF IsSettled(p)
       THEN Step(p, [job[p] EXCEPT !.pc = "storage"]) /\ UNCHANGED session
       ELSE /\ Forget(p)
            /\ IF OwnedFiles = None THEN Stop(p)
               ELSE Step(p, [job[p] EXCEPT !.pc = "pruning",
                                         !.previous = OwnedFiles,
                                         !.listed = manifest # None,
                                         !.present = OwnedFiles \cup job[p].assets])
    /\ UNCHANGED <<content, clock, place, storage, published, ghosts, count>>

\* A file that cannot be deleted fails the build; it stays in the manifest,
\* which is written as well as it can be.
PruneOne(p, f) ==
    /\ At(p, "pruning") /\ f \in job[p].present \ job[p].assets
    /\ \/ /\ folder' = folder \ {f}
          /\ mtime' = IF f \in folder THEN clock ELSE mtime
          /\ Step(p, [job[p] EXCEPT !.present = @ \ {f}])
          /\ UNCHANGED <<manifest, count>>
       \/ /\ Within("wrong", MaxWrong)
          /\ WriteManifest(job[p].present) \/ ManifestFails
          /\ Stop(p) /\ UNCHANGED folder
    /\ UNCHANGED <<content, clock, storage, session, published, ghosts>>

IsUnchanged(p) == job[p].present = job[p].previous /\ job[p].listed

EndPrune(p) ==
    /\ At(p, "pruning") /\ job[p].present = job[p].assets
    /\ \/ /\ IF IsUnchanged(p) THEN UNCHANGED <<manifest, mtime>>
             ELSE WriteManifest(job[p].present)
          /\ session' = [session EXCEPT ![p].record.assets = job[p].assets,
                                        ![p].record.readAt = clock]
          /\ Step(p, [job[p] EXCEPT !.pc = "stat"]) /\ UNCHANGED count
       \/ /\ ~IsUnchanged(p) /\ Within("wrong", MaxWrong) /\ ManifestFails
          /\ Stop(p) /\ UNCHANGED session
    /\ UNCHANGED <<content, clock, folder, storage, published, ghosts>>

FolderMtime(p) ==
    /\ At(p, "stat")
    /\ session' = [session EXCEPT ![p].record.mtime = mtime]
    /\ Step(p, [job[p] EXCEPT !.pc = "storage"])
    /\ UNCHANGED <<content, clock, place, storage, published, ghosts, count>>

\* What another session knows of a key that is deleted is not changed; nor,
\* when a part of the batch is not deleted, what this one knows.
PruneStorage(p) ==
    LET stale == storage \ job[p].assets
        StillKnown(deleted) == {k \in deleted : \E q \in Sessions : k \in session'[q].known}
    IN  /\ At(p, "storage")
        /\ IF Prune /\ Mode[p] = "build" /\ (job[p].assets # {} \/ PruneEmpty)
           THEN \/ /\ storage' = storage \ stale
                   /\ session' = [session EXCEPT ![p].known = @ \ stale]
                   /\ lost' = lost \cup StillKnown(stale)
                   /\ UNCHANGED count
                \/ \E deleted \in SUBSET stale \ {stale} :
                     /\ Within("wrong", MaxWrong)
                     /\ storage' = storage \ deleted
                     /\ UNCHANGED session
                     /\ lost' = lost \cup StillKnown(deleted)
           ELSE UNCHANGED <<storage, session, lost, count>>
        /\ Stop(p)
        /\ UNCHANGED <<content, clock, place, published, taken, unrecorded>>

-----------------------------------------------------------------------------
(* What happens around the builds.                                         *)

\* A session is killed; another one takes its place and knows nothing.
Kill(p) ==
    /\ job[p] # None
    /\ Within("wrong", MaxWrong)
    /\ Stop(p)
    /\ session' = [session EXCEPT ![p] = NewSession]
    /\ unrecorded' = IF At(p, "copying") \/ At(p, "uncopied")
                     THEN unrecorded \cup job[p].present ELSE unrecorded
    /\ UNCHANGED <<content, clock, place, storage, published, taken, lost>>

\* Two edits within a step of the time leave the same stamp.
EditSource(s) ==
    /\ Within("edits", MaxEdits)
    /\ \E t \in Texts \cup {None} : t # text[s] /\ text' = [text EXCEPT ![s] = t]
    /\ stamp' = [stamp EXCEPT ![s] = clock]
    /\ UNCHANGED <<wanted, clock, place, storage, session, job, published, ghosts>>

EditContent ==
    /\ Within("edits", MaxEdits)
    /\ \E w \in Wants \ {wanted} : wanted' = w
    /\ UNCHANGED <<text, stamp, clock, place, storage, session, job, published, ghosts>>

\* The user removes the folder, or a file of it, while nothing is published.
CleanFolder ==
    /\ \A p \in Sessions : ~Publishing(p)
    /\ mtime # None
    /\ Within("wrong", MaxWrong)
    /\ \/ /\ folder' = {} /\ manifest' = None /\ mtime' = None
          /\ taken' = taken \cup folder
       \/ \E f \in folder :
            /\ folder' = folder \ {f} /\ Touched
            /\ taken' = taken \cup {f} /\ UNCHANGED manifest
    /\ UNCHANGED <<content, clock, storage, session, job, published, unrecorded, lost>>

\* The user puts a file of his own in it.
AddNote ==
    /\ \A p \in Sessions : ~Publishing(p)
    /\ Note \notin folder
    /\ Within("wrong", MaxWrong)
    /\ folder' = folder \cup {Note} /\ Touched
    /\ UNCHANGED <<content, clock, manifest, storage, session, job, published, ghosts>>

Tick ==
    /\ clock < MaxClock
    /\ clock' = clock + 1
    /\ UNCHANGED <<content, place, storage, session, job, published, ghosts, count>>

Init ==
    /\ text \in [Sources -> Texts] /\ stamp = [s \in Sources |-> 0]
    /\ wanted \in Wants
    /\ clock = 1
    /\ folder = {} /\ manifest = None /\ mtime = None
    /\ storage = {}
    /\ session = [p \in Sessions |-> NewSession]
    /\ job = [p \in Sessions |-> None]
    /\ published = [assets |-> {}, synced |-> FALSE]
    /\ taken = {} /\ unrecorded = {} /\ lost = {}
    /\ count = [what \in {"edits", "builds", "wrong"} |-> 0]

Next ==
    \/ \E p \in Sessions :
         \/ BeginBuild(p) \/ Lock(p) \/ CopyAssets(p) \/ Record(p) \/ Write(p)
         \/ PruneAssets(p) \/ EndPrune(p) \/ FolderMtime(p) \/ PruneStorage(p) \/ Kill(p)
         \/ \E s \in Sources : CheckAssetFile(p, s)
         \/ \E a \in Copies : CopyOne(p, a) \/ SyncOne(p, a) \/ PruneOne(p, a)
    \/ \E s \in Allowed : EditSource(s)
    \/ EditContent \/ CleanFolder \/ AddNote \/ Tick

Spec == Init /\ [][Next]_vars

-----------------------------------------------------------------------------
TypeOK ==
    /\ text \in [Sources -> {None} \cup Texts] /\ stamp \in [Sources -> Nat]
    /\ wanted \in Wants
    /\ clock \in Nat
    /\ folder \subseteq Copies \cup {Note}
    /\ manifest \in {None} \cup SUBSET Copies /\ mtime \in {None} \cup Nat
    /\ storage \subseteq Copies
    /\ session \in [Sessions -> Session]
    /\ job \in [Sessions -> {None} \cup Job]
    /\ published \in [assets : SUBSET Copies, synced : BOOLEAN]
    /\ taken \subseteq Copies \cup {Note}
    /\ unrecorded \subseteq Copies /\ lost \subseteq Copies
    /\ count \in [{"edits", "builds", "wrong"} -> Nat]

\* What is copied into the app's output (currentFiles of vite's output-assets.ts).
CurrentFiles == IF manifest # None THEN manifest ELSE folder

(* The files that the generated modules point at are in the folder, and are   *)
(* what an app is shipped with, at every moment: "Copies and uploads happen   *)
(* before generated modules are published; files of earlier builds are pruned *)
(* after them" (plugin.ts:260).  A session that finds the folder as it left   *)
(* it does not overlook what another session, or the user, did to it.         *)
PublishedAreThere ==
    published.assets \ taken \subseteq folder \cap CurrentFiles

(* Between builds, the manifest lists every copy in the folder, "also when a  *)
(* copy failed", "so pruneAssets can remove every file Anhur wrote"           *)
(* (copy.ts:335): only a session that was killed, or could not write the      *)
(* manifest, leaves a copy that is not listed.                                *)
CopiesAreListed ==
    (\A p \in Sessions : ~Publishing(p)) /\ manifest # None =>
        folder \cap Copies \subseteq manifest \cup unrecorded

(* What is published for storage is stored.  The keys a session remembers     *)
(* spare it the calls, never the upload: but for keys that another session    *)
(* deleted, or a batch that failed in part.                                   *)
PublishedAreStored ==
    published.synced => published.assets \subseteq storage \cup lost
=============================================================================
