---------------------------- MODULE OutputWriter ----------------------------
(***************************************************************************)
(* The diff writer of packages/core/src/engine/output-files.ts: it brings  *)
(* an output folder to a plan file by file, keeps a manifest of what it    *)
(* wrote, and remembers between builds what it knows about the folder.     *)
(*                                                                         *)
(* Several sessions (a watcher, a one-off build...) write the same folder, *)
(* one at a time: `writer' is the session that holds the output lock       *)
(* (module OutputLock).  Any session can be killed between two steps, the  *)
(* user can edit or delete generated files at any time, and every step     *)
(* that touches the disk can fail.                                         *)
(*                                                                         *)
(* A text stands for the contents of a file and for its hash.  Folders,    *)
(* temporary files and symbolic links are abstracted: a file moves into    *)
(* place in one step (writeAtomic), or not at all.                         *)
(***************************************************************************)
EXTENDS Naturals, FiniteSets

CONSTANTS
    Sessions,         \* builds that share the folder, each with its memory
    Files,            \* paths below the output folder
    Texts,            \* contents of generated files
    Rank,             \* 0: a module, 1: index.d.ts, 2: index.js
    Imports,          \* the files a text points at
    Size,             \* the size of a text
    Lower,            \* a path in lower case
    Slot,             \* the entry of the file system a path leads to
    LegacyFiles,      \* paths the versions before the manifest could write
    Plans,            \* what a build may want on disk
    UserFiles,        \* bound: the generated files the user edits or deletes
    WriteConcurrency, \* WRITE_CONCURRENCY
    None              \* no manifest, no session, no revision

Unknown == ""         \* the hash of a file whose text is not known
Nothing == "nothing"  \* not planned, or not listed
Absent == "absent"    \* never written, or removed by the writer

\* What the user makes of a generated file: an edit that keeps the size, one
\* that does not, or no file at all.
UserTexts == {"edited", "resized"}
Deleted == "deleted"
NoText == {Absent, Deleted} \cup UserTexts

Listing == [Files -> Texts \cup {Unknown, Nothing}]
Empty == [f \in Files |-> Nothing]
Planned(listing) == {f \in Files : listing[f] # Nothing}

ASSUME Markers ==
    /\ Texts \cap (NoText \cup {Unknown, Nothing}) = {}
    /\ None \notin Sessions \cup Listing

ASSUME PlansAreComplete ==
    /\ Plans \subseteq [Files -> Texts \cup {Nothing}]
    /\ \A p \in Plans : \E f \in Planned(p) : Rank[f] = 2
    /\ \A p \in Plans, f \in Files : Rank[f] > 0 => f \in Planned(p)

ASSUME FileFacts ==
    /\ Rank \in [Files -> 0..2]
    /\ Imports \in [Texts -> SUBSET Files]
    /\ Size \in [Texts -> Nat]
    /\ LegacyFiles \subseteq Files
    /\ UserFiles \subseteq Files
    /\ DOMAIN Lower = Files /\ DOMAIN Slot = Files
    /\ \A f, g \in Files : Slot[f] = Slot[g] => Lower[f] = Lower[g]

\* An index points only at files of its own plan that are written before it.
ASSUME IndexesAreClosed ==
    \A p \in Plans : \A f \in Planned(p) : \A g \in Imports[p[f]] :
        g \in Planned(p) /\ Rank[g] < Rank[f]

VARIABLES
    disk,      \* what each path holds
    manifest,  \* the manifest on disk, or None
    mem,       \* OutputState of every session
    writer,    \* the session that writes now, or None
    pc,        \* where its call of writeOutputFiles is
    plan,      \* the files it was given
    pending,   \* files it still has to write
    stale,     \* listed files it still has to remove
    recorded,  \* what the manifest is going to say
    stopped,   \* the signal was aborted, or a file could not be written
    touched    \* a folder entry changed since the call began

job == <<writer, pc, plan, pending, stale, recorded, stopped>>
vars == <<disk, manifest, mem, job, touched>>

----------------------------------------------------------------------------
(* What a session remembers (OutputState): `known' stands for a manifest   *)
(* signature that is still the one on disk, `folders' for what folderState *)
(* would answer now.                                                       *)

NewState ==
    [manifest |-> None, known |-> FALSE, verified |-> FALSE,
     folders |-> "changed", revision |-> None]

States ==
    [manifest : Listing \cup {None}, known : BOOLEAN, verified : BOOLEAN,
     folders : {"same", "recent", "changed"}, revision : Plans \cup {None}]

\* The state of session s once currentManifest looked at the manifest.
CurrentTrustingMemory(s) ==
    IF manifest = None
    THEN [mem[s] EXCEPT !.manifest = None, !.known = FALSE]
    ELSE IF mem[s].manifest # None
    THEN [mem[s] EXCEPT !.known = TRUE]
    ELSE [mem[s] EXCEPT !.manifest = manifest, !.known = TRUE,
                        !.verified = FALSE]

Current(s) ==
    IF manifest = None
    THEN [mem[s] EXCEPT !.manifest = None, !.known = FALSE]
    ELSE IF mem[s].known
    THEN mem[s]
    ELSE [mem[s] EXCEPT !.manifest = manifest, !.known = TRUE,
                        !.verified = FALSE]

\* An entry of the folder came or went.  A session that looked at the folder
\* only a moment before may find the same mtime again.
Touch(hidden) ==
    [s \in Sessions |->
        [mem[s] EXCEPT !.folders =
            IF @ = "recent" /\ s \in hidden THEN "recent" ELSE "changed"]]

Present(f) == disk[f] \notin {Absent, Deleted}

\* What a path reads as: two paths can lead to one entry of the file system.
TextAt(f) ==
    LET here == {g \in Files : Slot[g] = Slot[f] /\ Present(g)}
    IN  IF here = {} THEN Absent ELSE disk[CHOOSE g \in here : TRUE]

\* A folder without a manifest that an older version wrote.
Adoptable ==
    /\ \E f \in Files : Rank[f] = 2 /\ Present(f)
    /\ \A f \in Files : Present(f) => f \in LegacyFiles

AdoptLegacy ==
    [f \in Files |-> IF Adoptable /\ Present(f) THEN Unknown ELSE Nothing]

----------------------------------------------------------------------------
(* A build begins to write.                                                *)

UpToDateByRevision(s, p) ==
    /\ manifest # None
    /\ Current(s).verified
    /\ Current(s).revision = p

\* The plan written last, and nothing touched the folder since.
UpToDate(s, p) ==
    /\ manifest # None
    /\ Current(s).verified
    /\ Current(s).folders = "same"
    /\ Current(s).revision = p

\* A listed file is still on disk as it was written, as far as the writer
\* looks: contents on the first look of a session, sizes when an entry came or
\* went, names when the folders changed only a moment before they were read.
Intact(f, text, firstLook, look) ==
    \/ look = "same"
    \/ look = "recent" /\ Present(f)
    \/ /\ look = "changed"
       /\ TextAt(f) \in Texts \cup {"edited"}
       /\ TextAt(f) \in Texts => Size[TextAt(f)] = Size[text]
       /\ firstLook => TextAt(f) = text

RecordAsBefore(previous, todo) == previous

\* The text of a file about to be written is unknown until it is in place.
RecordAtStart(previous, todo) ==
    [f \in Files |-> IF f \in todo THEN Unknown ELSE previous[f]]

StaleWithKept(previous, p) == Planned(previous)
StaleFiles(previous, p) == Planned(previous) \ Planned(p)

FastExit(s, p) ==
    /\ writer = None
    /\ UpToDate(s, p)
    /\ UNCHANGED vars

BeginWrite(s, p) ==
    LET state == Current(s)
        firstLook == ~state.verified
        look == IF firstLook THEN "changed" ELSE state.folders
        previous == IF state.manifest # None THEN state.manifest
                                             ELSE AdoptLegacy
        todo == {f \in Planned(p) : \/ previous[f] # p[f]
                                    \/ ~Intact(f, p[f], firstLook, look)}
    IN  /\ writer = None
        /\ writer' = s
        /\ plan' = p
        /\ pending' = todo
        /\ stale' = StaleFiles(previous, p)
        /\ recorded' = RecordAtStart(previous, todo)
        /\ mem' = [mem EXCEPT ![s] = [state EXCEPT !.revision = None]]
        /\ pc' = IF todo = {} THEN "write" ELSE "list"
        /\ stopped' = FALSE
        /\ touched' = FALSE
        /\ UNCHANGED <<disk, manifest>>

\* A path that is not safe, or a symbolic link that leads out of the folder.
RefuseWrite(s) ==
    /\ writer = None
    /\ mem' = [mem EXCEPT ![s] = [Current(s) EXCEPT !.revision = None]]
    /\ UNCHANGED <<disk, manifest, job, touched>>

\* OutputWriter.checkOwnership reads the manifest before it has the lock.
CheckOwnership(s) ==
    /\ writer # s
    /\ mem' = [mem EXCEPT ![s] = Current(s)]
    /\ UNCHANGED <<disk, manifest, job, touched>>

----------------------------------------------------------------------------
(* The steps of a write.                                                   *)

EndCall ==
    /\ writer' = None
    /\ pc' = "idle"
    /\ plan' = Empty
    /\ recorded' = Empty
    /\ pending' = {}
    /\ stale' = {}
    /\ stopped' = FALSE
    /\ touched' = FALSE

\* saveManifest: the sessions after it, given that of the writer.
ManifestIsSaved == mem[writer].manifest = recorded

Saved(own) ==
    [s \in Sessions |->
        IF s = writer
        THEN [own EXCEPT !.manifest = recorded, !.known = TRUE]
        ELSE IF ManifestIsSaved THEN mem[s]
        ELSE [mem[s] EXCEPT !.known = FALSE]]

\* The manifest lists every file about to be written, before it is written.
ListPending ==
    /\ pc = "list"
    /\ manifest' = recorded
    /\ mem' = Saved(mem[writer])
    /\ pc' = "write"
    /\ touched' = (touched \/ ~ManifestIsSaved)
    /\ UNCHANGED <<disk, writer, plan, pending, stale, recorded, stopped>>

\* Nothing was written yet, and no second attempt is made.
ListPendingFails ==
    /\ pc = "list"
    /\ ~ManifestIsSaved
    /\ EndCall
    /\ UNCHANGED <<disk, manifest, mem>>

\* Stale files with a case-only rename in the plan are removed first.
Renamed ==
    {f \in stale : \E g \in Planned(plan) : Lower[g] = Lower[f]}

StartableInAnyOrder == IF Renamed = {} THEN pending ELSE {}

\* Files the writer can have in work: modules side by side, then index.d.ts,
\* then index.js.
Startable ==
    IF Renamed = {}
    THEN {f \in pending : \A g \in pending : Rank[f] <= Rank[g]}
    ELSE {}

WriteFile(f) ==
    /\ pc = "write"
    /\ f \in Startable
    /\ disk' = [g \in Files |->
                    IF g = f THEN plan[f]
                    ELSE IF Slot[g] = Slot[f] /\ Present(g) THEN Absent
                    ELSE disk[g]]
    /\ recorded' = [recorded EXCEPT ![f] = plan[f]]
    /\ pending' = pending \ {f}
    /\ touched' = TRUE
    /\ \E hidden \in SUBSET Sessions : mem' = Touch(hidden)
    /\ UNCHANGED <<manifest, writer, pc, plan, stale, stopped>>

\* The signal is aborted, or a step fails: the files in work are finished (or
\* fail too), no other file is started.
Stop ==
    /\ pc = "write"
    /\ ~stopped
    /\ stopped' = TRUE
    /\ \E inWork \in SUBSET Startable :
        /\ Cardinality(inWork) <= WriteConcurrency
        /\ pending' = inWork
    /\ UNCHANGED <<disk, manifest, mem, touched, writer, pc, plan, stale,
                   recorded>>

ForgetRemoved(f) == [recorded EXCEPT ![f] = Nothing]

\* A file that could not be removed stays listed, so a later build tries again.
RecordNotRemoved(f) == [recorded EXCEPT ![f] = Unknown]

RemoveStale(f) ==
    /\ \/ pc = "write" /\ f \in Renamed
       \/ pc = "sweep" /\ f \in stale
    /\ disk' = [g \in Files |->
                    IF Slot[g] = Slot[f] /\ Present(g) THEN Absent
                    ELSE disk[g]]
    /\ recorded' = [recorded EXCEPT ![f] = Nothing]
    /\ stale' = stale \ {f}
    /\ touched' = TRUE
    /\ \E hidden \in SUBSET Sessions : mem' = Touch(hidden)
    /\ UNCHANGED <<manifest, writer, pc, plan, pending, stopped>>

RemoveStaleFails(f) ==
    /\ \/ pc = "write" /\ f \in Renamed
       \/ pc = "sweep" /\ f \in stale
    /\ recorded' = RecordNotRemoved(f)
    /\ stale' = stale \ {f}
    /\ UNCHANGED <<disk, manifest, mem, touched, writer, pc, plan, pending,
                   stopped>>

EndWrites ==
    /\ pc = "write"
    /\ pending = {}
    /\ Renamed = {}
    /\ pc' = IF stopped THEN "rescue" ELSE "sweep"
    /\ UNCHANGED <<disk, manifest, mem, touched, writer, plan, pending, stale,
                   recorded, stopped>>

\* The last save, then one look at the folders for the next build.  What
\* changed during this call changed too late to be seen by its mtime.
Finish ==
    /\ pc = "sweep"
    /\ stale = {}
    /\ manifest' = recorded
    /\ \E look \in IF touched \/ ~ManifestIsSaved THEN {"recent"}
                                                  ELSE {"same", "recent"} :
        mem' = Saved([mem[writer] EXCEPT !.folders = look, !.verified = TRUE,
                                         !.revision = plan])
    /\ EndCall
    /\ UNCHANGED disk

FinishFails ==
    /\ pc = "sweep"
    /\ stale = {}
    /\ ~ManifestIsSaved
    /\ pc' = "rescue"
    /\ UNCHANGED <<disk, manifest, mem, touched, writer, plan, pending, stale,
                   recorded, stopped>>

\* The call fails, but the manifest says which files were written.
Rescue ==
    /\ pc = "rescue"
    /\ manifest' = recorded
    /\ mem' = Saved(mem[writer])
    /\ EndCall
    /\ UNCHANGED disk

RescueFails ==
    /\ pc = "rescue"
    /\ ~ManifestIsSaved
    /\ EndCall
    /\ UNCHANGED <<disk, manifest, mem>>

----------------------------------------------------------------------------
(* What happens around the writer.                                         *)

\* The process of s dies; another build finds its lock stale.
Crash(s) ==
    /\ mem' = [mem EXCEPT ![s] = NewState]
    /\ IF writer = s THEN EndCall ELSE UNCHANGED <<job, touched>>
    /\ UNCHANGED <<disk, manifest>>

UserEdits(f) ==
    /\ manifest # None
    /\ disk[f] \in Texts
    /\ \E text \in UserTexts : disk' = [disk EXCEPT ![f] = text]
    /\ UNCHANGED <<manifest, mem, job, touched>>

UserDeletes(f) ==
    /\ manifest # None
    /\ Present(f)
    /\ disk' = [disk EXCEPT ![f] = Deleted]
    /\ touched' = (writer # None)
    /\ \E hidden \in SUBSET Sessions : mem' = Touch(hidden)
    /\ UNCHANGED <<manifest, job>>

\* Removing the whole output folder between two builds.
UserDeletesFolder ==
    /\ manifest # None
    /\ writer = None
    /\ disk' = [f \in Files |-> Absent]
    /\ manifest' = None
    /\ mem' = [s \in Sessions |->
                  [mem[s] EXCEPT !.known = FALSE, !.folders = "changed"]]
    /\ UNCHANGED <<job, touched>>

----------------------------------------------------------------------------

\* The folder is empty, or an older version wrote it and kept no manifest.
LegacyDisks ==
    {[f \in Files |-> IF p[f] = Nothing THEN Absent ELSE p[f]] :
        p \in {q \in Plans : Planned(q) \subseteq LegacyFiles}}

Init ==
    /\ disk \in LegacyDisks \cup {[f \in Files |-> Absent]}
    /\ manifest = None
    /\ mem = [s \in Sessions |-> NewState]
    /\ writer = None
    /\ pc = "idle"
    /\ plan = Empty
    /\ pending = {}
    /\ stale = {}
    /\ recorded = Empty
    /\ stopped = FALSE
    /\ touched = FALSE

SaveSteps ==
    \/ ListPending \/ ListPendingFails
    \/ Finish \/ FinishFails
    \/ Rescue \/ RescueFails

Next ==
    \/ \E s \in Sessions : \/ \E p \in Plans : BeginWrite(s, p) \/ FastExit(s, p)
                           \/ RefuseWrite(s)
                           \/ CheckOwnership(s)
                           \/ Crash(s)
    \/ SaveSteps
    \/ Stop \/ EndWrites
    \/ \E f \in Files : WriteFile(f) \/ RemoveStale(f) \/ RemoveStaleFails(f)
    \/ \E f \in UserFiles : UserEdits(f) \/ UserDeletes(f)
    \/ UserDeletesFolder

Spec == Init /\ [][Next]_vars

----------------------------------------------------------------------------
(* Properties.                                                             *)

\* Every variable has its type; the local variables of a call are at rest
\* between two calls, and no file is both wanted and unwanted.
TypeOK ==
    /\ disk \in [Files -> Texts \cup NoText]
    /\ manifest \in Listing \cup {None}
    /\ mem \in [Sessions -> States]
    /\ writer \in Sessions \cup {None}
    /\ pc \in {"idle", "list", "write", "sweep", "rescue"}
    /\ plan \in IF pc = "idle" THEN {Empty} ELSE Plans
    /\ pending \in SUBSET Planned(plan)
    /\ stale \in SUBSET (Files \ Planned(plan))
    /\ recorded \in Listing
    /\ stopped \in BOOLEAN
    /\ touched \in BOOLEAN
    /\ (writer = None) <=> (pc = "idle")

\* "has the hash of a file only while the file on disk has that text"
\* (output-files.ts:329): whatever was killed or failed, no file with another
\* generated text is ever listed with a hash, so no later build can take it
\* for current.
ManifestTruthful ==
    manifest # None =>
        \A f \in Files :
            manifest[f] \in Texts => disk[f] \in NoText \cup {manifest[f]}

\* "and none it would not clean up" (output-files.ts:333): every file a build
\* put on disk is listed in the manifest, or is in a folder of an older
\* version that the next build adopts.
NothingOrphaned ==
    \A f \in Files : Present(f) =>
        IF manifest = None THEN Adoptable ELSE manifest[f] # Nothing

\* "`index.d.ts` and `index.js` go last, after the modules they point at"
\* (output-files.ts:327): an index on disk never points at a module that the
\* writer has not made yet or has already removed.  Two exceptions: a module
\* the user deleted, and every module that shares its name with another file
\* but for the case: the old one of two such names goes before the new one is
\* written (output-files.ts:552), and a build that ends in between leaves an
\* index that points at neither.
IndexPointsAtFiles ==
    \A f \in Files : disk[f] \in Texts =>
        \A g \in Imports[disk[f]] :
            \/ Present(g)
            \/ disk[g] = Deleted
            \/ \E h \in Files \ {g} : Lower[h] = Lower[g]

OnDiskAsPlanned(files, listed, p) ==
    \A f \in Files :
        IF p[f] # Nothing
        THEN files[f] \in UserTexts \cup {p[f]}
        ELSE files[f] \in {Absent, Deleted} \/ listed[f] = Unknown

\* The early exit (output-files.ts:356) is only taken over a folder that holds
\* the plan: nobody else wrote into it and no file was lost since.
FastExitSafe ==
    \A s \in Sessions : \A p \in Plans :
        writer = None /\ UpToDate(s, p) => OnDiskAsPlanned(disk, manifest, p)

\* A call that succeeds leaves the plan on disk and nothing else, except what
\* the user changed or deleted, and files that could not be removed, which
\* stay listed for the next build.
SuccessMeansOnDisk ==
    [][\A s \in Sessions :
          mem[s].revision = None /\ mem[s].revision' # None =>
              OnDiskAsPlanned(
                  [f \in Files |-> IF disk'[f] = Deleted /\ plan[f] # Nothing
                                    THEN plan[f] ELSE disk'[f]],
                  manifest', plan)]_vars

=============================================================================
