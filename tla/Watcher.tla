------------------------------ MODULE Watcher ------------------------------
(***************************************************************************)
(* The watch session of the CLI (Watcher.run,                              *)
(* packages/core/src/engine/watcher.service.ts): builds, watches the       *)
(* folders the config names, and builds again when a file in them changes. *)
(*                                                                         *)
(* Two fibers share the watched folders: the one that builds and syncs     *)
(* after every build, and the one that syncs early, during the first       *)
(* build.  A folder stands for the files in it.  What the file system      *)
(* tells nobody of an edit: only a folder that is watched has events.      *)
(***************************************************************************)
EXTENDS Naturals

CONSTANTS
    Folders,
    Conf,       \* the folder of the config file
    Names,      \* the content folders that a version of the config names
    MaxEdits,   \* bound: edits in every folder
    MaxDeletes, \* bound: content folders deleted
    Nothing

Fibers == {"build", "early"}
Versions == [Folders -> Nat]

ASSUME WatchInputs ==
    /\ Conf \in Folders
    /\ MaxEdits \in Versions
    /\ MaxDeletes \in Nat
    /\ Names \in [0..MaxEdits[Conf] -> SUBSET (Folders \ {Conf})]
    /\ Nothing \notin Fibers

VARIABLES
    disk,     \* the version of every folder's files
    exists,   \* folders that exist
    deletes,
    owed,     \* the version of the latest edit under a watched, wanted folder
    events,   \* folders with an edit the file system has not reported yet
    loaded,   \* folders the engine knows from a config; Nothing before
    built,    \* the version a build last dealt with
    targets, active, watching, \* targets, active and the running watchers
    changes,  \* the queue is not empty
    permit,   \* the fiber that syncs
    at,
    todo, now \* keys a sync still has to look at, and those it found running

disks == <<disk, exists, deletes, owed>>
engine == <<loaded, built>>
syncs == <<targets, active, permit, todo, now>>
watchVars == <<disks, events, engine, syncs, watching, changes, at>>

StepTo(p, label) == at' = [at EXCEPT ![p] = label]

----------------------------------------------------------------------------
(* The user and the file system.                                           *)

Touch(f) ==
    /\ disk' = [disk EXCEPT ![f] = @ + 1]
    /\ IF f \in watching
       THEN events' = events \cup {f} ELSE UNCHANGED events
    /\ owed' = [owed EXCEPT ![f] =
                   IF f \in watching \cap targets THEN disk[f] + 1 ELSE @]

Edit(f) ==
    /\ f \in exists
    /\ disk[f] < MaxEdits[f]
    /\ Touch(f)
    /\ UNCHANGED <<exists, deletes, engine, syncs, watching, changes, at>>

\* Its files are reported as gone, then the watcher of the folder ends.
DeleteFolder(f) ==
    /\ f \in exists \ {Conf}
    /\ disk[f] < MaxEdits[f]
    /\ deletes < MaxDeletes
    /\ deletes' = deletes + 1
    /\ Touch(f)
    /\ exists' = exists \ {f}
    /\ watching' = watching \ {f}
    /\ UNCHANGED <<engine, syncs, changes, at>>

\* Nobody watches the folder it is made in.
MakeFolder(f) ==
    /\ f \in Folders \ exists
    /\ exists' = exists \cup {f}
    /\ UNCHANGED <<disk, deletes, owed, events, engine, syncs, watching,
                   changes, at>>

\* watchFolder: a relevant change goes into the queue.
FileEvent(f) ==
    /\ f \in events
    /\ events' = events \ {f}
    /\ changes' = (changes \/ f \in targets)
    /\ UNCHANGED <<disks, engine, syncs, watching, at>>

----------------------------------------------------------------------------
(* Builds.                                                                 *)

ConfigLoads ==
    /\ at["build"] = "build"
    /\ loaded' = Names[disk[Conf]] \cup {Conf}
    /\ built' = [built EXCEPT ![Conf] = disk[Conf]]
    /\ StepTo("build", "content")
    /\ UNCHANGED <<disks, events, syncs, watching, changes>>

\* Whatever was edited has to wait for the config.
ConfigFails ==
    /\ at["build"] = "build"
    /\ built' = disk
    /\ StepTo("build", "sync")
    /\ UNCHANGED <<disks, events, loaded, syncs, watching, changes>>

ContentIsRead ==
    /\ at["build"] = "content"
    /\ built' = [f \in Folders |-> IF f \in loaded \ {Conf} THEN disk[f]
                                   ELSE built[f]]
    /\ StepTo("build", "publish")
    /\ UNCHANGED <<disks, events, loaded, syncs, watching, changes>>

ForgetWhileBuilding ==
    /\ at["build"] = "publish"
    /\ changes' = FALSE
    /\ StepTo("build", "sync")
    /\ UNCHANGED <<disks, events, engine, syncs, watching>>

\* The build is over, whatever became of it, and was reported.
BuildEnds ==
    /\ at["build"] = "publish"
    /\ StepTo("build", "sync")
    /\ UNCHANGED <<disks, events, engine, syncs, watching, changes>>

\* What piled up in the queue makes one rebuild (debounce).
Rebuild ==
    /\ at["build"] = "wait"
    /\ changes
    /\ changes' = FALSE
    /\ StepTo("build", "build")
    /\ UNCHANGED <<disks, events, engine, syncs, watching>>

----------------------------------------------------------------------------
(* Syncs.                                                                  *)

\* watchEarly waits until the engine knows content folders.
PollEarly ==
    /\ at["early"] = "poll"
    /\ loaded # Nothing
    /\ loaded # {Conf}
    /\ StepTo("early", "sync")
    /\ UNCHANGED <<disks, events, engine, syncs, watching, changes>>

\* engine.watchTargets: the files of the config are found without loading it.
Wanted == IF loaded = Nothing THEN {Conf} ELSE loaded

KeepAsBefore == active \cap Wanted
Kept == active \cap Wanted \cap watching

Unwanted == active \ Wanted

SyncWithoutPermit(p) ==
    /\ at[p] = "sync"
    /\ permit' = p
    /\ targets' = Wanted
    /\ watching' = watching \ Unwanted
    /\ events' = events \ Unwanted
    /\ now' = Kept
    /\ todo' = Wanted \ Kept
    /\ StepTo(p, "keys")
    /\ UNCHANGED <<disks, engine, active, changes>>

SyncBegins(p) ==
    /\ at[p] = "sync"
    /\ permit = Nothing
    /\ permit' = p
    /\ targets' = Wanted
    /\ watching' = watching \ Unwanted
    /\ events' = events \ Unwanted
    /\ now' = Kept
    /\ todo' = Wanted \ Kept
    /\ StepTo(p, "keys")
    /\ UNCHANGED <<disks, engine, active, changes>>

SyncFolder(p, f) ==
    /\ at[p] = "keys"
    /\ f \in todo
    /\ todo' = todo \ {f}
    /\ IF f \in exists
       THEN now' = now \cup {f} /\ watching' = watching \cup {f}
       ELSE UNCHANGED <<now, watching>>
    /\ UNCHANGED <<disks, events, engine, targets, active, permit, changes, at>>

\* When the first build is over watchEarly is interrupted, wherever it is.
SyncEnds(p) ==
    /\ at[p] = "keys"
    /\ todo = {}
    /\ active' = now
    /\ now' = {}
    /\ permit' = Nothing
    /\ at' = IF p = "build" THEN [at EXCEPT !["build"] = "wait", !["early"] = "off"]
             ELSE [at EXCEPT !["early"] = "off"]
    /\ UNCHANGED <<disks, events, engine, targets, todo, watching, changes>>

----------------------------------------------------------------------------

\* With `immediate: false' the first build is left out.
WatchInit ==
    /\ disk = [f \in Folders |-> 0]
    /\ exists = Folders
    /\ deletes = 0
    /\ owed = disk
    /\ events = {}
    /\ loaded = Nothing
    /\ built = disk
    /\ targets = {} /\ active = {} /\ watching = {}
    /\ changes = FALSE
    /\ permit = Nothing
    /\ todo = {} /\ now = {}
    /\ \/ at = [p \in Fibers |-> IF p = "build" THEN "build" ELSE "poll"]
       \/ at = [p \in Fibers |-> IF p = "build" THEN "sync" ELSE "off"]

Builds == ConfigLoads \/ ConfigFails \/ ContentIsRead \/ BuildEnds \/ Rebuild
Syncs(p) == SyncBegins(p) \/ SyncEnds(p) \/ \E f \in Folders : SyncFolder(p, f)

WatchNext ==
    \/ \E f \in Folders : \/ Edit(f) \/ DeleteFolder(f) \/ MakeFolder(f)
                          \/ FileEvent(f)
    \/ Builds
    \/ PollEarly
    \/ \E p \in Fibers : Syncs(p)

\* Builds and syncs go on and the file system reports what it saw.
WatchFairness ==
    /\ \A f \in Folders : WF_watchVars(FileEvent(f))
    /\ WF_watchVars(Builds)
    /\ WF_watchVars(PollEarly)
    /\ \A p \in Fibers : SF_watchVars(SyncBegins(p)) /\ WF_watchVars(Syncs(p))

WatchSpec == WatchInit /\ [][WatchNext]_watchVars /\ WatchFairness

----------------------------------------------------------------------------
(* Properties.                                                             *)

\* Types; the folders are synced by one fiber at a time, and watchEarly does
\* not outlive the first build.
WatchTypeOK ==
    /\ disk \in Versions /\ owed \in Versions /\ built \in Versions
    /\ exists \subseteq Folders /\ events \subseteq Folders
    /\ deletes \in 0..MaxDeletes
    /\ loaded = Nothing \/ loaded \subseteq Folders
    /\ targets \subseteq Folders /\ active \subseteq Folders
    /\ watching \subseteq Folders
    /\ changes \in BOOLEAN
    /\ permit \in Fibers \cup {Nothing}
    /\ at \in [Fibers -> {"build", "content", "publish", "sync", "keys", "wait",
                          "poll", "off"}]
    /\ todo \subseteq Folders /\ now \subseteq Folders
    /\ \A p \in Fibers : at[p] = "keys" <=> permit = p
    /\ at["build"] = "wait" => at["early"] = "off"

\* What WatchedEditsAreBuilt rests on.  An edit that was seen and is not built
\* yet is reported, queued, or in what the running build still has to read: no
\* build, sync or event drops it.  And a session that waits judges events by the
\* folders the engine names, and watches no other.
EditsAreAccountedFor ==
    /\ \A f \in Wanted : owed[f] > built[f] =>
           \/ changes
           \/ f \in events \cap targets
           \/ at["build"] = "build"
           \/ at["build"] = "content" /\ f # Conf
    /\ at["build"] = "wait" => targets = Wanted /\ watching \subseteq Wanted

\* An edit under a watched folder is built, also when it comes during a build,
\* a sync or the debounce delay, unless the config no longer names the folder.
WatchedEditsAreBuilt ==
    \A f \in Folders : \A v \in 1..MaxEdits[f] :
        owed[f] >= v ~> built[f] >= v \/ f \notin Wanted

\* "A watcher whose folder was deleted has ended; start it again below"
\* (watcher.service.ts:190): the sync after a build watches every content
\* folder that is there, also one that was deleted and made again.
FoldersAreWatchedAgain ==
    \A f \in Folders :
        at["build"] = "sync" /\ f \in Wanted /\ f \in exists
        ~> f \in watching \/ f \notin exists \/ f \notin Wanted

=============================================================================
