--------------------------- MODULE ViteDevServer ---------------------------
(***************************************************************************)
(* One dev server of the Vite plugin (configureServer and hotUpdate,       *)
(* packages/vite/src/index.ts): file events are debounced into rebuilds,   *)
(* one rebuild loop picks up what changes while it builds, and Vite's hot  *)
(* updates wait for the promise `settled' before the browser hears of a    *)
(* change.                                                                 *)
(*                                                                         *)
(* JavaScript runs one callback at a time, so a step is what runs between  *)
(* two awaits that let timers and events in.  The await of `watchTargets'  *)
(* is one only while no config was ever loaded: then it reads the disk.    *)
(***************************************************************************)
EXTENDS Naturals

CONSTANTS
    Content,  \* content files, inside the folder that Vite watches
    Config,   \* the config file
    Named,    \* the content files in the folders that a version of the config names
    Loops,    \* bound: overlapping calls of `rebuild'
    First,    \* the build of configureServer
    MaxEdits, \* bound: edits of every file
    None

Files == Content \cup {Config}
Runs == Loops \cup {First}

ASSUME Inputs ==
    /\ MaxEdits \in [Files -> Nat]
    /\ Named \in [0..MaxEdits[Config] -> SUBSET Content]
    /\ First \notin Loops
    /\ None \notin Runs
    /\ Config \notin Content

ASSUME NoneIsNone == \A s \in SUBSET Files : s # None

VARIABLES
    disk,      \* the version of every file on disk
    events,    \* files whose latest edit the file watcher has not reported
    watch,     \* the engine's watch targets; None before a config was loaded
    engine,    \* the run that holds the engine's build permit
    pc,        \* where a run is
    snap,      \* the versions the running build read
    attempted, \* the latest version of a file that a build has dealt with
    healthy,   \* the config is not broken when the server starts
    server,    \* DevServerState without its promise and its error
    open,      \* `settled' is not resolved
    taken,     \* the latest version whose event the server took up
    notified,  \* files Vite has yet to call hotUpdate for
    hot        \* files whose hotUpdate waits for `settled'

vars == <<disk, events, watch, engine, pc, snap, attempted, healthy,
          server, open, taken, notified, hot>>

Versions == {v \in [Files -> Nat] : \A f \in Files : v[f] <= MaxEdits[f]}
Nothing == [f \in Files |-> 0]

DevServerState ==
    [disposed : BOOLEAN, ready : BOOLEAN, early : SUBSET Files,
     timer : BOOLEAN, building : BOOLEAN, pending : BOOLEAN,
     targets : SUBSET Files]

Goto(r, label) == pc' = [pc EXCEPT ![r] = label]

\* The promise `settled' is resolved: every hotUpdate that waits goes on, before
\* any other callback runs.
Settle == open' = FALSE /\ hot' = {}

----------------------------------------------------------------------------
(* The user and the file watcher.                                          *)

Edit(f) ==
    /\ disk[f] < MaxEdits[f]
    /\ disk' = [disk EXCEPT ![f] = @ + 1]
    /\ events' = events \cup {f}
    /\ UNCHANGED <<watch, engine, pc, snap, attempted, healthy, server, open,
                   taken, notified, hot>>

TakeUp(f) == taken' = [taken EXCEPT ![f] = disk[f]]

\* onFileEvent; `schedule' opens `settled' and starts the timer anew.  An event
\* of a file that is no target is dropped.
OnFileEvent(f) ==
    /\ f \in events
    /\ events' = events \ {f}
    /\ notified' = notified \cup {f}
    /\ CASE ~server.disposed /\ ~server.ready ->
              /\ server' = [server EXCEPT !.early = @ \cup {f}]
              /\ TakeUp(f)
              /\ UNCHANGED open
         [] ~server.disposed /\ server.ready /\ f \in server.targets ->
              /\ server' = [server EXCEPT !.timer = TRUE]
              /\ TakeUp(f)
              /\ open' = TRUE
         [] OTHER ->
              UNCHANGED <<server, taken, open>>
    /\ UNCHANGED <<disk, watch, engine, pc, snap, attempted, healthy, hot>>

----------------------------------------------------------------------------
(* Rebuilds.                                                               *)

LoopStarts ==
    \E l \in Loops :
        /\ pc[l] = "idle"
        /\ server' = [server EXCEPT !.timer = FALSE, !.building = TRUE,
                                    !.pending = FALSE]
        /\ open' = TRUE
        /\ Goto(l, "build")

ForgetWhileBuilding ==
    /\ server.timer
    /\ IF server.building
       THEN /\ server' = [server EXCEPT !.timer = FALSE]
            /\ UNCHANGED <<open, pc>>
       ELSE LoopStarts
    /\ UNCHANGED <<disk, events, watch, engine, snap, attempted, healthy,
                   taken, notified, hot>>

\* The debounce timer ends and `rebuild' is called.
TimerFires ==
    /\ server.timer
    /\ IF server.building
       THEN /\ server' = [server EXCEPT !.timer = FALSE, !.pending = TRUE]
            /\ UNCHANGED <<open, pc>>
       ELSE LoopStarts
    /\ UNCHANGED <<disk, events, watch, engine, snap, attempted, healthy,
                   taken, notified, hot>>

\* One build at a time in a session.
BuildStarts(r) ==
    /\ pc[r] = "build"
    /\ engine = None
    /\ engine' = r
    /\ Goto(r, "config")
    /\ UNCHANGED <<disk, events, watch, snap, attempted, healthy, server, open,
                   taken, notified, hot>>

\* The engine knows at once what to watch; the server hears of it only when
\* the build is over (SyncWatched).
ConfigLoads(r) ==
    /\ pc[r] = "config"
    /\ r = First => healthy
    /\ snap' = [Nothing EXCEPT ![Config] = disk[Config]]
    /\ watch' = Named[disk[Config]] \cup {Config}
    /\ Goto(r, "content")
    /\ UNCHANGED <<disk, events, engine, attempted, healthy, server, open,
                   taken, notified, hot>>

ContentIsRead(r) ==
    /\ pc[r] = "content"
    /\ snap' = [f \in Files |-> IF f \in watch \ {Config} THEN disk[f] ELSE snap[f]]
    /\ Goto(r, "made")
    /\ UNCHANGED <<disk, events, watch, engine, attempted, healthy, server,
                   open, taken, notified, hot>>

SettleAnyway(r, s) ==
    IF r \in Loops /\ s.pending /\ ~s.disposed
    THEN /\ server' = [s EXCEPT !.pending = FALSE, !.building = TRUE]
         /\ Goto(r, "build")
         /\ UNCHANGED <<open, hot>>
    ELSE /\ Goto(r, "idle")
         /\ server' = [s EXCEPT !.ready = TRUE, !.early = {}]
         /\ Settle

\* The next turn of the loop, or the end of `rebuild' or of configureServer,
\* with the server in state s.
Continue(r, s) ==
    IF r \in Loops /\ s.pending /\ ~s.disposed
    THEN /\ server' = [s EXCEPT !.pending = FALSE, !.building = TRUE]
         /\ Goto(r, "build")
         /\ UNCHANGED <<open, hot>>
    ELSE LET early == r = First /\ ~s.disposed /\ s.early \cap s.targets # {}
         IN /\ Goto(r, "idle")
            /\ server' = [s EXCEPT !.ready = TRUE, !.early = {},
                                   !.timer = @ \/ early]
            /\ IF early THEN open' = TRUE /\ UNCHANGED hot
               ELSE IF s.timer THEN UNCHANGED <<open, hot>>
               ELSE Settle

\* syncWatched, at once when the engine knows its targets.
SyncWatched(r, s) ==
    CASE s.disposed -> Continue(r, s)
      [] ~s.disposed /\ watch # None -> Continue(r, [s EXCEPT !.targets = watch])
      [] OTHER -> server' = s /\ Goto(r, "sync") /\ UNCHANGED <<open, hot>>

\* Without a config, the files to watch are searched on disk.
FallbackFound(r) ==
    /\ pc[r] = "sync"
    /\ Continue(r, [server EXCEPT !.targets = {Config}])
    /\ UNCHANGED <<disk, events, watch, engine, snap, attempted, healthy,
                   taken, notified>>

\* The error is reported or cleared, and the build counts as over.
Report(r) ==
    SyncWatched(r, [server EXCEPT !.building = IF r = First THEN @ ELSE FALSE])

Later(u, v) == [f \in Files |-> IF u[f] > v[f] THEN u[f] ELSE v[f]]

\* Whatever was edited before a broken config is read has to wait for the
\* config.
ConfigFails(r) ==
    /\ pc[r] = "config"
    /\ ~(r = First /\ healthy)
    /\ engine' = None
    /\ attempted' = disk
    /\ Report(r)
    /\ UNCHANGED <<disk, events, watch, snap, healthy, taken, notified>>

BuildEnds ==
    /\ engine' = None
    /\ attempted' = Later(snap, attempted)
    /\ snap' = Nothing

\* It fails, or no output file changed, or no server environment runs yet.
NothingToRefresh(r) ==
    /\ pc[r] = "made"
    /\ BuildEnds
    /\ Report(r)
    /\ UNCHANGED <<disk, events, watch, healthy, taken, notified>>

\* The environments drop the changed files, which takes its time.
FilesChanged(r) ==
    /\ pc[r] = "made"
    /\ r \in Loops
    /\ BuildEnds
    /\ Goto(r, "refresh")
    /\ UNCHANGED <<disk, events, watch, healthy, server, open, taken, notified,
                   hot>>

\* Also when reloading an environment fails.
Refreshed(r) ==
    /\ pc[r] = "refresh"
    /\ Report(r)
    /\ UNCHANGED <<disk, events, watch, engine, snap, attempted, healthy, taken,
                   notified>>

----------------------------------------------------------------------------
(* Hot updates and the end of the server.                                  *)

\* hotUpdate is called for every file event, some time after onFileEvent, and
\* goes on at once for a file that is no target and when `settled' is resolved.
HotUpdate(f) ==
    /\ f \in notified
    /\ notified' = notified \ {f}
    /\ hot' = IF f \in server.targets /\ open THEN hot \cup {f} ELSE hot
    /\ UNCHANGED <<disk, events, watch, engine, pc, snap, attempted, healthy,
                   server, open, taken>>

ReleaseWithoutSettling ==
    /\ ~server.disposed
    /\ server' = [server EXCEPT !.disposed = TRUE, !.timer = FALSE]
    /\ UNCHANGED <<disk, events, watch, engine, pc, snap, attempted, healthy,
                   taken, notified, open, hot>>

Release ==
    /\ ~server.disposed
    /\ server' = [server EXCEPT !.disposed = TRUE, !.timer = FALSE]
    /\ Settle
    /\ UNCHANGED <<disk, events, watch, engine, pc, snap, attempted, healthy,
                   taken, notified>>

----------------------------------------------------------------------------

Init ==
    /\ disk = Nothing
    /\ events = {}
    /\ watch = None
    /\ engine = None
    /\ pc = [r \in Runs |-> IF r = First THEN "build" ELSE "idle"]
    /\ snap = Nothing
    /\ attempted = Nothing
    /\ healthy \in BOOLEAN
    /\ server = [disposed |-> FALSE, ready |-> FALSE, early |-> {},
                 timer |-> FALSE, building |-> FALSE, pending |-> FALSE,
                 targets |-> {}]
    /\ open = TRUE
    /\ taken = Nothing
    /\ notified = {}
    /\ hot = {}

Build(r) ==
    \/ BuildStarts(r) \/ ConfigLoads(r) \/ ConfigFails(r)
    \/ ContentIsRead(r) \/ NothingToRefresh(r) \/ FilesChanged(r)
    \/ Refreshed(r) \/ FallbackFound(r)

Next ==
    \/ \E f \in Files : Edit(f) \/ OnFileEvent(f) \/ HotUpdate(f)
    \/ \E r \in Runs : Build(r)
    \/ TimerFires
    \/ Release

\* Timers fire, the file watcher reports what it saw, Vite calls its plugins,
\* and a build ends (validation and writing have timeouts).
Fairness ==
    /\ \A f \in Files : WF_vars(OnFileEvent(f)) /\ WF_vars(HotUpdate(f))
    /\ \A r \in Runs : WF_vars(Build(r))
    /\ WF_vars(TimerFires)

Spec == Init /\ [][Next]_vars /\ Fairness

----------------------------------------------------------------------------
(* Properties.                                                             *)

\* Types; a released server has no timer, and only a ready server rebuilds.
TypeOK ==
    /\ disk \in Versions /\ attempted \in Versions /\ taken \in Versions
    /\ events \subseteq Files /\ notified \subseteq Files /\ hot \subseteq Files
    /\ watch = None \/ watch \subseteq Files
    /\ engine \in Runs \cup {None}
    /\ pc \in [Runs -> {"idle", "build", "config", "content", "made", "refresh",
                     "sync"}]
    /\ snap \in Versions
    /\ healthy \in BOOLEAN
    /\ server \in DevServerState
    /\ open \in BOOLEAN
    /\ server.timer => server.ready /\ ~server.disposed

\* "Settles when the build that picks up the latest content change is done and
\* every environment dropped the old output" (index.ts:156-160): while
\* `settled', which hot updates wait for, is resolved, a build that began after
\* the latest change the server took up has ended, for every target.  After a
\* start with a broken config two calls of `rebuild' can overlap, and the one
\* that ends first resolves it for both: then it holds once both have ended.
SettledMeansBuilt ==
    ~open /\ ~server.disposed /\ (healthy \/ \A l \in Loops : pc[l] = "idle")
    => \A f \in server.targets : attempted[f] >= taken[f]

Listens(f) == ~server.ready \/ f \in server.targets

\* An edit of a target, or of any file before the server is ready, is never
\* forgotten, whether it comes during the first build, the debounce delay, a
\* build, or after a failed one: once the user leaves the file alone, a build
\* deals with its last version, unless the server is released or the file is no
\* target any more.
EditsAreBuilt ==
    \A f \in Files :
        f \in events /\ Listens(f)
        ~> \/ f \notin events /\ attempted[f] >= taken[f]
           \/ server.disposed \/ ~Listens(f)

\* A page request or a browser update never hangs on `settled'.
HotUpdatesReturn == hot # {} ~> hot = {}

=============================================================================
