------------------------- MODULE ViteDevServerProofs -------------------------
(***************************************************************************)
(* What the dev server promises for every number of files, edits, versions *)
(* of the config and overlapping rebuilds: while `settled' is resolved, a  *)
(* build has dealt with every edit that the server took up.                *)
(***************************************************************************)
EXTENDS ViteDevServer, TLAPS

Labels == {"idle", "build", "config", "content", "made", "refresh", "sync"}
AtWork == {"build", "config", "content", "made", "refresh"}

\* Only the build that holds the permit reads.
Permit == \A r \in Runs : pc[r] \in {"config", "content", "made"} => engine = r

\* Nobody knows of an edit that was not made.
NothingIsToCome ==
    \A f \in Files : /\ attempted[f] <= disk[f] /\ snap[f] <= disk[f]
                     /\ taken[f] <= disk[f]

\* During the first build edits are remembered and nothing else happens.
Starting ==
    ~server.ready =>
        /\ pc[First] # "idle"
        /\ pc[First] \in {"content", "made"} => watch # None
        /\ pc[First] # "refresh"
        /\ pc[First] = "sync" => watch = None /\ ~healthy
        /\ \A l \in Loops : pc[l] = "idle"
        /\ ~server.timer /\ ~server.building /\ ~server.pending
        /\ server.targets = {}
        /\ ~server.disposed => \A f \in Files : taken[f] > 0 => f \in server.early

\* After it, whatever was put off has a loop that takes it up, and `settled' is
\* open while a timer runs.
Running ==
    server.ready =>
        /\ pc[First] = "idle"
        /\ \A l \in Loops : pc[l] \in {"content", "made", "refresh"} => watch # None
        /\ server.building => \E l \in Loops : pc[l] \in AtWork
        /\ server.pending /\ ~server.disposed => \E l \in Loops : pc[l] # "idle"
        /\ server.timer => open

\* With a config from the start, one loop rebuilds at a time.
OneAtATime ==
    healthy /\ server.ready /\ ~server.disposed =>
        /\ watch # None
        /\ \A l \in Loops : pc[l] # "sync"
        /\ \A l, m \in Loops : pc[l] # "idle" /\ pc[m] # "idle" => l = m
        /\ \A l \in Loops : pc[l] # "idle" => server.building
        /\ server.building => open

\* What the server watches now, or will after the next sync.
Watched == server.targets \cup (IF watch = None THEN {} ELSE watch)

\* A build that is under way deals with version v of a file, or stops watching it.
Covers(l, f, v) ==
    \/ pc[l] \in {"build", "config"}
    \/ pc[l] = "content" /\ (f = Config => snap[f] >= v)
    \/ pc[l] = "made" /\ snap[f] >= v
    \/ pc[l] \in {"content", "made", "refresh"} /\ f \notin watch

\* It was dealt with, or is going to be.
Handled(f, v) ==
    \/ attempted[f] >= v
    \/ server.timer \/ server.pending
    \/ \E l \in Loops : Covers(l, f, v)

\* Every edit that was taken up is handled.
Owed ==
    server.ready /\ ~server.disposed =>
        /\ Config \in server.targets
        /\ \A f \in Watched : Handled(f, taken[f])

ConfigIsWatched == watch # None => Config \in watch

Promises == Starting /\ Running /\ OneAtATime /\ Owed
Inv == TypeOK /\ NothingIsToCome /\ Permit /\ ConfigIsWatched /\ Promises

----------------------------------------------------------------------------
(* The end of a run.                                                       *)

\* What a run that ends leaves of the server, which it left in state s.
GoesOn(r, s) ==
    /\ r \in Loops /\ s.pending /\ ~s.disposed
    /\ pc' = [pc EXCEPT ![r] = "build"]
    /\ server'.building /\ ~server'.pending
    /\ server'.timer = s.timer /\ server'.ready = s.ready
    /\ UNCHANGED <<open, hot>>
StopsEarly(r, s) ==
    /\ r = First /\ ~s.disposed
    /\ pc' = [pc EXCEPT ![r] = "idle"]
    /\ server'.ready /\ server'.timer /\ open' = TRUE
    /\ server'.building = s.building /\ server'.pending = s.pending
    /\ UNCHANGED hot
Stops(r, s) ==
    /\ r = First /\ ~s.disposed => s.early \cap s.targets = {}
    /\ r \in Loops => ~s.pending \/ s.disposed
    /\ pc' = [pc EXCEPT ![r] = "idle"]
    /\ server'.ready /\ server'.timer = s.timer
    /\ server'.building = s.building /\ server'.pending = s.pending
    /\ IF s.timer THEN UNCHANGED <<open, hot>> ELSE Settle

LEMMA ContinueOutcome ==
    ASSUME NEW r \in Runs, NEW s \in DevServerState, Continue(r, s)
    PROVE  /\ server' \in DevServerState
           /\ server'.disposed = s.disposed /\ server'.targets = s.targets
           /\ GoesOn(r, s) \/ StopsEarly(r, s) \/ Stops(r, s)
  <1>1. First \notin Loops
    BY Inputs
  <1>2. CASE r \in Loops /\ s.pending /\ ~s.disposed
    <2>1. /\ server' = [s EXCEPT !.pending = FALSE, !.building = TRUE]
          /\ pc' = [pc EXCEPT ![r] = "build"] /\ UNCHANGED <<open, hot>>
      BY <1>2 DEF Continue, Goto
    <2>2. /\ server' \in DevServerState /\ server'.disposed = s.disposed
          /\ server'.targets = s.targets /\ server'.building /\ ~server'.pending
          /\ server'.timer = s.timer /\ server'.ready = s.ready
      BY <2>1 DEF DevServerState
    <2>3. QED
      BY <1>2, <2>1, <2>2 DEF GoesOn
  <1>3. CASE ~(r \in Loops /\ s.pending /\ ~s.disposed)
    <2> DEFINE early == r = First /\ ~s.disposed /\ s.early \cap s.targets # {}
    <2>1. /\ server' = [s EXCEPT !.ready = TRUE, !.early = {}, !.timer = @ \/ early]
          /\ pc' = [pc EXCEPT ![r] = "idle"]
          /\ IF early THEN open' = TRUE /\ UNCHANGED hot
             ELSE IF s.timer THEN UNCHANGED <<open, hot>> ELSE Settle
      BY <1>3 DEF Continue, Goto
    <2>2. early \in BOOLEAN /\ (early <=> r = First /\ ~s.disposed /\ s.early \cap s.targets # {})
      OBVIOUS
    <2> HIDE DEF early
    <2>3. /\ server' \in DevServerState /\ server'.disposed = s.disposed
          /\ server'.targets = s.targets /\ server'.ready
          /\ server'.building = s.building /\ server'.pending = s.pending
          /\ server'.timer = (s.timer \/ early)
      BY <2>1, <2>2 DEF DevServerState
    <2>4. CASE early
      BY <2>1, <2>2, <2>3, <2>4 DEF StopsEarly
    <2>5. CASE ~early
      <3>1. server'.timer = s.timer
        BY <2>3, <2>5 DEF DevServerState
      <3>2. /\ r = First /\ ~s.disposed => s.early \cap s.targets = {}
            /\ r \in Loops => ~s.pending \/ s.disposed
        BY <1>3, <2>2, <2>5
      <3>3. QED
        BY <2>1, <2>3, <2>5, <3>1, <3>2 DEF Stops
    <2>6. QED
      BY <2>4, <2>5
  <1>4. QED
    BY <1>2, <1>3

\* The types that the end of a run can disturb.
StateTyped ==
    /\ pc \in [Runs -> Labels]
    /\ server \in DevServerState
    /\ server.timer => server.ready /\ ~server.disposed
    /\ open \in BOOLEAN
    /\ hot \subseteq Files

LEMMA ContinueTyped ==
    ASSUME TypeOK, NEW r \in Runs, NEW s \in DevServerState,
           s.timer => s.ready /\ ~s.disposed, Continue(r, s)
    PROVE  StateTyped'
  <1>1. /\ server' \in DevServerState
        /\ server'.disposed = s.disposed
        /\ GoesOn(r, s) \/ StopsEarly(r, s) \/ Stops(r, s)
    BY ContinueOutcome
  <1>2. pc \in [Runs -> Labels] /\ open \in BOOLEAN /\ hot \subseteq Files
    BY DEF TypeOK, Labels
  <1>3. CASE GoesOn(r, s)
    BY <1>1, <1>2, <1>3 DEF GoesOn, StateTyped, Labels
  <1>4. CASE StopsEarly(r, s)
    BY <1>1, <1>2, <1>4 DEF StopsEarly, StateTyped, Labels
  <1>5. CASE Stops(r, s)
    BY <1>1, <1>2, <1>5 DEF Stops, Settle, StateTyped, Labels
  <1>6. QED
    BY <1>1, <1>3, <1>4, <1>5

\* The state of the server when a build is reported.
Reported(r) == [server EXCEPT !.building = IF r = First THEN @ ELSE FALSE]
Synced(r) == [Reported(r) EXCEPT !.targets = watch]

\* How a report goes on.
LEMMA ReportOutcome ==
    ASSUME TypeOK, NEW r \in Runs, Report(r)
    PROVE  /\ Reported(r) \in DevServerState
           /\ Reported(r).disposed = server.disposed
           /\ Reported(r).ready = server.ready /\ Reported(r).timer = server.timer
           /\ Reported(r).early = server.early
           /\ Reported(r).pending = server.pending
           /\ Reported(r).targets = server.targets
           /\ Reported(r).building = (r = First /\ server.building)
           /\ watch # None =>
                  /\ Synced(r) \in DevServerState
                  /\ Synced(r).disposed = server.disposed
                  /\ Synced(r).ready = server.ready /\ Synced(r).timer = server.timer
                  /\ Synced(r).early = server.early
                  /\ Synced(r).pending = server.pending
                  /\ Synced(r).targets = watch
                  /\ Synced(r).building = (r = First /\ server.building)
           /\ server.disposed => Continue(r, Reported(r))
           /\ ~server.disposed /\ watch # None => Continue(r, Synced(r))
           /\ ~server.disposed /\ watch = None =>
                  /\ server' = Reported(r) /\ pc' = [pc EXCEPT ![r] = "sync"]
                  /\ UNCHANGED <<open, hot>>
  <1>1. /\ Reported(r) \in DevServerState
        /\ Reported(r).disposed = server.disposed
        /\ Reported(r).ready = server.ready /\ Reported(r).timer = server.timer
        /\ Reported(r).early = server.early
        /\ Reported(r).pending = server.pending
        /\ Reported(r).targets = server.targets
        /\ Reported(r).building = (r = First /\ server.building)
    BY DEF Reported, TypeOK, DevServerState
  <1>2. SyncWatched(r, Reported(r))
    BY DEF Report, Reported
  <1>3. watch # None =>
            /\ Synced(r) \in DevServerState
            /\ Synced(r).disposed = Reported(r).disposed
            /\ Synced(r).ready = Reported(r).ready
            /\ Synced(r).timer = Reported(r).timer
            /\ Synced(r).early = Reported(r).early
            /\ Synced(r).pending = Reported(r).pending
            /\ Synced(r).targets = watch
            /\ Synced(r).building = Reported(r).building
    BY <1>1 DEF Synced, TypeOK, DevServerState
  <1>4. /\ server.disposed => Continue(r, Reported(r))
        /\ ~server.disposed /\ watch # None => Continue(r, Synced(r))
        /\ ~server.disposed /\ watch = None =>
               /\ server' = Reported(r) /\ pc' = [pc EXCEPT ![r] = "sync"]
               /\ UNCHANGED <<open, hot>>
    BY <1>1, <1>2 DEF SyncWatched, Synced, Goto
  <1>5. QED
    BY <1>1, <1>3, <1>4

LEMMA ReportTyped ==
    ASSUME TypeOK, NEW r \in Runs, Report(r)
    PROVE  StateTyped'
  <1>1. server.timer => server.ready /\ ~server.disposed
    BY DEF TypeOK
  <1>2. CASE server.disposed
    BY <1>1, <1>2, ReportOutcome, ContinueTyped
  <1>3. CASE ~server.disposed /\ watch # None
    BY <1>1, <1>3, ReportOutcome, ContinueTyped
  <1>4. CASE ~server.disposed /\ watch = None
    BY <1>1, <1>4, ReportOutcome DEF StateTyped, TypeOK, Labels
  <1>5. QED
    BY <1>2, <1>3, <1>4

----------------------------------------------------------------------------
(* Types, the permit, and nothing to come.                                 *)

Basics == TypeOK /\ NothingIsToCome /\ Permit /\ ConfigIsWatched

LEMMA VersionFacts ==
    ASSUME TypeOK
    PROVE  /\ Config \in Files /\ Nothing \in Versions
           /\ \A f \in Files :
                  /\ Nothing[f] = 0 /\ MaxEdits[f] \in Nat
                  /\ disk[f] \in Nat /\ attempted[f] \in Nat /\ snap[f] \in Nat
                  /\ taken[f] \in Nat /\ disk[f] <= MaxEdits[f]
  BY Inputs DEF TypeOK, Versions, Nothing, Files

\* A set of files is not the model value None.
LEMMA WatchIsFiles ==
    ASSUME TypeOK, watch # None PROVE watch \subseteq Files
  BY DEF TypeOK

LEMMA FilesStep ==
    ASSUME Basics, NEW f \in Files, Edit(f) \/ OnFileEvent(f) \/ HotUpdate(f)
    PROVE  Basics'
  <1> USE DEF Basics
  <1>1. CASE Edit(f)
    <2>1. /\ disk' = [disk EXCEPT ![f] = disk[f] + 1]
          /\ disk[f] + 1 \in Nat /\ disk[f] + 1 <= MaxEdits[f] /\ disk \in Versions
      BY <1>1, VersionFacts DEF Edit, TypeOK
    <2>2. /\ disk' \in Versions /\ disk'[f] = disk[f] + 1
          /\ \A g \in Files \ {f} : disk'[g] = disk[g]
      BY <2>1 DEF Versions
    <2>3. NothingIsToCome'
      BY <1>1, <2>2, VersionFacts DEF Edit, NothingIsToCome
    <2>4. QED
      BY <1>1, <2>2, <2>3 DEF Edit, TypeOK, Permit, ConfigIsWatched
  <1>2. CASE OnFileEvent(f)
    <2>1. /\ events' \subseteq Files /\ notified' \subseteq Files
          /\ UNCHANGED <<disk, watch, engine, pc, snap, attempted, healthy, hot>>
      BY <1>2 DEF OnFileEvent, TypeOK
    <2>2. /\ server' \in DevServerState /\ open' \in BOOLEAN
          /\ server'.timer => server'.ready /\ ~server'.disposed
      <3>1. \/ UNCHANGED <<server, open>>
            \/ server' = [server EXCEPT !.early = @ \cup {f}] /\ UNCHANGED open
            \/ /\ server.ready /\ ~server.disposed /\ open' = TRUE
               /\ server' = [server EXCEPT !.timer = TRUE]
        BY <1>2 DEF OnFileEvent
      <3>2. CASE UNCHANGED <<server, open>>
        BY <3>2 DEF TypeOK
      <3>3. CASE server' = [server EXCEPT !.early = @ \cup {f}] /\ UNCHANGED open
        BY <3>3 DEF TypeOK, DevServerState
      <3>4. CASE /\ server.ready /\ ~server.disposed /\ open' = TRUE
                 /\ server' = [server EXCEPT !.timer = TRUE]
        BY <3>4 DEF TypeOK, DevServerState
      <3>5. QED
        BY <3>1, <3>2, <3>3, <3>4
    <2>3. taken' \in Versions /\ \A g \in Files : taken'[g] <= disk[g]
      <3>1. taken' = taken \/ taken' = [taken EXCEPT ![f] = disk[f]]
        BY <1>2 DEF OnFileEvent, TakeUp
      <3>2. QED
        BY <3>1 DEF TypeOK, Versions, NothingIsToCome
    <2>4. QED
      BY <2>1, <2>2, <2>3 DEF TypeOK, NothingIsToCome, Permit, ConfigIsWatched
  <1>3. CASE HotUpdate(f)
    BY <1>3 DEF HotUpdate, TypeOK, NothingIsToCome, Permit, ConfigIsWatched
  <1>4. QED
    BY <1>1, <1>2, <1>3

LEMMA EndedVersions ==
    ASSUME Basics, BuildEnds, UNCHANGED <<disk, taken>>
    PROVE  /\ attempted' \in Versions /\ snap' \in Versions /\ engine' = None
           /\ NothingIsToCome'
           /\ \A f \in Files : /\ attempted'[f] >= attempted[f]
                               /\ attempted'[f] >= snap[f]
  <1> USE DEF Basics
  <1>1. snap' = Nothing /\ attempted' = Later(snap, attempted) /\ engine' = None
    BY DEF BuildEnds
  <1>2. \A f \in Files : /\ snap[f] \in Nat /\ attempted[f] \in Nat /\ disk[f] \in Nat
                         /\ snap[f] <= MaxEdits[f] /\ attempted[f] <= MaxEdits[f]
                         /\ MaxEdits[f] \in Nat
    BY Inputs DEF TypeOK, Versions
  <1>3. snap' \in Versions /\ \A f \in Files : snap'[f] = 0
    BY <1>1, <1>2 DEF Nothing, Versions
  <1>4. /\ attempted' \in Versions
        /\ \A f \in Files : attempted'[f] = IF snap[f] > attempted[f] THEN snap[f]
                                            ELSE attempted[f]
    BY <1>1, <1>2 DEF Later, Versions
  <1>5. QED
    BY <1>1, <1>2, <1>3, <1>4 DEF NothingIsToCome

\* A run that ends, or searches for the files to watch, reads nothing any more.
LEMMA LeavesTheReaders ==
    ASSUME Basics, NEW r \in Runs, NEW s \in DevServerState,
           \/ Continue(r, s)
           \/ pc' = [pc EXCEPT ![r] = "sync"]
    PROVE  /\ pc' \in [Runs -> Labels]
           /\ pc'[r] \in {"idle", "build", "sync"}
           /\ \A q \in Runs \ {r} : pc'[q] = pc[q]
  <1>1. pc \in [Runs -> Labels]
    BY DEF Basics, TypeOK, Labels
  <1>2. \/ pc' = [pc EXCEPT ![r] = "idle"] \/ pc' = [pc EXCEPT ![r] = "build"]
        \/ pc' = [pc EXCEPT ![r] = "sync"]
    BY ContinueOutcome DEF GoesOn, StopsEarly, Stops
  <1>3. QED
    BY <1>1, <1>2 DEF Labels

LEMMA ReportLeavesTheReaders ==
    ASSUME Basics, NEW r \in Runs, Report(r)
    PROVE  /\ pc'[r] \in {"idle", "build", "sync"}
           /\ \A q \in Runs \ {r} : pc'[q] = pc[q]
  <1>1. TypeOK
    BY DEF Basics
  <1>2. \E s \in DevServerState :
            Continue(r, s) \/ pc' = [pc EXCEPT ![r] = "sync"]
    BY <1>1, ReportOutcome
  <1>3. QED
    BY <1>2, LeavesTheReaders

LEMMA BuildStep ==
    ASSUME Basics, NEW r \in Runs, Build(r)
    PROVE  Basics'
  <1> USE DEF Basics
  <1>1. CASE BuildStarts(r)
    <2>1. \A q \in Runs : pc[q] \notin {"config", "content", "made"}
      BY <1>1, Inputs DEF BuildStarts, Permit
    <2>2. QED
      BY <1>1, <2>1 DEF BuildStarts, Goto, TypeOK, NothingIsToCome, Permit, ConfigIsWatched
  <1>2. CASE ConfigLoads(r)
    <2>1. /\ snap' = [Nothing EXCEPT ![Config] = disk[Config]]
          /\ watch' = Named[disk[Config]] \cup {Config}
          /\ pc' = [pc EXCEPT ![r] = "content"] /\ pc[r] = "config"
          /\ UNCHANGED <<disk, events, engine, attempted, healthy, server, open,
                         taken, notified, hot>>
      BY <1>2 DEF ConfigLoads, Goto
    <2>2. /\ snap' \in Versions /\ snap'[Config] = disk[Config]
          /\ \A g \in Files \ {Config} : snap'[g] = Nothing[g]
      BY <2>1, VersionFacts DEF Versions
    <2>3. \A f \in Files : snap'[f] <= disk[f]
      BY <2>2, VersionFacts
    <2>4. watch' \subseteq Files /\ Config \in watch'
      BY <2>1, VersionFacts, Inputs DEF Files
    <2>5. TypeOK'
      BY <2>1, <2>2, <2>4 DEF TypeOK
    <2>6. Permit'
      BY <2>1 DEF Permit, TypeOK
    <2>7. QED
      BY <2>1, <2>3, <2>4, <2>5, <2>6 DEF NothingIsToCome, ConfigIsWatched
  <1>3. CASE ContentIsRead(r)
    <2>1. snap' = [f \in Files |-> IF f \in watch \ {Config} THEN disk[f] ELSE snap[f]]
      BY <1>3 DEF ContentIsRead
    <2>2. snap' \in Versions /\ \A f \in Files : snap'[f] <= disk[f]
      BY <2>1 DEF TypeOK, Versions, NothingIsToCome
    <2>3. QED
      BY <1>3, <2>2 DEF ContentIsRead, Goto, TypeOK, NothingIsToCome, Permit, ConfigIsWatched
  <1>4. CASE ConfigFails(r)
    <2>1. /\ attempted' = disk /\ engine' = None /\ pc[r] = "config"
          /\ UNCHANGED <<disk, events, watch, snap, healthy, taken, notified>>
          /\ Report(r)
      BY <1>4 DEF ConfigFails
    <2>2. TypeOK'
      BY <2>1, ReportTyped DEF TypeOK, StateTyped, Labels
    <2>3. NothingIsToCome'
      BY <2>1, VersionFacts DEF NothingIsToCome
    <2>4. Permit'
      BY <2>1, ReportLeavesTheReaders DEF Permit
    <2>5. QED
      BY <2>1, <2>2, <2>3, <2>4 DEF ConfigIsWatched
  <1>5. CASE NothingToRefresh(r)
    <2>1. /\ BuildEnds /\ Report(r) /\ pc[r] = "made"
          /\ UNCHANGED <<disk, events, watch, healthy, taken, notified>>
      BY <1>5 DEF NothingToRefresh
    <2>2. TypeOK'
      BY <2>1, ReportTyped, EndedVersions DEF TypeOK, StateTyped, Labels
    <2>3. Permit'
      BY <2>1, ReportLeavesTheReaders DEF Permit
    <2>4. QED
      BY <2>1, <2>2, <2>3, EndedVersions DEF ConfigIsWatched
  <1>6. CASE FilesChanged(r)
    <2>1. /\ BuildEnds /\ pc' = [pc EXCEPT ![r] = "refresh"] /\ pc[r] = "made"
          /\ UNCHANGED <<disk, events, watch, healthy, server, open, taken,
                         notified, hot>>
      BY <1>6 DEF FilesChanged, Goto
    <2>2. TypeOK'
      BY <2>1, EndedVersions DEF TypeOK
    <2>3. Permit'
      BY <2>1 DEF Permit, TypeOK
    <2>4. QED
      BY <2>1, <2>2, <2>3, EndedVersions DEF ConfigIsWatched
  <1>7. CASE Refreshed(r)
    <2>1. /\ Report(r) /\ pc[r] = "refresh"
          /\ UNCHANGED <<disk, events, watch, engine, snap, attempted, healthy,
                         taken, notified>>
      BY <1>7 DEF Refreshed
    <2>2. TypeOK'
      BY <2>1, ReportTyped DEF TypeOK, StateTyped, Labels
    <2>3. Permit'
      BY <2>1, ReportLeavesTheReaders DEF Permit
    <2>4. QED
      BY <2>1, <2>2, <2>3 DEF NothingIsToCome, ConfigIsWatched
  <1>8. CASE FallbackFound(r)
    <2> DEFINE s == [server EXCEPT !.targets = {Config}]
    <2>1. /\ Continue(r, s)
          /\ UNCHANGED <<disk, events, watch, engine, snap, attempted, healthy,
                         taken, notified>>
      BY <1>8 DEF FallbackFound
    <2>2. s \in DevServerState /\ (s.timer => s.ready /\ ~s.disposed)
      BY DEF TypeOK, DevServerState, Files
    <2> HIDE DEF s
    <2>3. TypeOK'
      BY <2>1, <2>2, ContinueTyped DEF TypeOK, StateTyped, Labels
    <2>4. Permit'
      BY <2>1, <2>2, LeavesTheReaders DEF Permit
    <2>5. QED
      BY <2>1, <2>3, <2>4 DEF NothingIsToCome, ConfigIsWatched
  <1>9. QED
    BY <1>1, <1>2, <1>3, <1>4, <1>5, <1>6, <1>7, <1>8 DEF Build

LEMMA TimerStep ==
    ASSUME Basics, TimerFires
    PROVE  Basics'
  <1> USE DEF Basics
  <1>1. /\ \/ server' = [server EXCEPT !.timer = FALSE, !.pending = TRUE]
           \/ server' = [server EXCEPT !.timer = FALSE, !.building = TRUE, !.pending = FALSE]
        /\ open' = open \/ open' = TRUE
        /\ pc' = pc \/ \E l \in Loops : pc' = [pc EXCEPT ![l] = "build"]
        /\ UNCHANGED <<disk, events, watch, engine, snap, attempted, healthy,
                       taken, notified, hot>>
    BY DEF TimerFires, LoopStarts, Goto
  <1>2. /\ server' \in DevServerState /\ ~server'.timer /\ open' \in BOOLEAN
    BY <1>1 DEF TypeOK, DevServerState
  <1>3. /\ pc' \in [Runs -> Labels]
        /\ \A q \in Runs : pc'[q] = pc[q] \/ pc'[q] = "build"
    BY <1>1 DEF TypeOK, Runs, Labels
  <1>4. QED
    BY <1>1, <1>2, <1>3 DEF TypeOK, Labels, NothingIsToCome, Permit, ConfigIsWatched

LEMMA ReleaseStep ==
    ASSUME Basics, Release
    PROVE  Basics'
  BY DEF Basics, Release, Settle, TypeOK, DevServerState, NothingIsToCome, Permit,
         ConfigIsWatched

----------------------------------------------------------------------------
(* The promises.                                                           *)

LEMMA InitInv == Init => Inv
  <1> SUFFICES ASSUME Init PROVE Inv
    OBVIOUS
  <1>1. Nothing \in Versions /\ \A f \in Files : Nothing[f] = 0
    BY Inputs DEF Nothing, Versions
  <1>2. TypeOK
    BY <1>1 DEF Init, TypeOK, DevServerState
  <1>3. NothingIsToCome /\ Permit /\ ConfigIsWatched
    BY <1>1 DEF Init, NothingIsToCome, Permit, ConfigIsWatched
  <1>4. Starting
    BY <1>1, Inputs DEF Init, Starting, Runs
  <1>5. Running /\ OneAtATime /\ Owed
    BY DEF Init, Running, OneAtATime, Owed
  <1>6. QED
    BY <1>2, <1>3, <1>4, <1>5 DEF Inv, Promises

\* What the promises say while a loop is at it, and while the first build is.
LEMMA LoopFacts ==
    ASSUME Inv, NEW r \in Loops, pc[r] # "idle"
    PROVE  /\ server.ready /\ pc[First] = "idle" /\ r # First /\ r \in Runs
           /\ pc[r] \in {"content", "made", "refresh"} => watch # None
           /\ healthy /\ ~server.disposed =>
                  /\ server.building /\ open /\ watch # None /\ pc[r] # "sync"
                  /\ \A l \in Loops \ {r} : pc[l] = "idle"
  BY Inputs DEF Inv, Promises, Starting, Running, OneAtATime, Runs

LEMMA FirstFacts ==
    ASSUME Inv, pc[First] # "idle"
    PROVE  /\ ~server.ready /\ server.targets = {}
           /\ pc[First] \in {"content", "made"} => watch # None
           /\ pc[First] # "refresh"
           /\ pc[First] = "sync" => watch = None /\ ~healthy
           /\ \A l \in Loops : pc[l] = "idle"
           /\ ~server.timer /\ ~server.building /\ ~server.pending
           /\ ~server.disposed => \A f \in Files : taken[f] > 0 => f \in server.early
  BY DEF Inv, Promises, Starting, Running

\* The first build ends.
LEMMA FirstEnds ==
    ASSUME Inv, pc[First] # "idle", NEW s \in DevServerState, Continue(First, s),
           s.disposed = server.disposed, s.early = server.early,
           s.timer = server.timer, s.pending = server.pending, ~s.building,
           healthy => watch # None,
           \/ s.disposed
           \/ watch # None /\ s.targets = watch
           \/ watch = None /\ s.targets = {Config},
           UNCHANGED <<watch, healthy, taken>>,
           \A f \in Files : attempted'[f] \in Nat
    PROVE  Promises'
  <1>1. /\ First \in Runs /\ First \notin Loops /\ Loops \subseteq Runs
        /\ pc \in [Runs -> Labels]
    BY Inputs DEF Runs, Inv, TypeOK, Labels
  <1>2. /\ \A l \in Loops : pc[l] = "idle"
        /\ ~server.timer /\ ~server.building /\ ~server.pending
        /\ ~server.disposed => \A f \in Files : taken[f] > 0 => f \in server.early
    BY FirstFacts
  <1>3. /\ server'.disposed = s.disposed /\ server'.targets = s.targets
        /\ StopsEarly(First, s) \/ Stops(First, s)
    BY <1>1, ContinueOutcome DEF GoesOn
  <1>4. /\ pc'[First] = "idle" /\ server'.ready /\ ~server'.building /\ ~server'.pending
        /\ \A l \in Loops : pc'[l] = "idle"
        /\ server'.timer => open'
    BY <1>1, <1>2, <1>3 DEF StopsEarly, Stops
  <1>5. Starting' /\ Running'
    BY <1>4 DEF Starting, Running
  <1>6. OneAtATime'
    BY <1>4 DEF OneAtATime
  <1>7. ASSUME ~server'.disposed
        PROVE  /\ Config \in server'.targets
               /\ \A f \in Watched' : Handled(f, taken[f])'
    <2>1. /\ Config \in s.targets /\ Watched' = s.targets
          /\ s.targets \subseteq Files
      BY <1>3, <1>7 DEF Inv, ConfigIsWatched, Watched, DevServerState
    <2>2. CASE StopsEarly(First, s)
      BY <1>3, <2>1, <2>2 DEF StopsEarly, Handled
    <2>3. CASE Stops(First, s)
      <3>1. ASSUME NEW f \in s.targets PROVE Handled(f, taken[f])'
        <4>1. ~(taken[f] > 0) /\ f \in Files
          BY <1>2, <1>3, <1>7, <2>1, <2>3 DEF Stops
        <4>2. taken'[f] = 0 /\ attempted'[f] \in Nat
          BY <4>1, VersionFacts DEF Inv
        <4>3. QED
          BY <4>2 DEF Handled
      <3>2. QED
        BY <1>3, <2>1, <3>1
    <2>4. QED
      BY <1>3, <2>2, <2>3
  <1>8. Owed'
    BY <1>7 DEF Owed
  <1>9. QED
    BY <1>5, <1>6, <1>8 DEF Promises

\* What the other loops cover stays covered, and whatever is watched and loop r
\* covered was dealt with.
LEMMA LoopEnds ==
    ASSUME Inv, NEW r \in Loops, pc[r] # "idle", NEW s \in DevServerState,
           Continue(r, s),
           s.disposed = server.disposed, s.ready = server.ready,
           s.timer = server.timer, s.pending = server.pending,
           s.building => \E l \in Loops \ {r} : pc[l] \in AtWork,
           \/ s.disposed
           \/ watch # None /\ s.targets = watch
           \/ ~healthy /\ s.targets = {Config} /\ pc[r] = "sync",
           UNCHANGED <<watch, healthy, taken>>,
           \A f \in Files : attempted'[f] \in Nat /\ attempted'[f] >= attempted[f],
           watch # None =>
               \A f \in watch : Covers(r, f, taken[f]) => attempted'[f] >= taken[f],
           \/ snap' = snap
           \/ \A l \in Loops \ {r} : pc[l] \notin {"content", "made"}
    PROVE  Promises'
  <1>1. /\ First \in Runs /\ First \notin Loops /\ Loops \subseteq Runs
        /\ pc \in [Runs -> Labels]
    BY Inputs DEF Runs, Inv, TypeOK, Labels
  <1>2. /\ server.ready /\ pc[First] = "idle"
        /\ healthy /\ ~server.disposed =>
               /\ server.building /\ open /\ watch # None
               /\ \A l \in Loops \ {r} : pc[l] = "idle"
    BY LoopFacts
  <1>3. /\ server'.disposed = s.disposed /\ server'.targets = s.targets
        /\ GoesOn(r, s) \/ Stops(r, s)
    BY <1>1, ContinueOutcome DEF StopsEarly
  <1>4. /\ server'.ready /\ pc'[First] = "idle" /\ pc'[r] \in {"idle", "build"}
        /\ \A l \in Loops \ {r} : pc'[l] = pc[l]
        /\ server'.timer = server.timer
    BY <1>1, <1>2, <1>3 DEF GoesOn, Stops
  <1>5. Starting'
    BY <1>4 DEF Starting
  <1>6. Running'
    <2>1. \A l \in Loops : pc'[l] \in {"content", "made", "refresh"} => watch' # None
      BY <1>2, <1>4 DEF Inv, Promises, Running
    <2>2. server'.building => \E l \in Loops : pc'[l] \in AtWork
      <3>1. CASE GoesOn(r, s)
        BY <1>1, <3>1 DEF GoesOn, AtWork
      <3>2. CASE Stops(r, s)
        BY <1>4, <3>2 DEF Stops
      <3>3. QED
        BY <1>3, <3>1, <3>2
    <2>3. server'.pending => server'.disposed
      BY <1>3 DEF GoesOn, Stops
    <2>4. server'.timer => open'
      BY <1>2, <1>3, <1>4 DEF GoesOn, Stops, Inv, Promises, Running
    <2>5. QED
      BY <1>4, <2>1, <2>2, <2>3, <2>4 DEF Running
  <1>7. OneAtATime'
    <2> SUFFICES ASSUME healthy', ~server'.disposed PROVE OneAtATime'
      BY DEF OneAtATime
    <2>1. /\ healthy /\ watch # None /\ server.building /\ open
          /\ \A l \in Loops \ {r} : pc[l] = "idle"
      BY <1>2, <1>3
    <2>2. \A l \in Loops \ {r} : pc'[l] = "idle"
      BY <1>4, <2>1
    <2>3. CASE GoesOn(r, s)
      BY <1>4, <2>1, <2>2, <2>3 DEF GoesOn, OneAtATime
    <2>4. CASE Stops(r, s)
      <3>1. ~s.building
        BY <2>1 DEF AtWork
      <3>2. /\ pc'[r] = "idle" /\ ~server'.building
        BY <1>1, <2>4, <3>1 DEF Stops
      <3>3. QED
        BY <2>1, <2>2, <3>2 DEF OneAtATime
    <2>5. QED
      BY <1>3, <2>3, <2>4
  <1>8. ASSUME ~server'.disposed
        PROVE  /\ Config \in server'.targets
               /\ \A f \in Watched' : Handled(f, taken[f])'
    <2>1. /\ ~server.disposed /\ Config \in server.targets
          /\ \A f \in Watched : Handled(f, taken[f])
      BY <1>2, <1>3, <1>8 DEF Inv, Promises, Owed
    <2>2. Config \in s.targets
      BY <1>3, <1>8 DEF Inv, ConfigIsWatched
    <2>3. ASSUME NEW f \in Watched', ~GoesOn(r, s) PROVE Handled(f, taken[f])'
      <3>1. f \in Watched /\ f \in Files
        BY <1>3, <1>8, <2>1, <2>3 DEF Watched, Inv, TypeOK, DevServerState
      <3>2. Handled(f, taken[f]) /\ ~server.pending
        BY <1>3, <2>1, <2>3, <3>1 DEF Stops
      <3>3. CASE attempted[f] >= taken[f]
        BY <3>1, <3>3, VersionFacts DEF Inv, Handled
      <3>4. CASE server.timer
        BY <1>4, <3>4 DEF Handled
      <3>5. CASE Covers(r, f, taken[f])
        <4>1. pc[r] # "sync" /\ watch # None /\ s.targets = watch
          BY <1>3, <1>8, <3>5 DEF Covers
        <4>2. f \in watch
          BY <1>3, <2>3, <4>1 DEF Watched
        <4>3. QED
          BY <3>5, <4>1, <4>2 DEF Handled
      <3>6. CASE \E l \in Loops \ {r} : Covers(l, f, taken[f])
        BY <1>4, <3>6 DEF Handled, Covers
      <3>7. QED
        BY <3>2, <3>3, <3>4, <3>5, <3>6 DEF Handled
    <2>4. ASSUME GoesOn(r, s) PROVE \A f : Handled(f, taken[f])'
      BY <1>1, <2>4 DEF GoesOn, Handled, Covers
    <2>5. QED
      BY <1>3, <2>2, <2>3, <2>4
  <1>9. Owed'
    BY <1>8 DEF Owed
  <1>10. QED
    BY <1>5, <1>6, <1>7, <1>9 DEF Promises

\* A run is reported.  Without a config the files to watch are searched.
LEMMA ReportKeepsPromises ==
    ASSUME Inv, NEW r \in Runs, pc[r] \notin {"idle", "sync"}, Report(r),
           healthy /\ r = First => watch # None,
           UNCHANGED <<watch, healthy, taken>>,
           \A f \in Files : attempted'[f] \in Nat /\ attempted'[f] >= attempted[f],
           \A f \in Files : Covers(r, f, taken[f]) /\ (watch # None => f \in watch)
                            => attempted'[f] >= taken[f],
           watch = None => \A f \in Files : attempted'[f] >= taken[f],
           snap' = snap \/ engine = r
    PROVE  Promises'
  <1>1. TypeOK /\ First \notin Loops /\ First \in Runs /\ Loops \subseteq Runs
    BY Inputs DEF Inv, Runs
  <1>2. \/ snap' = snap
        \/ \A l \in Loops \ {r} : pc[l] \notin {"content", "made"}
    BY <1>1 DEF Inv, Permit
  <1>3. watch # None => watch \subseteq Files
    BY <1>1, WatchIsFiles
  <1>4. CASE r = First /\ (server.disposed \/ watch # None)
    <2>1. ~server.building /\ ~server.timer
      BY <1>4, FirstFacts
    <2>2. CASE server.disposed
      BY <1>1, <1>4, <2>1, <2>2, ReportOutcome, FirstEnds
    <2>3. CASE ~server.disposed
      BY <1>1, <1>4, <2>1, <2>3, ReportOutcome, FirstEnds
    <2>4. QED
      BY <2>2, <2>3
  <1>5. CASE r \in Loops /\ (server.disposed \/ watch # None)
    <2>1. watch # None =>
              \A f \in watch : Covers(r, f, taken[f]) => attempted'[f] >= taken[f]
      BY <1>3
    <2>2. CASE server.disposed
      <3>1. /\ Continue(r, Reported(r)) /\ Reported(r) \in DevServerState
            /\ Reported(r).disposed = server.disposed
            /\ Reported(r).ready = server.ready /\ Reported(r).timer = server.timer
            /\ Reported(r).pending = server.pending /\ ~Reported(r).building
        BY <1>1, <1>5, <2>2, ReportOutcome
      <3>2. QED
        BY <1>2, <1>5, <2>1, <2>2, <3>1, LoopEnds
    <2>3. CASE ~server.disposed
      <3>1. /\ Continue(r, Synced(r)) /\ Synced(r) \in DevServerState
            /\ Synced(r).disposed = server.disposed /\ Synced(r).targets = watch
            /\ Synced(r).ready = server.ready /\ Synced(r).timer = server.timer
            /\ Synced(r).pending = server.pending /\ ~Synced(r).building
        BY <1>1, <1>5, <2>3, ReportOutcome
      <3>2. QED
        BY <1>2, <1>5, <2>1, <2>3, <3>1, LoopEnds
    <2>4. QED
      BY <2>2, <2>3
  <1>6. CASE ~server.disposed /\ watch = None
    <2>1. /\ server' = Reported(r) /\ pc' = [pc EXCEPT ![r] = "sync"]
          /\ UNCHANGED <<open, hot>>
      BY <1>1, <1>6, ReportOutcome
    <2>2. /\ server'.disposed = server.disposed
          /\ server'.ready = server.ready /\ server'.timer = server.timer
          /\ server'.early = server.early /\ server'.pending = server.pending
          /\ server'.targets = server.targets
          /\ server'.building = (r = First /\ server.building)
      BY <1>1, <2>1, ReportOutcome
    <2>3. pc'[r] = "sync" /\ \A q \in Runs \ {r} : pc'[q] = pc[q]
      BY <2>1 DEF Inv, TypeOK
    <2>4. CASE r = First
      <3>1. /\ ~server.ready /\ \A l \in Loops : pc[l] = "idle"
            /\ ~server.timer /\ ~server.building /\ ~server.pending
            /\ server.targets = {} /\ ~healthy
            /\ \A f \in Files : taken[f] > 0 => f \in server.early
        BY <1>6, <2>4, FirstFacts
      <3>2. Starting'
        BY <1>1, <1>6, <2>2, <2>3, <2>4, <3>1 DEF Starting
      <3>3. QED
        BY <2>2, <3>1, <3>2 DEF Promises, Running, OneAtATime, Owed
    <2>5. CASE r \in Loops
      <3>1. server.ready /\ pc[First] = "idle" /\ ~healthy
        BY <1>6, <2>5, LoopFacts
      <3>2. \A l \in Loops : pc[l] \in {"content", "made", "refresh"} => watch # None
        BY <3>1 DEF Inv, Promises, Running
      <3>3. Running'
        BY <1>1, <2>1, <2>2, <2>3, <2>5, <3>1, <3>2 DEF Running, Inv, Promises
      <3>4. Owed'
        <4>1. /\ Config \in server.targets /\ Watched' = server.targets
              /\ server.targets \subseteq Files
          BY <1>1, <1>6, <2>2, <3>1 DEF Inv, Promises, Owed, Watched, TypeOK, DevServerState
        <4>2. QED
          BY <1>6, <2>2, <4>1 DEF Owed, Handled
      <3>5. QED
        BY <2>2, <3>1, <3>3, <3>4 DEF Promises, Starting, OneAtATime
    <2>6. QED
      BY <2>4, <2>5 DEF Runs
  <1>7. QED
    BY <1>4, <1>5, <1>6 DEF Runs

LEMMA FilesKeepPromises ==
    ASSUME Inv, NEW f \in Files, Edit(f) \/ OnFileEvent(f) \/ HotUpdate(f)
    PROVE  Promises'
  <1>1. UNCHANGED <<watch, pc, attempted, snap, healthy>>
    BY DEF Edit, OnFileEvent, HotUpdate
  <1>2. CASE UNCHANGED <<server, open, taken>>
    BY <1>1, <1>2 DEF Inv, Promises, Starting, Running, OneAtATime, Owed, Watched,
                      Handled, Covers
  <1>3. CASE OnFileEvent(f) /\ ~server.disposed /\ ~server.ready
    <2>1. /\ server' = [server EXCEPT !.early = @ \cup {f}] /\ UNCHANGED open
          /\ taken' = [taken EXCEPT ![f] = disk[f]]
      BY <1>3 DEF OnFileEvent, TakeUp
    <2>2. /\ server'.early = server.early \cup {f}
          /\ server'.ready = server.ready /\ server'.disposed = server.disposed
          /\ server'.timer = server.timer /\ server'.building = server.building
          /\ server'.pending = server.pending /\ server'.targets = server.targets
      BY <2>1 DEF Inv, TypeOK, DevServerState
    <2>3. \A g \in Files \ {f} : taken'[g] = taken[g]
      BY <2>1 DEF Inv, TypeOK, Versions
    <2>4. Starting'
      BY <1>1, <1>3, <2>2, <2>3 DEF Inv, Promises, Starting
    <2>5. QED
      BY <1>3, <2>2, <2>4 DEF Promises, Running, OneAtATime, Owed
  <1>4. CASE OnFileEvent(f) /\ ~server.disposed /\ server.ready /\ f \in server.targets
    <2>1. server' = [server EXCEPT !.timer = TRUE] /\ open' = TRUE
      BY <1>4 DEF OnFileEvent
    <2>2. /\ server'.timer
          /\ server'.ready = server.ready /\ server'.disposed = server.disposed
          /\ server'.building = server.building /\ server'.pending = server.pending
          /\ server'.targets = server.targets
      BY <2>1 DEF Inv, TypeOK, DevServerState
    <2>3. Starting' /\ Running' /\ OneAtATime'
      BY <1>1, <1>4, <2>1, <2>2 DEF Inv, Promises, Starting, Running, OneAtATime
    <2>4. Owed'
      BY <1>4, <2>2 DEF Inv, Promises, Owed, Handled
    <2>5. QED
      BY <2>3, <2>4 DEF Promises
  <1>5. QED
    BY <1>2, <1>3, <1>4 DEF Edit, OnFileEvent, HotUpdate

\* A step of the first build that does not end it.
LEMMA FirstGoesOn ==
    ASSUME Inv, pc[First] # "idle",
           pc'[First] \in {"config", "content", "made"},
           pc'[First] \in {"content", "made"} => watch' # None,
           \A q \in Runs \ {First} : pc'[q] = pc[q],
           UNCHANGED <<server, taken>>
    PROVE  Promises'
  <1>1. /\ ~server.ready /\ server.targets = {}
        /\ \A l \in Loops : pc'[l] = "idle"
        /\ ~server.timer /\ ~server.building /\ ~server.pending
        /\ ~server.disposed => \A f \in Files : taken[f] > 0 => f \in server.early
    BY FirstFacts, Inputs DEF Runs
  <1>2. Starting'
    BY <1>1 DEF Starting
  <1>3. QED
    BY <1>1, <1>2 DEF Promises, Running, OneAtATime, Owed

\* A step of a loop that does not end the build.
LEMMA LoopGoesOn ==
    ASSUME Inv, NEW r \in Loops, pc[r] \in AtWork, pc'[r] \in AtWork,
           \A q \in Runs \ {r} : pc'[q] = pc[q],
           pc'[r] \in {"content", "made", "refresh"} => watch' # None,
           watch # None => watch' # None,
           UNCHANGED <<healthy, server, open, taken>>,
           ~server.disposed => \A f \in Watched' : Handled(f, taken[f])'
    PROVE  Promises'
  <1>1. /\ server.ready /\ pc[First] = "idle" /\ r # First
        /\ First \in Runs /\ Loops \subseteq Runs
    BY LoopFacts DEF Runs, AtWork
  <1>2. pc'[First] = "idle" /\ \A l \in Loops \ {r} : pc'[l] = pc[l]
    BY <1>1
  <1>3. Starting'
    BY <1>1 DEF Starting
  <1>4. Running'
    BY <1>1, <1>2 DEF Inv, Promises, Running, AtWork
  <1>5. OneAtATime'
    BY <1>1, <1>2 DEF Inv, Promises, OneAtATime, AtWork
  <1>6. Owed'
    BY <1>1 DEF Inv, Promises, Owed
  <1>7. QED
    BY <1>3, <1>4, <1>5, <1>6 DEF Promises

LEMMA BuildKeepsPromises ==
    ASSUME Inv, NEW r \in Runs, Build(r)
    PROVE  Promises'
  <1>1. /\ Basics /\ TypeOK /\ pc \in [Runs -> Labels]
        /\ First \notin Loops /\ First \in Runs /\ Loops \subseteq Runs
    BY Inputs DEF Inv, Basics, TypeOK, Labels, Runs
  <1>2. \A f \in Files :
            /\ disk[f] \in Nat /\ attempted[f] \in Nat /\ snap[f] \in Nat
            /\ taken[f] \in Nat /\ taken[f] <= disk[f] /\ attempted[f] <= disk[f]
    BY <1>1, VersionFacts DEF Inv, NothingIsToCome
  <1>3. /\ Watched \subseteq Files
        /\ watch # None => watch \subseteq Files
    BY <1>1 DEF Watched, TypeOK, DevServerState
  <1>4. r = First /\ pc[r] # "idle" =>
            /\ pc[r] \in {"content", "made"} => watch # None
            /\ pc[r] # "refresh" /\ (pc[r] = "sync" => watch = None /\ ~healthy)
    BY FirstFacts
  <1>5. r \in Loops /\ pc[r] # "idle" =>
            /\ pc[r] \in {"content", "made", "refresh"} => watch # None
            /\ ~server.disposed /\ healthy => pc[r] # "sync"
    BY LoopFacts
  <1>6. CASE BuildStarts(r)
    <2>1. /\ pc[r] = "build" /\ pc' = [pc EXCEPT ![r] = "config"]
          /\ UNCHANGED <<watch, attempted, healthy, server, open, taken>>
      BY <1>6 DEF BuildStarts, Goto
    <2>2. pc'[r] = "config" /\ \A q \in Runs \ {r} : pc'[q] = pc[q]
      BY <1>1, <2>1
    <2>3. r \in Loops => \A f : Handled(f, taken[f])'
      BY <2>2 DEF Handled, Covers
    <2>4. QED
      BY <2>1, <2>2, <2>3, FirstGoesOn, LoopGoesOn DEF Runs, AtWork
  <1>7. CASE ConfigLoads(r)
    <2>1. /\ pc[r] = "config" /\ pc' = [pc EXCEPT ![r] = "content"]
          /\ snap' = [Nothing EXCEPT ![Config] = disk[Config]]
          /\ UNCHANGED <<disk, attempted, healthy, server, open, taken>>
      BY <1>7 DEF ConfigLoads, Goto
    <2>2. pc'[r] = "content" /\ \A q \in Runs \ {r} : pc'[q] = pc[q]
      BY <1>1, <2>1
    <2>3. snap'[Config] = disk[Config] /\ Config \in Files
      BY <1>1, <2>1, VersionFacts DEF Versions
    <2>4. TypeOK' /\ ConfigIsWatched'
      BY <1>1, BuildStep DEF Basics
    <2>5. watch' # None
      <3>1. Config \in Files /\ disk[Config] \in 0..MaxEdits[Config]
        BY <1>1, VersionFacts
      <3>2. Named[disk[Config]] \cup {Config} \subseteq Files
        BY <3>1, Inputs DEF Files
      <3>3. QED
        BY <1>7, <3>2, NoneIsNone DEF ConfigLoads
    <2>6. r \in Loops => \A f \in Files : Handled(f, taken[f])'
      BY <1>2, <2>1, <2>2, <2>3 DEF Handled, Covers
    <2>7. Watched' \subseteq Files
      BY <2>4 DEF Watched, TypeOK, DevServerState
    <2>8. QED
      BY <2>1, <2>2, <2>5, <2>6, <2>7, FirstGoesOn, LoopGoesOn DEF Runs, AtWork
  <1>8. CASE ContentIsRead(r)
    <2>1. /\ pc[r] = "content" /\ pc' = [pc EXCEPT ![r] = "made"] /\ engine = r
          /\ snap' = [f \in Files |-> IF f \in watch \ {Config} THEN disk[f] ELSE snap[f]]
          /\ UNCHANGED <<disk, watch, attempted, healthy, server, open, taken>>
      BY <1>8 DEF ContentIsRead, Goto, Inv, Permit
    <2>2. pc'[r] = "made" /\ \A q \in Runs \ {r} : pc'[q] = pc[q]
      BY <1>1, <2>1
    <2>3. \A q \in Runs \ {r} : pc[q] \notin {"content", "made"}
      BY <2>1 DEF Inv, Permit
    <2>4. watch # None
      BY <1>4, <1>5, <2>1 DEF Runs
    <2>5. ASSUME NEW f \in Files, Handled(f, taken[f]), r \in Loops
          PROVE  Handled(f, taken[f])'
      <3>1. CASE attempted[f] >= taken[f] \/ server.timer \/ server.pending
        BY <2>1, <3>1 DEF Handled
      <3>2. CASE Covers(r, f, taken[f])
        <4>1. \/ f = Config /\ snap[f] >= taken[f]
              \/ f \in watch \ {Config} \/ f \notin watch
          BY <2>1, <3>2 DEF Covers
        <4>2. f = Config => snap'[f] = snap[f]
          BY <2>1
        <4>3. f \in watch \ {Config} => snap'[f] = disk[f]
          BY <2>1
        <4>4. Covers(r, f, taken[f])'
          BY <1>2, <2>1, <2>2, <4>1, <4>2, <4>3 DEF Covers
        <4>5. QED
          BY <2>5, <4>4 DEF Handled
      <3>3. CASE \E l \in Loops \ {r} : Covers(l, f, taken[f])
        <4>1. PICK l \in Loops \ {r} : Covers(l, f, taken[f])
          BY <3>3
        <4>2. pc'[l] = pc[l] /\ pc[l] \notin {"content", "made"}
          BY <1>1, <2>2, <2>3
        <4>3. Covers(l, f, taken[f])'
          BY <2>1, <4>1, <4>2 DEF Covers
        <4>4. QED
          BY <4>3 DEF Handled
      <3>4. QED
        BY <2>5, <3>1, <3>2, <3>3 DEF Handled
    <2>6. Watched' = Watched
      BY <2>1 DEF Watched
    <2>7. r \in Loops /\ ~server.disposed => \A f \in Watched' : Handled(f, taken[f])'
      <3>1. r \in Loops => server.ready
        BY <2>1, LoopFacts
      <3>2. server.ready /\ ~server.disposed => \A f \in Watched : Handled(f, taken[f])
        BY DEF Inv, Promises, Owed
      <3>3. ASSUME NEW f \in Watched', r \in Loops, ~server.disposed
            PROVE  Handled(f, taken[f])'
        <4>1. f \in Files /\ Handled(f, taken[f])
          BY <1>3, <2>6, <3>1, <3>2, <3>3
        <4>2. QED
          BY <2>5, <3>3, <4>1
      <3>4. QED
        BY <3>3
    <2>8. CASE r = First
      BY <2>1, <2>2, <2>4, <2>8, FirstGoesOn
    <2>9. CASE r \in Loops /\ ~server.disposed
      BY <2>1, <2>2, <2>4, <2>7, <2>9, LoopGoesOn DEF AtWork
    <2>10. CASE r \in Loops /\ server.disposed
      BY <2>1, <2>2, <2>4, <2>10, LoopGoesOn DEF AtWork
    <2>11. QED
      BY <2>8, <2>9, <2>10 DEF Runs
  <1>9. CASE FilesChanged(r)
    <2>1. /\ pc[r] = "made" /\ pc' = [pc EXCEPT ![r] = "refresh"] /\ BuildEnds
          /\ r \in Loops /\ engine = r
          /\ UNCHANGED <<disk, watch, healthy, server, open, taken>>
      BY <1>9 DEF FilesChanged, Goto, Inv, Permit
    <2>2. pc'[r] = "refresh" /\ \A q \in Runs \ {r} : pc'[q] = pc[q]
      BY <1>1, <2>1
    <2>3. \A q \in Runs \ {r} : pc[q] \notin {"content", "made"}
      BY <2>1 DEF Inv, Permit
    <2>4. /\ \A f \in Files : attempted'[f] >= attempted[f] /\ attempted'[f] >= snap[f]
          /\ attempted' \in Versions
      BY <1>1, <2>1, EndedVersions
    <2>5. \A f \in Files : attempted'[f] \in Nat
      BY <2>4 DEF Versions
    <2>6. ASSUME NEW f \in Files, Handled(f, taken[f]) PROVE Handled(f, taken[f])'
      <3>1. CASE attempted[f] >= taken[f] \/ server.timer \/ server.pending
        BY <1>2, <2>1, <2>4, <2>5, <3>1 DEF Handled
      <3>2. CASE Covers(r, f, taken[f])
        <4>1. snap[f] >= taken[f] \/ f \notin watch
          BY <2>1, <3>2 DEF Covers
        <4>2. QED
          BY <1>2, <2>1, <2>2, <2>4, <2>5, <4>1 DEF Handled, Covers
      <3>3. CASE \E l \in Loops \ {r} : Covers(l, f, taken[f])
        <4>1. PICK l \in Loops \ {r} : Covers(l, f, taken[f])
          BY <3>3
        <4>2. pc'[l] = pc[l] /\ pc[l] \notin {"content", "made"}
          BY <1>1, <2>2, <2>3
        <4>3. Covers(l, f, taken[f])'
          BY <2>1, <4>1, <4>2 DEF Covers
        <4>4. QED
          BY <4>3 DEF Handled
      <3>4. QED
        BY <2>6, <3>1, <3>2, <3>3 DEF Handled
    <2>7. Watched' = Watched /\ watch # None
      BY <1>5, <2>1 DEF Watched
    <2>8. ~server.disposed => \A f \in Watched' : Handled(f, taken[f])'
      <3>1. server.ready
        BY <2>1, LoopFacts
      <3>2. ~server.disposed => \A f \in Watched : Handled(f, taken[f])
        BY <3>1 DEF Inv, Promises, Owed
      <3>3. ASSUME NEW f \in Watched', ~server.disposed
            PROVE  Handled(f, taken[f])'
        <4>1. f \in Files /\ Handled(f, taken[f])
          BY <1>3, <2>7, <3>2, <3>3
        <4>2. QED
          BY <2>6, <4>1
      <3>4. QED
        BY <3>3
    <2>9. QED
      BY <2>1, <2>2, <2>7, <2>8, LoopGoesOn DEF AtWork
  <1>10. CASE NothingToRefresh(r)
    <2>1. /\ pc[r] = "made" /\ BuildEnds /\ Report(r) /\ engine = r
          /\ UNCHANGED <<disk, watch, healthy, taken>>
      BY <1>10 DEF NothingToRefresh, Inv, Permit
    <2>2. watch # None
      BY <1>4, <1>5, <2>1 DEF Runs
    <2>3. /\ \A f \in Files : attempted'[f] >= attempted[f] /\ attempted'[f] >= snap[f]
          /\ attempted' \in Versions
      BY <1>1, <2>1, EndedVersions
    <2>4. \A f \in Files : attempted'[f] \in Nat
      BY <2>3 DEF Versions
    <2>5. \A f \in Files : Covers(r, f, taken[f]) /\ f \in watch
                           => attempted'[f] >= taken[f]
      BY <1>2, <2>1, <2>3, <2>4 DEF Covers
    <2>6. QED
      BY <2>1, <2>2, <2>3, <2>4, <2>5, ReportKeepsPromises
  <1>11. CASE Refreshed(r)
    <2>1. /\ pc[r] = "refresh" /\ Report(r)
          /\ UNCHANGED <<watch, snap, attempted, healthy, taken>>
      BY <1>11 DEF Refreshed
    <2>2. r \in Loops /\ watch # None
      BY <1>4, <1>5, <2>1 DEF Runs
    <2>3. \A f \in Files : ~(Covers(r, f, taken[f]) /\ f \in watch)
      BY <2>1 DEF Covers
    <2>4. QED
      BY <1>1, <1>2, <2>1, <2>2, <2>3, ReportKeepsPromises
  <1>12. CASE ConfigFails(r)
    <2>1. /\ pc[r] = "config" /\ attempted' = disk /\ Report(r)
          /\ ~(r = First /\ healthy)
          /\ UNCHANGED <<watch, snap, healthy, taken>>
      BY <1>12 DEF ConfigFails
    <2>2. QED
      BY <1>2, <2>1, ReportKeepsPromises
  <1>13. CASE FallbackFound(r)
    <2> DEFINE s == [server EXCEPT !.targets = {Config}]
    <2>1. /\ pc[r] = "sync" /\ Continue(r, s)
          /\ UNCHANGED <<watch, snap, attempted, healthy, taken>>
      BY <1>13 DEF FallbackFound
    <2>2. /\ s \in DevServerState /\ s.disposed = server.disposed
          /\ s.ready = server.ready /\ s.timer = server.timer
          /\ s.early = server.early /\ s.pending = server.pending
          /\ s.building = server.building /\ s.targets = {Config}
      BY <1>1 DEF TypeOK, DevServerState, Files
    <2> HIDE DEF s
    <2>3. CASE r = First
      <3>1. watch = None /\ ~healthy /\ ~server.building
        BY <1>4, <2>1, <2>3, FirstFacts
      <3>2. QED
        BY <1>2, <2>1, <2>2, <2>3, <3>1, FirstEnds
    <2>4. CASE r \in Loops
      <3>1. server.building => \E l \in Loops \ {r} : pc[l] \in AtWork
        BY <2>1, <2>4, LoopFacts DEF Inv, Promises, Running, AtWork
      <3>2. s.disposed \/ ~healthy
        BY <1>5, <2>1, <2>2, <2>4
      <3>3. \A f \in Files : attempted'[f] \in Nat /\ attempted'[f] >= attempted[f]
        BY <1>2, <2>1
      <3>4. watch # None =>
                \A f \in watch : Covers(r, f, taken[f]) => attempted'[f] >= taken[f]
        <4>1. \A f : ~Covers(r, f, taken[f])
          BY <2>1 DEF Covers
        <4>2. QED
          BY <4>1
      <3>5. QED
        BY <2>1, <2>2, <2>4, <3>1, <3>2, <3>3, <3>4, LoopEnds
    <2>5. QED
      BY <2>3, <2>4 DEF Runs
  <1>14. QED
    BY <1>6, <1>7, <1>8, <1>9, <1>10, <1>11, <1>12, <1>13 DEF Build

LEMMA TimerKeepsPromises ==
    ASSUME Inv, TimerFires
    PROVE  Promises'
  <1>1. /\ server.timer /\ server.ready /\ ~server.disposed /\ open
        /\ First \notin Loops /\ First \in Runs /\ Loops \subseteq Runs
    BY Inputs DEF TimerFires, Inv, TypeOK, Promises, Running, Runs
  <1>2. UNCHANGED <<watch, snap, attempted, healthy, taken>>
    BY DEF TimerFires
  <1>3. CASE server.building
    <2>1. /\ server' = [server EXCEPT !.timer = FALSE, !.pending = TRUE]
          /\ UNCHANGED <<open, pc>>
      BY <1>3 DEF TimerFires
    <2>2. /\ server'.pending /\ server'.building /\ server'.ready /\ ~server'.timer
          /\ server'.targets = server.targets /\ server'.disposed = server.disposed
      BY <1>1, <1>3, <2>1 DEF Inv, TypeOK, DevServerState
    <2>3. Running' /\ OneAtATime'
      BY <1>1, <1>2, <1>3, <2>1, <2>2
         DEF Inv, Promises, Running, OneAtATime, AtWork
    <2>4. Owed'
      BY <1>1, <2>2 DEF Inv, Promises, Owed, Handled
    <2>5. QED
      BY <2>2, <2>3, <2>4 DEF Promises, Starting
  <1>4. CASE ~server.building
    <2>1. PICK l \in Loops :
            /\ pc[l] = "idle" /\ pc' = [pc EXCEPT ![l] = "build"] /\ open' = TRUE
            /\ server' = [server EXCEPT !.timer = FALSE, !.building = TRUE,
                                        !.pending = FALSE]
      BY <1>4 DEF TimerFires, LoopStarts, Goto
    <2>2. /\ server'.building /\ ~server'.pending /\ server'.ready /\ ~server'.timer
          /\ server'.targets = server.targets /\ server'.disposed = server.disposed
      BY <1>1, <2>1 DEF Inv, TypeOK, DevServerState
    <2>3. /\ pc'[l] = "build" /\ pc'[First] = pc[First]
          /\ \A m \in Loops \ {l} : pc'[m] = pc[m]
      BY <1>1, <2>1 DEF Inv, TypeOK
    <2>4. Running'
      BY <1>1, <1>2, <2>1, <2>2, <2>3 DEF Inv, Promises, Running, AtWork
    <2>5. OneAtATime'
      BY <1>1, <1>2, <1>4, <2>1, <2>2, <2>3 DEF Inv, Promises, OneAtATime
    <2>6. Owed'
      BY <1>1, <2>2, <2>3 DEF Inv, Promises, Owed, Handled, Covers
    <2>7. QED
      BY <2>2, <2>4, <2>5, <2>6 DEF Promises, Starting
  <1>5. QED
    BY <1>3, <1>4

LEMMA ReleaseKeepsPromises ==
    ASSUME Inv, Release
    PROVE  Promises'
  <1>1. /\ server'.disposed /\ ~server'.timer
        /\ server'.ready = server.ready /\ server'.building = server.building
        /\ server'.pending = server.pending /\ server'.targets = server.targets
        /\ UNCHANGED <<watch, pc, healthy>>
    BY DEF Inv, Release, TypeOK, DevServerState
  <1>2. Starting' /\ Running'
    BY <1>1 DEF Inv, Promises, Starting, Running
  <1>3. QED
    BY <1>1, <1>2 DEF Promises, OneAtATime, Owed

----------------------------------------------------------------------------

LEMMA NextInv ==
    ASSUME Inv, [Next]_vars
    PROVE  Inv'
  <1>1. Basics
    BY DEF Inv, Basics
  <1>2. ASSUME NEW f \in Files, Edit(f) \/ OnFileEvent(f) \/ HotUpdate(f)
        PROVE  Inv'
    BY <1>1, <1>2, FilesStep, FilesKeepPromises DEF Inv, Basics
  <1>3. ASSUME NEW r \in Runs, Build(r)
        PROVE  Inv'
    BY <1>1, <1>3, BuildStep, BuildKeepsPromises DEF Inv, Basics
  <1>4. CASE TimerFires
    BY <1>1, <1>4, TimerStep, TimerKeepsPromises DEF Inv, Basics
  <1>5. CASE Release
    BY <1>1, <1>5, ReleaseStep, ReleaseKeepsPromises DEF Inv, Basics
  <1>6. CASE UNCHANGED vars
    <2>1. Basics'
      BY <1>1, <1>6 DEF vars, Basics, TypeOK, NothingIsToCome, Permit, ConfigIsWatched
    <2>2. Promises'
      BY <1>6 DEF Inv, vars, Promises, Starting, Running, OneAtATime, Owed, Watched,
                  Handled, Covers
    <2>3. QED
      BY <2>1, <2>2 DEF Inv, Basics
  <1>7. QED
    BY <1>2, <1>3, <1>4, <1>5, <1>6 DEF Next

(* The inductive invariant: what the server took up of the files it watches,  *)
(* or is about to watch, is handled by a timer, a build that is put off, or    *)
(* one that has not read the file yet; with a config from the start one loop   *)
(* rebuilds at a time, and `settled' is open meanwhile.                        *)
THEOREM Invariance == Spec => []Inv
  <1>1. QED
    BY InitInv, NextInv, PTL DEF Spec

(* The types of the dev server; a released server has no timer, and only a    *)
(* ready one rebuilds (index.ts).                                             *)
THEOREM TypeCorrectness == Spec => []TypeOK
  <1>1. Inv => TypeOK
    BY DEF Inv
  <1>2. QED
    BY <1>1, Invariance, PTL

(* `settled' "settles when the build that picks up the latest content change  *)
(* is done" (index.ts:156-160): whatever timers, events, edits of the config, *)
(* failures and builds come between, while it is resolved a build has dealt   *)
(* with the latest change that the server took up of every target.  Only the  *)
(* overlap of two rebuilds after a start with a broken config has to end      *)
(* first.                                                                     *)
THEOREM SettledIsBuilt == Spec => []SettledMeansBuilt
  <1>1. ASSUME Inv PROVE SettledMeansBuilt
    <2> SUFFICES ASSUME ~open, ~server.disposed,
                        healthy \/ \A l \in Loops : pc[l] = "idle",
                        NEW f \in server.targets
                 PROVE  attempted[f] >= taken[f]
      BY DEF SettledMeansBuilt
    <2>1. server.ready
      BY <1>1 DEF Inv, Promises, Starting
    <2>2. \A l \in Loops : pc[l] = "idle"
      BY <1>1, <2>1 DEF Inv, Promises, OneAtATime
    <2>3. ~server.timer /\ ~server.pending
      BY <1>1, <2>1, <2>2 DEF Inv, Promises, Running
    <2>4. Handled(f, taken[f])
      BY <1>1, <2>1 DEF Inv, Promises, Owed, Watched
    <2>5. QED
      BY <2>2, <2>3, <2>4 DEF Handled, Covers
  <1>2. QED
    BY <1>1, Invariance, PTL

=============================================================================
