----------------------------- MODULE OutputLock -----------------------------
(***************************************************************************)
(* The lock file beside an output folder (OutputWriter.lock,               *)
(* packages/core/src/engine/output.service.ts): processes that share a     *)
(* folder create it with a hard link, refresh it while they write, remove  *)
(* it when they are done, and remove the lock of a process that is gone.   *)
(*                                                                         *)
(* Every file system call is a step of its own, so what a process read can *)
(* be out of date when it acts on it.  Processes can be killed, refreshing *)
(* and removing can fail, and a lock that nobody refreshes grows old.      *)
(***************************************************************************)
EXTENDS Naturals

CONSTANTS
    Processes,
    Host,       \* the machine a process runs on
    MaxWaits,   \* LOCK_WAIT_MS / LOCK_POLL
    MaxBuilds,  \* bound: builds of one process
    MaxKills,   \* bound: processes killed
    NoLock

\* `mine': the token is that of the process's current call of `lock';
\* `dead': its pid is gone; `old': startedAt is older than STALE_LOCK_MS.
Lock == [proc : Processes, mine : BOOLEAN, dead : BOOLEAN, old : BOOLEAN]

ASSUME Bounds ==
    /\ MaxWaits \in Nat /\ MaxBuilds \in Nat /\ MaxKills \in Nat
    /\ DOMAIN Host = Processes
    /\ NoLock \notin Processes \cup Lock

VARIABLES
    lock,    \* the lock file, or NoLock
    pc,      \* where a process is in `lock', its write, or the finalizer
    same,    \* the lock file still has the text the process read
    beat,    \* the heartbeat of the lock a process holds
    waits,   \* how often it waited for another process
    builds,  \* builds started by a process
    kills

lockVars == <<lock, pc, same, beat, waits, builds, kills>>

NewLock(p) == [proc |-> p, mine |-> TRUE, dead |-> FALSE, old |-> FALSE]
Owns(p) == lock # NoLock /\ lock.proc = p /\ lock.mine

\* The file changed: nobody has read its present text.
Changed == [p \in Processes |-> FALSE]

Goto(p, label) == pc' = [pc EXCEPT ![p] = label]

----------------------------------------------------------------------------
(* Taking the lock.                                                        *)

Start(p) ==
    /\ pc[p] \in {"idle", "stopped"}
    /\ builds[p] < MaxBuilds
    /\ builds' = [builds EXCEPT ![p] = @ + 1]
    /\ waits' = [waits EXCEPT ![p] = 0]
    /\ lock' = IF Owns(p) THEN [lock EXCEPT !.mine = FALSE] ELSE lock
    /\ Goto(p, "create")
    /\ UNCHANGED <<same, beat, kills>>

TryCreateLock(p) ==
    /\ pc[p] = "create"
    /\ IF lock = NoLock
       THEN /\ lock' = NewLock(p)
            /\ same' = Changed
            /\ beat' = [beat EXCEPT ![p] = "asleep"]
            /\ Goto(p, "hold")
       ELSE /\ Goto(p, "check")
            /\ UNCHANGED <<lock, same, beat>>
    /\ UNCHANGED <<waits, builds, kills>>

StaleOnAnyHost(p) == lock.old \/ lock.dead \/ Host[lock.proc] # Host[p]
StaleByAge(p) == lock.old
Stale(p) == lock.old \/ (lock.dead /\ Host[lock.proc] = Host[p])

\* clearIfStale reads the lock...
Check(p) ==
    /\ pc[p] = "check"
    /\ IF lock = NoLock THEN Goto(p, "create") /\ UNCHANGED same
       ELSE /\ Goto(p, IF Stale(p) THEN "again" ELSE "wait")
            /\ same' = [same EXCEPT ![p] = TRUE]
    /\ UNCHANGED <<lock, beat, waits, builds, kills>>

\* ...reads it again, and removes whatever is there by then.
CheckAgain(p) ==
    /\ pc[p] = "again"
    /\ Goto(p, IF lock # NoLock /\ ~same[p] THEN "wait" ELSE "remove")
    /\ UNCHANGED <<lock, same, beat, waits, builds, kills>>

Remove(p) ==
    /\ pc[p] = "remove"
    /\ lock' = NoLock
    /\ same' = Changed
    /\ Goto(p, "create")
    /\ UNCHANGED <<beat, waits, builds, kills>>

\* The failure is only logged: `lock' tries again at once, without a wait.
RemoveFails(p) ==
    /\ pc[p] = "remove"
    /\ lock # NoLock
    /\ Goto(p, "create")
    /\ UNCHANGED <<lock, same, beat, waits, builds, kills>>

WaitForever(p) ==
    /\ pc[p] = "wait"
    /\ Goto(p, "create")
    /\ UNCHANGED <<lock, same, beat, waits, builds, kills>>

\* Fails with output-locked after the last wait.
Wait(p) ==
    /\ pc[p] = "wait"
    /\ IF waits[p] >= MaxWaits
       THEN Goto(p, "idle") /\ UNCHANGED waits
       ELSE Goto(p, "create") /\ waits' = [waits EXCEPT ![p] = @ + 1]
    /\ UNCHANGED <<lock, same, beat, builds, kills>>

\* The lock cannot be created, or the build is interrupted.
GiveUp(p) ==
    /\ pc[p] \in {"create", "check", "again", "remove", "wait"}
    /\ Goto(p, "stopped")
    /\ UNCHANGED <<lock, same, beat, waits, builds, kills>>

----------------------------------------------------------------------------
(* Holding and releasing it.                                               *)

HeartbeatReads(p) ==
    /\ beat[p] = "asleep"
    /\ beat' = [beat EXCEPT ![p] = IF Owns(p) THEN "refresh" ELSE "off"]
    /\ UNCHANGED <<lock, pc, same, waits, builds, kills>>

\* A rename: the lock of another process is replaced too.
HeartbeatRenames(p) ==
    /\ beat[p] = "refresh"
    /\ lock' = NewLock(p)
    /\ same' = Changed
    /\ beat' = [beat EXCEPT ![p] = "asleep"]
    /\ UNCHANGED <<pc, waits, builds, kills>>

HeartbeatFails(p) ==
    /\ beat[p] # "off"
    /\ beat' = [beat EXCEPT ![p] = "off"]
    /\ UNCHANGED <<lock, pc, same, waits, builds, kills>>

\* The write ended, or was stopped and settled.
EndWrite(p) ==
    /\ pc[p] = "hold"
    /\ Goto(p, "release")
    /\ UNCHANGED <<lock, same, beat, waits, builds, kills>>

\* A stopped write did not settle within SETTLE_WAIT and may still move files:
\* the lock is kept.
KeepLock(p) ==
    /\ pc[p] = "hold"
    /\ Goto(p, "unlocked")
    /\ UNCHANGED <<lock, same, beat, waits, builds, kills>>

\* The finalizer reads the lock, and removes it when the token is its own.
Release(p) ==
    /\ pc[p] = "release"
    /\ Goto(p, IF Owns(p) THEN "unlink" ELSE "unlocked")
    /\ UNCHANGED <<lock, same, beat, waits, builds, kills>>

Unlink(p) ==
    /\ pc[p] = "unlink"
    /\ lock' = NoLock
    /\ same' = Changed
    /\ Goto(p, "unlocked")
    /\ UNCHANGED <<beat, waits, builds, kills>>

UnlinkFails(p) ==
    /\ pc[p] = "unlink"
    /\ Goto(p, "unlocked")
    /\ UNCHANGED <<lock, same, beat, waits, builds, kills>>

LeaveHeartbeat(p) ==
    /\ pc[p] = "unlocked"
    /\ Goto(p, "idle")
    /\ UNCHANGED <<lock, same, beat, waits, builds, kills>>

\* The heartbeat was forked before the finalizer was added, so the scope
\* stops it last.
StopHeartbeat(p) ==
    /\ pc[p] = "unlocked"
    /\ beat' = [beat EXCEPT ![p] = "off"]
    /\ Goto(p, "idle")
    /\ UNCHANGED <<lock, same, waits, builds, kills>>

----------------------------------------------------------------------------
(* Around it.                                                              *)

Kill(p) ==
    /\ kills < MaxKills
    /\ kills' = kills + 1
    /\ lock' = IF lock # NoLock /\ lock.proc = p
               THEN [lock EXCEPT !.dead = TRUE, !.mine = FALSE] ELSE lock
    /\ Goto(p, "idle")
    /\ beat' = [beat EXCEPT ![p] = "off"]
    /\ UNCHANGED <<same, waits, builds>>

\* Ten minutes without a refresh.
GrowOld ==
    /\ lock # NoLock
    /\ ~lock.old
    /\ ~(lock.mine /\ beat[lock.proc] # "off")
    /\ lock' = [lock EXCEPT !.old = TRUE]
    /\ UNCHANGED <<pc, same, beat, waits, builds, kills>>

----------------------------------------------------------------------------

LockInit ==
    /\ lock = NoLock
    /\ pc = [p \in Processes |-> "idle"]
    /\ same = [p \in Processes |-> FALSE]
    /\ beat = [p \in Processes |-> "off"]
    /\ waits = [p \in Processes |-> 0]
    /\ builds = [p \in Processes |-> 0]
    /\ kills = 0

Acquire(p) == TryCreateLock(p) \/ Check(p) \/ CheckAgain(p) \/ Wait(p)
Heartbeat(p) == HeartbeatReads(p) \/ HeartbeatRenames(p) \/ HeartbeatFails(p)
RemoveStale(p) == Remove(p) \/ RemoveFails(p)
Finish(p) == EndWrite(p) \/ KeepLock(p)
LetGo(p) == Release(p) \/ Unlink(p) \/ UnlinkFails(p) \/ StopHeartbeat(p)

LockNext ==
    \/ \E p \in Processes : \/ Start(p) \/ Acquire(p)
                            \/ Remove(p) \/ RemoveFails(p)
                            \/ Heartbeat(p) \/ Finish(p) \/ LetGo(p)
                            \/ GiveUp(p) \/ Kill(p)
    \/ GrowOld

\* Builds go on by themselves, and a write ends (WRITE_TIMEOUT).  Nothing says
\* that a removal ever succeeds.
LockFairness ==
    \A p \in Processes : /\ WF_lockVars(Acquire(p))
                         /\ WF_lockVars(RemoveStale(p))
                         /\ WF_lockVars(Finish(p))
                         /\ WF_lockVars(LetGo(p))

LockSpec == LockInit /\ [][LockNext]_lockVars /\ LockFairness

----------------------------------------------------------------------------
(* Properties.                                                             *)

Labels == {"idle", "create", "check", "again", "remove", "wait", "stopped",
           "hold", "release", "unlink", "unlocked"}

\* Types; only a process with a lock to hold has a heartbeat.
LockTypeOK ==
    /\ lock \in Lock \cup {NoLock}
    /\ pc \in [Processes -> Labels]
    /\ same \in [Processes -> BOOLEAN]
    /\ beat \in [Processes -> {"off", "asleep", "refresh"}]
    /\ waits \in [Processes -> 0..MaxWaits]
    /\ builds \in [Processes -> 0..MaxBuilds]
    /\ kills \in 0..MaxKills
    /\ \A p \in Processes :
          beat[p] # "off" => pc[p] \in {"hold", "release", "unlink", "unlocked"}

\* A process was about to act on what it read of another lock.
ActsOnOutdatedRead(p) ==
    \/ pc[p] = "remove" /\ ~same[p]
    \/ beat[p] = "refresh"
    \/ pc[p] = "unlink"

\* The lock is taken over, or removed under the process that holds it.
TakenFrom(p) ==
    /\ lock # NoLock /\ lock.proc = p /\ ~lock.dead /\ ~lock.old
    /\ pc[p] # "unlink"
    /\ lock' = NoLock \/ (lock' # NoLock /\ lock'.proc # p)

\* The lock of a living process that is fresh, whether it writes or was kept
\* for a stopped write that still moves files, is taken from it only by a
\* process that looked at the file before that lock was there: the windows
\* between clearIfStale's second look and its removal (output.service.ts:265),
\* between the heartbeat's look and its rename (output.service.ts:283), and
\* between the finalizer's look and its removal (output.service.ts:356).
TakenOnlyInAWindow ==
    [][\A p \in Processes :
          TakenFrom(p) => \E q \in Processes \ {p} : ActsOnOutdatedRead(q)]_lockVars

\* A stale lock that cannot be removed: clearIfStale ignores the failure and the
\* loop of `lock' goes round without a wait (output.service.ts:267, 325).
KeepsFailingToRemove(p) == []<><<RemoveFails(p)>>_lockVars

\* A build that wants the lock gets it or is told that it is locked, whatever the
\* others do: the only one that is never answered is one that fails to remove a
\* stale lock again and again.
WaiterIsAnswered ==
    \A p \in Processes :
        \/ pc[p] = "create" ~> pc[p] \in {"hold", "idle", "stopped"}
        \/ KeepsFailingToRemove(p)

\* The lock of a build that was killed does not stop a build on the same
\* machine: while one wants the folder and is not interrupted, that lock goes,
\* if it can be removed at all.
KilledHolderIsCleared ==
    \A p \in Processes :
        \/ /\ pc[p] = "create"
           /\ lock # NoLock /\ lock.dead /\ Host[lock.proc] = Host[p]
           ~> lock = NoLock \/ ~lock.dead \/ pc[p] = "stopped"
        \/ KeepsFailingToRemove(p)

=============================================================================
