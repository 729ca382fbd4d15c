----------------------- MODULE ConcurrentPartsProofs -----------------------
(***************************************************************************)
(* Three parts that processes, threads or fibers share, for every number   *)
(* of them.  The lock of an output folder: that of a living process that   *)
(* refreshes it is lost only to a process that acts on what it read before *)
(* that lock was there.  The pool of validation workers: nothing runs once *)
(* it has resolved, and a file that blocked a thread is not given back to  *)
(* the caller.  The watch session: an edit that was seen is not forgotten. *)
(***************************************************************************)
EXTENDS OutputLock, ValidationPool, Watcher, TLAPS

----------------------------------------------------------------------------
(* The lock.                                                               *)

Clearing == {"again", "remove"}

\* As long as the file has the text that clearIfStale read, it is the lock
\* that was found stale.
SameIsStale ==
    \A p \in Processes :
        same[p] => /\ lock # NoLock
                   /\ pc[p] \in Clearing => lock.old \/ lock.dead

\* A process that clears a lock has made none since it read the file.
OthersReplace ==
    \A p \in Processes :
        pc[p] \in Clearing /\ ~same[p] /\ lock # NoLock => lock.proc # p

LockInv == LockTypeOK /\ SameIsStale /\ OthersReplace

----------------------------------------------------------------------------

LEMMA LockFacts ==
    /\ NoLock \notin Lock
    /\ \A p \in Processes : /\ NewLock(p) \in Lock
                            /\ NewLock(p).proc = p
    /\ Changed \in [Processes -> BOOLEAN]
    /\ \A p \in Processes : ~Changed[p]
  BY Bounds DEF Lock, NewLock, Changed

LEMMA LockInitInv == LockInit => LockInv
  BY Bounds DEF LockInit, LockInv, LockTypeOK, SameIsStale, OthersReplace, Labels, Clearing

----------------------------------------------------------------------------
(* A step at a time.                                                       *)

\* The lock file is as it was, or somebody marked it: its process began anew
\* or died, or it grew old.
Marked ==
    \/ lock' = lock
    \/ /\ lock # NoLock /\ lock' \in Lock
       /\ lock'.proc = lock.proc
       /\ lock.dead => lock'.dead
       /\ lock.old => lock'.old

\* A process does something about its own call, and the lock stays.
LEMMA OwnStepInv ==
    ASSUME LockInv, NEW p \in Processes, Marked, LockTypeOK',
           same' = same,
           \A q \in Processes \ {p} : pc'[q] = pc[q],
           pc'[p] \in Clearing => pc[p] \in Clearing
    PROVE  SameIsStale' /\ OthersReplace'
  BY LockFacts DEF LockInv, Marked, SameIsStale, OthersReplace, LockTypeOK, Lock

LEMMA StartInv ==
    ASSUME LockInv, NEW p \in Processes, Start(p)
    PROVE  LockInv' /\ Marked
  <1> USE DEF LockInv
  <1>1. Marked
    BY LockFacts DEF Start, Marked, LockTypeOK, Owns, Lock
  <1>2. builds' \in [Processes -> 0..MaxBuilds]
    BY Bounds DEF Start, LockTypeOK
  <1>3. waits' \in [Processes -> 0..MaxWaits]
    BY Bounds DEF Start, LockTypeOK
  <1>4. lock' \in Lock \cup {NoLock}
    BY <1>1 DEF Marked, LockTypeOK
  <1>5. LockTypeOK'
    BY <1>2, <1>3, <1>4 DEF Start, LockTypeOK, Goto, Labels
  <1>6. SameIsStale' /\ OthersReplace'
    BY <1>1, <1>5, OwnStepInv DEF Start, Goto, Clearing, LockTypeOK
  <1>7. QED
    BY <1>1, <1>5, <1>6

\* Looking at the file, and waiting.
LEMMA LookInv ==
    ASSUME LockInv, NEW p \in Processes,
           Check(p) \/ CheckAgain(p) \/ Wait(p) \/ GiveUp(p)
    PROVE  LockInv' /\ Marked
  <1> USE DEF LockInv
  <1>1. Marked
    BY DEF Check, CheckAgain, Wait, GiveUp, Marked
  <1>2. LockTypeOK'
    <2>1. waits' \in [Processes -> 0..MaxWaits]
      BY Bounds DEF Check, CheckAgain, Wait, GiveUp, LockTypeOK
    <2>2. QED
      BY <2>1 DEF Check, CheckAgain, Wait, GiveUp, Goto, LockTypeOK, Labels
  <1>3. CASE Check(p)
    <2>1. CASE lock = NoLock
      BY <1>1, <1>2, <1>3, <2>1, OwnStepInv DEF Check, Goto, Clearing, LockTypeOK
    <2>2. CASE lock # NoLock
      <3>1. /\ same'[p] /\ lock' = lock
            /\ pc'[p] = "again" => lock.old \/ lock.dead
            /\ pc'[p] \in {"again", "wait"}
            /\ \A q \in Processes \ {p} : same'[q] = same[q] /\ pc'[q] = pc[q]
        BY <1>3, <2>2 DEF Check, Stale, Goto, LockTypeOK
      <3>2. SameIsStale'
        BY <2>2, <3>1 DEF SameIsStale, Clearing
      <3>3. OthersReplace'
        BY <3>1 DEF OthersReplace, Clearing
      <3>4. QED
        BY <1>1, <1>2, <3>2, <3>3
    <2>3. QED
      BY <2>1, <2>2
  <1>4. CASE CheckAgain(p) \/ Wait(p) \/ GiveUp(p)
    BY <1>1, <1>2, <1>4, OwnStepInv
       DEF CheckAgain, Wait, GiveUp, Goto, Clearing, LockTypeOK
  <1>5. QED
    BY <1>1, <1>2, <1>3, <1>4

\* The lock file is made, replaced or removed: nobody has read what is there
\* now.
LEMMA ChangeInv ==
    ASSUME LockInv, LockTypeOK', NEW p \in Processes,
           same' = Changed,
           lock' \in {NoLock, NewLock(p)},
           \A q \in Processes \ {p} : pc'[q] = pc[q],
           pc'[p] \notin Clearing
    PROVE  SameIsStale' /\ OthersReplace'
  BY LockFacts DEF SameIsStale, OthersReplace

LEMMA TakeInv ==
    ASSUME LockInv, NEW p \in Processes, TryCreateLock(p)
    PROVE  LockInv' /\ (lock # NoLock => lock' = lock)
  <1> USE DEF LockInv
  <1>1. LockTypeOK'
    BY LockFacts DEF TryCreateLock, LockTypeOK, Goto, Labels
  <1>2. CASE lock = NoLock
    <2>1. SameIsStale' /\ OthersReplace'
      BY <1>1, <1>2, ChangeInv DEF TryCreateLock, Goto, Clearing, LockTypeOK
    <2>2. QED
      BY <1>1, <1>2, <2>1
  <1>3. CASE lock # NoLock
    <2>1. SameIsStale' /\ OthersReplace'
      BY <1>1, <1>3, OwnStepInv DEF TryCreateLock, Marked, Goto, Clearing, LockTypeOK
    <2>2. QED
      BY <1>1, <1>3, <2>1 DEF TryCreateLock
  <1>4. QED
    BY <1>2, <1>3

\* Only these three steps take the lock file away or put another there.
LEMMA RemoveInv ==
    ASSUME LockInv, NEW p \in Processes,
           Remove(p) \/ Unlink(p) \/ HeartbeatRenames(p)
    PROVE  LockInv'
  <1> USE DEF LockInv
  <1>1. LockTypeOK'
    BY LockFacts DEF Remove, Unlink, HeartbeatRenames, LockTypeOK, Goto, Labels
  <1>2. pc'[p] \notin Clearing
    BY DEF Remove, Unlink, HeartbeatRenames, Goto, Clearing, LockTypeOK
  <1>3. SameIsStale' /\ OthersReplace'
    BY <1>1, <1>2, ChangeInv DEF Remove, Unlink, HeartbeatRenames, Goto, LockTypeOK
  <1>4. QED
    BY <1>1, <1>3

LEMMA HoldInv ==
    ASSUME LockInv, NEW p \in Processes,
           \/ RemoveFails(p) \/ HeartbeatReads(p) \/ HeartbeatFails(p)
           \/ Finish(p) \/ Release(p) \/ UnlinkFails(p) \/ StopHeartbeat(p)
    PROVE  LockInv' /\ Marked
  <1> USE DEF LockInv
  <1>1. Marked
    BY DEF RemoveFails, HeartbeatReads, HeartbeatFails, Finish, EndWrite,
           KeepLock, Release, UnlinkFails, StopHeartbeat, Marked
  <1>2. LockTypeOK'
    BY DEF RemoveFails, HeartbeatReads, HeartbeatFails, Finish, EndWrite,
           KeepLock, Release, UnlinkFails, StopHeartbeat, LockTypeOK, Goto, Labels
  <1>3. /\ same' = same
        /\ \A q \in Processes \ {p} : pc'[q] = pc[q]
        /\ pc'[p] \in Clearing => pc[p] \in Clearing
    BY DEF RemoveFails, HeartbeatReads, HeartbeatFails, Finish, EndWrite,
           KeepLock, Release, UnlinkFails, StopHeartbeat, LockTypeOK, Goto, Clearing
  <1>4. QED
    BY <1>1, <1>2, <1>3, OwnStepInv

LEMMA KillInv ==
    ASSUME LockInv, NEW p \in Processes, Kill(p)
    PROVE  LockInv' /\ Marked
  <1> USE DEF LockInv
  <1>1. Marked
    BY LockFacts DEF Kill, Marked, LockTypeOK, Lock
  <1>2. kills' \in 0..MaxKills
    BY Bounds DEF Kill, LockTypeOK
  <1>3. LockTypeOK'
    BY <1>1, <1>2 DEF Kill, Marked, LockTypeOK, Goto, Labels
  <1>4. SameIsStale' /\ OthersReplace'
    BY <1>1, <1>3, OwnStepInv DEF Kill, Goto, Clearing, LockTypeOK
  <1>5. QED
    BY <1>1, <1>3, <1>4

LEMMA GrowOldInv ==
    ASSUME LockInv, GrowOld
    PROVE  LockInv' /\ Marked
  <1> USE DEF LockInv
  <1>1. Marked
    BY LockFacts DEF GrowOld, Marked, LockTypeOK, Lock
  <1>2. LockTypeOK'
    BY <1>1 DEF GrowOld, Marked, LockTypeOK
  <1>3. SameIsStale' /\ OthersReplace'
    BY <1>1, <1>2, LockFacts
       DEF GrowOld, Marked, SameIsStale, OthersReplace, LockTypeOK
  <1>4. QED
    BY <1>1, <1>2, <1>3

----------------------------------------------------------------------------

LEMMA LockNextInv == LockInv /\ [LockNext]_lockVars => LockInv'
  <1> SUFFICES ASSUME LockInv, [LockNext]_lockVars PROVE LockInv'
    OBVIOUS
  <1>1. ASSUME NEW p \in Processes, Start(p) PROVE LockInv'
    BY <1>1, StartInv
  <1>2. ASSUME NEW p \in Processes, Acquire(p) \/ GiveUp(p) PROVE LockInv'
    BY <1>2, TakeInv, LookInv DEF Acquire
  <1>3. ASSUME NEW p \in Processes,
               Remove(p) \/ RemoveFails(p) \/ Heartbeat(p) \/ Finish(p) \/ LetGo(p)
        PROVE  LockInv'
    BY <1>3, RemoveInv, HoldInv DEF Heartbeat, LetGo
  <1>4. ASSUME NEW p \in Processes, Kill(p) PROVE LockInv'
    BY <1>4, KillInv
  <1>5. CASE GrowOld
    BY <1>5, GrowOldInv
  <1>6. CASE UNCHANGED lockVars
    BY <1>6 DEF lockVars, LockInv, LockTypeOK, SameIsStale, OthersReplace
  <1>7. QED
    BY <1>1, <1>2, <1>3, <1>4, <1>5, <1>6 DEF LockNext

\* A lock that only grew older, or was marked, is not taken from anybody.
LEMMA MarkedIsNotTaken ==
    ASSUME Marked, NEW p \in Processes
    PROVE  ~TakenFrom(p)
  BY LockFacts DEF Marked, TakenFrom

\* The three windows.
LEMMA TakenInAWindow ==
    ASSUME LockInv, [LockNext]_lockVars, NEW p \in Processes, TakenFrom(p)
    PROVE  \E q \in Processes \ {p} : ActsOnOutdatedRead(q)
  <1> USE DEF LockInv
  <1>1. ASSUME NEW q \in Processes, Remove(q)
        PROVE  q # p /\ ActsOnOutdatedRead(q)
    <2>1. ~same[q]
      BY <1>1 DEF Remove, TakenFrom, SameIsStale, Clearing
    <2>2. QED
      BY <1>1, <2>1
         DEF Remove, TakenFrom, OthersReplace, Clearing, ActsOnOutdatedRead
  <1>2. ASSUME NEW q \in Processes, HeartbeatRenames(q)
        PROVE  q # p /\ ActsOnOutdatedRead(q)
    BY <1>2, LockFacts DEF HeartbeatRenames, TakenFrom, ActsOnOutdatedRead
  <1>3. ASSUME NEW q \in Processes, Unlink(q)
        PROVE  q # p /\ ActsOnOutdatedRead(q)
    BY <1>3 DEF Unlink, TakenFrom, ActsOnOutdatedRead
  <1>4. CASE Marked
    BY <1>4, MarkedIsNotTaken
  <1>5. ASSUME NEW q \in Processes, TryCreateLock(q) PROVE FALSE
    BY <1>5, TakeInv DEF TakenFrom
  <1>6. ASSUME NEW q \in Processes,
               \/ Start(q) \/ Check(q) \/ CheckAgain(q) \/ Wait(q) \/ GiveUp(q)
               \/ RemoveFails(q) \/ HeartbeatReads(q) \/ HeartbeatFails(q)
               \/ Finish(q) \/ Release(q) \/ UnlinkFails(q) \/ StopHeartbeat(q)
               \/ Kill(q)
        PROVE  FALSE
    BY <1>6, StartInv, LookInv, HoldInv, KillInv, MarkedIsNotTaken
  <1>7. CASE GrowOld \/ UNCHANGED lockVars
    BY <1>7, GrowOldInv, MarkedIsNotTaken DEF lockVars, Marked
  <1>8. QED
    BY <1>1, <1>2, <1>3, <1>5, <1>6, <1>7
       DEF LockNext, Acquire, Heartbeat, LetGo

\* The conjunction the results below are read off.
THEOREM LockInvariance == LockSpec => []LockInv
  BY LockInitInv, LockNextInv, PTL DEF LockSpec

\* Every variable has its type, and a process without a lock to hold has no
\* heartbeat (OutputWriter.lock, output.service.ts:160-375).
THEOREM LockTypeCorrectness == LockSpec => []LockTypeOK
  <1>1. LockInv => LockTypeOK
    BY DEF LockInv
  <1>2. QED
    BY <1>1, LockInvariance, PTL

\* However processes start, die, wait and refresh, the fresh lock of a living
\* process is taken from it only in one of the windows in which another acts on
\* what it read earlier (output.service.ts:265, 283 and 356).
THEOREM LockIsTakenOnlyInAWindow == LockSpec => TakenOnlyInAWindow
  <1>1. LockInv /\ [LockNext]_lockVars =>
            [\A p \in Processes :
                TakenFrom(p) =>
                    \E q \in Processes \ {p} : ActsOnOutdatedRead(q)]_lockVars
    BY TakenInAWindow
  <1>2. QED
    BY <1>1, LockInvariance, PTL DEF LockSpec, TakenOnlyInAWindow

----------------------------------------------------------------------------
(* The pool.                                                               *)

Gone == {"none", "gone"}

\* A worker that is gone has no thread any more, and one that works on a batch
\* has nothing left to say.
ThreadsAnswer ==
    \A w \in Ids : /\ worker[w] \in Gone => thread[w] = "ended"
                   /\ thread[w] \in {"computing", "blocked"} => mail[w] = None

\* Files are handed out in order, and a file that is worked on has no result.
BatchesAreOpen ==
    /\ \A f \in Files : results[f] # None => f <= next
    /\ \A w \in Ids : /\ batch[w] \subseteq 1..next
                      /\ worker[w] = "busy" => \A f \in batch[w] : results[f] = None

\* A thread works for the pool, or was given up and its files failed.
ComputingIsKnown ==
    ~aborted =>
        \A w \in Ids :
            thread[w] = "computing" =>
                \/ worker[w] = "busy"
                \/ \A f \in batch[w] : results[f] = "unfinished"

Holds(w, f) == worker[w] = "busy" /\ thread[w] = "blocked" /\ f \in batch[w]

\* A file that blocked a thread failed, or its thread is still waited for.
StuckAreKnown ==
    ~aborted =>
        \A f \in stuck : results[f] = "unfinished" \/ \E w \in Ids : Holds(w, f)

ResolvedIsOver == resolved => \A w \in Ids : worker[w] \in Gone

Inv ==
    /\ TypeOK
    /\ ThreadsAnswer
    /\ BatchesAreOpen
    /\ ComputingIsKnown
    /\ StuckAreKnown
    /\ ResolvedIsOver

----------------------------------------------------------------------------

LEMMA InitInv == Init => Inv
  <1> SUFFICES ASSUME Init PROVE Inv
    OBVIOUS
  <1>1. PICK created \in SUBSET (1..Workers) :
          /\ worker = [w \in Ids |-> IF w > Workers THEN "none"
                                     ELSE IF w \in created THEN "starting"
                                     ELSE "gone"]
          /\ thread = [w \in Ids |-> IF w \in created THEN "loading" ELSE "ended"]
          /\ problem = (created # 1..Workers)
    BY DEF Init
  <1>2. TypeOK
    <2>1. /\ worker \in [Ids -> {"none", "starting", "busy", "finished", "gone"}]
          /\ thread \in [Ids -> {"loading", "idle", "computing", "blocked", "ended"}]
          /\ problem \in BOOLEAN
          /\ \A w \in Ids : worker[w] # "busy"
      BY <1>1
    <2>2. next \in 0..N
      BY Inputs DEF Init
    <2>3. QED
      BY <2>1, <2>2 DEF Init, TypeOK
  <1>3. \A w \in Ids : w > Workers => w \notin created
    BY Inputs DEF Ids
  <1>4. ThreadsAnswer
    BY <1>1, <1>3 DEF Init, ThreadsAnswer, Gone
  <1>5. BatchesAreOpen /\ ComputingIsKnown /\ StuckAreKnown /\ ResolvedIsOver
    BY <1>1 DEF Init, BatchesAreOpen, ComputingIsKnown, StuckAreKnown,
                ResolvedIsOver
  <1>6. QED
    BY <1>2, <1>4, <1>5 DEF Inv

----------------------------------------------------------------------------
(* The threads.                                                            *)

LEMMA ThreadInv ==
    ASSUME Inv, NEW w \in Ids, Thread(w)
    PROVE  Inv'
  <1> USE DEF Inv
  <1>1. /\ UNCHANGED <<next, worker, batch, results, problem, ready, aborted,
                       resolved>>
        /\ \A v \in Ids \ {w} : thread'[v] = thread[v] /\ mail'[v] = mail[v]
    BY DEF Thread, Loads, Answers, Blocks, Dies, TypeOK
  <1>2. TypeOK'
    BY Inputs DEF Thread, Loads, Answers, Blocks, Dies, Runs, TypeOK
  <1>3. BatchesAreOpen' /\ ResolvedIsOver'
    BY <1>1 DEF BatchesAreOpen, ResolvedIsOver
  <1>4. ThreadsAnswer'
    BY <1>1 DEF Thread, Loads, Answers, Blocks, Dies, Runs, ThreadsAnswer, TypeOK,
                Gone
  <1>5. ComputingIsKnown'
    <2>1. thread'[w] # "computing"
      BY DEF Thread, Loads, Answers, Blocks, Dies, TypeOK
    <2>2. QED
      BY <1>1, <2>1 DEF ComputingIsKnown
  <1>6. StuckAreKnown'
    <2>1. \A v \in Ids, f \in Files : Holds(v, f) => Holds(v, f)'
      BY <1>1 DEF Holds, Thread, Loads, Answers, Blocks, Dies, Runs, TypeOK
    <2>2. ASSUME ~aborted', NEW f \in stuck'
          PROVE  results'[f] = "unfinished" \/ \E v \in Ids : Holds(v, f)'
      <3>1. CASE f \in stuck
        BY <1>1, <2>1, <2>2, <3>1, Inputs DEF StuckAreKnown, TypeOK
      <3>2. CASE f \notin stuck
        <4>1. /\ f \in batch[w]
              /\ thread[w] = "computing" /\ thread'[w] = "blocked"
          BY <2>2, <3>2 DEF Thread, Loads, Answers, Blocks, Dies, TypeOK
        <4>2. QED
          BY <1>1, <2>2, <4>1 DEF ComputingIsKnown, Holds
      <3>3. QED
        BY <3>1, <3>2
    <2>3. QED
      BY <2>2 DEF StuckAreKnown
  <1>7. QED
    BY <1>2, <1>3, <1>4, <1>5, <1>6

----------------------------------------------------------------------------
(* The pool.                                                               *)

\* What a worker that has said something is sent next; `ok' is what became of
\* the files it had.
LEMMA SendInv ==
    ASSUME Inv, NEW w \in Ids, Live(w), mail[w] # None,
           mail' = [mail EXCEPT ![w] = None],
           results' \in [Files -> {None, "ok", "unfinished"}],
           \A f \in Files : results'[f] # results[f] =>
              worker[w] = "busy" /\ f \in batch[w],
           Send(w), ready' \in BOOLEAN,
           UNCHANGED <<aborted, resolved, stuck>>
    PROVE  Inv'
  <1> USE DEF Inv
  <1>1. /\ mail' \in [Ids -> {None, "ready", "done", "failed"}]
        /\ mail'[w] = None
        /\ \A v \in Ids \ {w} : mail'[v] = mail[v]
        /\ thread[w] \notin {"computing", "blocked"}
        /\ worker[w] \in {"starting", "busy"}
    BY DEF Live, ThreadsAnswer, TypeOK
  <1>2. /\ next' \in next..N
        /\ worker' \in [Ids -> {"none", "starting", "busy", "finished", "gone"}]
        /\ batch' \in [Ids -> SUBSET Files]
        /\ thread' \in [Ids -> {"loading", "idle", "computing", "blocked", "ended"}]
        /\ problem' \in BOOLEAN
        /\ batch'[w] \subseteq (next + 1)..next'
        /\ worker'[w] \in {"busy", "finished"}
        /\ thread'[w] = "computing" => worker'[w] = "busy"
        /\ thread'[w] # "blocked"
        /\ \A v \in Ids \ {w} : /\ batch'[v] = batch[v]
                                /\ thread'[v] = thread[v]
                                /\ \/ worker'[v] = worker[v]
                                   \/ worker[v] = "starting" /\ worker'[v] = "finished"
    <2>1. CASE next < N
      <3>1. /\ next' \in next..N
            /\ (next + 1)..next' \in SUBSET Files
            /\ {} \subseteq (next + 1)..next'
        BY <2>1, Inputs DEF Send, TakeBatch, TypeOK, Files
      <3>2. /\ \/ /\ worker' = [worker EXCEPT ![w] = "busy"]
                  /\ thread' = [thread EXCEPT ![w] =
                                   IF @ = "idle" THEN "computing" ELSE @]
                  /\ UNCHANGED problem
               \/ Fail(w) /\ UNCHANGED thread
            /\ batch'[w] \in {(next + 1)..next', {}}
            /\ \A v \in Ids \ {w} : batch'[v] = batch[v]
            /\ batch' \in [Ids -> SUBSET Files]
        BY <2>1, <3>1 DEF Send, TakeBatch, TypeOK
      <3>3. /\ worker' \in [Ids -> {"none", "starting", "busy", "finished", "gone"}]
            /\ worker'[w] \in {"busy", "finished"}
            /\ \A v \in Ids \ {w} : worker'[v] = worker[v]
        BY <3>2 DEF Fail, TypeOK
      <3>4. /\ thread' \in [Ids -> {"loading", "idle", "computing", "blocked", "ended"}]
            /\ thread'[w] = "computing" => worker'[w] = "busy"
            /\ thread'[w] # "blocked"
            /\ \A v \in Ids \ {w} : thread'[v] = thread[v]
        BY <1>1, <3>2 DEF TypeOK
      <3>5. problem' \in BOOLEAN
        BY <3>2 DEF Fail, TypeOK
      <3>6. batch'[w] \subseteq (next + 1)..next'
        BY <3>2
      <3>7. QED
        BY <3>1, <3>2, <3>3, <3>4, <3>5, <3>6
    <2>2. CASE ~(next < N)
      BY <1>1, <2>2, Inputs DEF Send, NothingLeft, Set, TypeOK, Files
    <2>3. QED
      BY <2>1, <2>2
  <1>3. \A v \in Ids \ {w} : worker[v] = "busy" =>
            \A f \in batch[v] : results'[f] = results[f]
    BY DEF TypeOK
  <1>4. BatchesAreOpen'
    <2>1. ASSUME NEW f \in Files, results'[f] # None PROVE f <= next'
      BY <1>2, <2>1 DEF BatchesAreOpen, TypeOK, Files
    <2>2. ASSUME NEW v \in Ids
          PROVE  /\ batch'[v] \subseteq 1..next'
                 /\ worker'[v] = "busy" => \A f \in batch'[v] : results'[f] = None
      <3>1. CASE v = w
        <4>1. \A f \in batch'[w] : f \in Files /\ ~(f <= next)
          BY <1>2, Inputs DEF TypeOK, Files
        <4>2. \A f \in batch'[w] : results[f] = None /\ f \notin batch[w]
          BY <4>1 DEF BatchesAreOpen, TypeOK
        <4>3. \A f \in batch'[w] : results'[f] = None
          BY <4>1, <4>2
        <4>4. QED
          BY <1>2, <3>1, <4>3 DEF TypeOK
      <3>2. CASE v # w
        BY <1>2, <1>3, <3>2 DEF BatchesAreOpen, TypeOK
      <3>3. QED
        BY <3>1, <3>2
    <2>3. QED
      BY <2>1, <2>2 DEF BatchesAreOpen
  <1>5. TypeOK'
    <2>1. ASSUME NEW u \in Ids, NEW v \in Ids, u # v,
                 worker'[u] = "busy", worker'[v] = "busy"
          PROVE  batch'[u] \cap batch'[v] = {}
      <3>1. \A x \in Ids \ {w} : batch[x] \subseteq 1..next
        BY DEF BatchesAreOpen
      <3>2. ((next + 1)..next') \cap (1..next) = {}
        BY <1>2 DEF TypeOK
      <3>3. QED
        BY <1>2, <2>1, <3>1, <3>2 DEF TypeOK
    <2>2. next' \in 0..N
      BY <1>2, Inputs DEF TypeOK
    <2>3. QED
      BY <1>1, <1>2, <2>1, <2>2 DEF TypeOK
  <1>6. ThreadsAnswer'
    BY <1>1, <1>2 DEF ThreadsAnswer, Gone
  <1>7. \A f \in Files : results[f] = "unfinished" => results'[f] = "unfinished"
    BY Inputs DEF BatchesAreOpen
  <1>8. ComputingIsKnown'
    BY <1>2, <1>7 DEF ComputingIsKnown, TypeOK
  <1>9. StuckAreKnown'
    <2>1. \A v \in Ids, f \in Files : Holds(v, f) => Holds(v, f)'
      BY <1>1, <1>2 DEF Holds
    <2>2. stuck \subseteq Files
      BY Inputs DEF TypeOK
    <2>3. QED
      BY <1>7, <2>1, <2>2 DEF StuckAreKnown
  <1>10. ResolvedIsOver'
    BY <1>1 DEF ResolvedIsOver, Gone
  <1>11. QED
    BY <1>4, <1>5, <1>6, <1>8, <1>9, <1>10

\* A message of a worker that is not listened to.
LEMMA IgnoreInv ==
    ASSUME Inv, NEW w \in Ids, mail' = [mail EXCEPT ![w] = None],
           UNCHANGED <<next, worker, batch, thread, results, problem, ready,
                       aborted, resolved, stuck>>
    PROVE  Inv'
  BY DEF Inv, TypeOK, ThreadsAnswer, BatchesAreOpen, ComputingIsKnown,
         StuckAreKnown, ResolvedIsOver, Holds

\* A worker with no batch at work is given up.
LEMMA FailInv ==
    ASSUME Inv, NEW w \in Ids, Live(w), Fail(w),
           worker[w] = "busy" => thread[w] \notin {"computing", "blocked"},
           mail' \in {mail, [mail EXCEPT ![w] = None]},
           UNCHANGED <<next, batch, thread, results, ready, aborted, resolved,
                       stuck>>
    PROVE  Inv'
  <1> USE DEF Inv
  <1>1. /\ worker'[w] = "finished" /\ worker[w] \notin Gone
        /\ \A v \in Ids \ {w} : worker'[v] = worker[v]
        /\ \A v \in Ids : mail'[v] \in {None, mail[v]}
    BY DEF Fail, Live, TypeOK, Gone
  <1>2. TypeOK'
    BY <1>1 DEF Fail, TypeOK
  <1>3. ThreadsAnswer'
    BY <1>1 DEF ThreadsAnswer, Gone
  <1>4. BatchesAreOpen'
    BY <1>1 DEF BatchesAreOpen
  <1>5. ComputingIsKnown'
    BY <1>1 DEF ComputingIsKnown
  <1>6. StuckAreKnown'
    BY <1>1 DEF StuckAreKnown, Holds
  <1>7. ResolvedIsOver'
    BY <1>1 DEF ResolvedIsOver
  <1>8. QED
    BY <1>2, <1>3, <1>4, <1>5, <1>6, <1>7

LEMMA ReceiveInv ==
    ASSUME Inv, NEW w \in Ids, Receive(w)
    PROVE  Inv'
  <1> USE DEF Inv
  <1>1. /\ mail[w] # None
        /\ thread[w] \notin {"computing", "blocked"}
    BY Inputs DEF Receive, ReceiveReady, ReceiveResults, ReceiveFailure,
                  ThreadsAnswer
  <1>2. CASE ReceiveReady(w)
    <2>1. CASE worker[w] = "starting"
      BY <1>1, <1>2, <2>1, SendInv DEF ReceiveReady, Live, TypeOK
    <2>2. CASE worker[w] # "starting"
      BY <1>2, <2>2, IgnoreInv DEF ReceiveReady
    <2>3. QED
      BY <2>1, <2>2
  <1>3. CASE ReceiveResults(w)
    <2>1. CASE worker[w] = "busy"
      <3>1. /\ results' \in [Files -> {None, "ok", "unfinished"}]
            /\ \A f \in Files : results'[f] # results[f] => f \in batch[w]
        BY <1>3, <2>1 DEF ReceiveResults, TypeOK
      <3>2. QED
        BY <1>1, <1>3, <2>1, <3>1, SendInv DEF ReceiveResults, Live, TypeOK
    <2>2. CASE worker[w] # "busy"
      BY <1>3, <2>2, IgnoreInv DEF ReceiveResults
    <2>3. QED
      BY <2>1, <2>2
  <1>4. CASE ReceiveFailure(w)
    <2>1. CASE Live(w)
      BY <1>1, <1>4, <2>1, FailInv DEF ReceiveFailure
    <2>2. CASE ~Live(w)
      BY <1>4, <2>2, IgnoreInv DEF ReceiveFailure
    <2>3. QED
      BY <2>1, <2>2
  <1>5. QED
    BY <1>2, <1>3, <1>4 DEF Receive

\* The batch is given up, its files fail; another worker takes over if there
\* are files left.
LEMMA ExpireInv ==
    ASSUME Inv, NEW w \in Ids, Expire(w)
    PROVE  Inv'
  <1> USE DEF Inv
  <1>1. /\ worker[w] = "busy"
        /\ UNCHANGED <<next, batch, mail, ready, aborted, resolved, stuck>>
        /\ results' = [f \in Files |-> IF f \in batch[w] THEN "unfinished"
                                       ELSE results[f]]
    BY DEF Expire
  <1>2. /\ worker' \in [Ids -> {"none", "starting", "busy", "finished", "gone"}]
        /\ thread' \in [Ids -> {"loading", "idle", "computing", "blocked", "ended"}]
        /\ problem' \in BOOLEAN
        /\ worker'[w] = "finished" /\ thread'[w] = thread[w]
        /\ \A v \in Ids \ {w} :
              \/ worker'[v] = worker[v] /\ thread'[v] = thread[v]
              \/ /\ worker[v] = "none"
                 /\ \/ worker'[v] = "starting" /\ thread'[v] = "loading"
                    \/ worker'[v] = "gone" /\ thread'[v] = thread[v]
    <2>1. CASE next = N
      BY <2>1 DEF Expire, TypeOK
    <2>2. CASE next # N
      <3>1. PICK v \in Ids :
              /\ ~Started(v)
              /\ \/ /\ worker' = [worker EXCEPT ![w] = "finished", ![v] = "starting"]
                    /\ thread' = [thread EXCEPT ![v] = "loading"]
                    /\ UNCHANGED problem
                 \/ /\ worker' = [worker EXCEPT ![w] = "finished", ![v] = "gone"]
                    /\ problem' = TRUE
                    /\ UNCHANGED thread
        BY <2>2 DEF Expire
      <3>2. worker[v] = "none" /\ v # w
        BY <1>1, <3>1 DEF Started
      <3>3. problem' \in BOOLEAN
        BY <3>1 DEF TypeOK
      <3>4. CASE /\ worker' = [worker EXCEPT ![w] = "finished", ![v] = "starting"]
                 /\ thread' = [thread EXCEPT ![v] = "loading"]
        BY <3>2, <3>3, <3>4 DEF TypeOK
      <3>5. CASE /\ worker' = [worker EXCEPT ![w] = "finished", ![v] = "gone"]
                 /\ UNCHANGED thread
        BY <3>2, <3>3, <3>5 DEF TypeOK
      <3>6. QED
        BY <3>1, <3>4, <3>5
    <2>3. QED
      BY <2>1, <2>2
  <1>3. /\ results' \in [Files -> {None, "ok", "unfinished"}]
        /\ \A f \in Files : results[f] = "unfinished" => results'[f] = "unfinished"
        /\ \A f \in batch[w] : results'[f] = "unfinished"
        /\ \A f \in Files \ batch[w] : results'[f] = results[f]
    BY <1>1 DEF TypeOK
  <1>4. /\ batch' = batch
        /\ \A v \in Ids : worker'[v] = "busy" => worker[v] = "busy" /\ v # w
    BY <1>1, <1>2
  <1>5. TypeOK'
    BY <1>1, <1>2, <1>3, <1>4 DEF TypeOK
  <1>6. ThreadsAnswer'
    BY <1>1, <1>2, <1>4 DEF ThreadsAnswer, Gone
  <1>7. BatchesAreOpen'
    <2>1. ASSUME NEW f \in Files, results'[f] # None PROVE f <= next'
      <3>1. CASE f \in batch[w]
        BY <1>1, <3>1 DEF BatchesAreOpen, TypeOK, Files
      <3>2. CASE f \notin batch[w]
        BY <1>1, <1>3, <2>1, <3>2 DEF BatchesAreOpen
      <3>3. QED
        BY <3>1, <3>2
    <2>2. ASSUME NEW v \in Ids, worker'[v] = "busy", NEW f \in batch'[v]
          PROVE  results'[f] = None
      <3>1. /\ f \in batch[v] /\ f \in Files /\ f \notin batch[w]
            /\ worker[v] = "busy"
        BY <1>1, <1>4, <2>2 DEF TypeOK
      <3>2. QED
        BY <1>3, <3>1 DEF BatchesAreOpen
    <2>3. QED
      BY <1>1, <2>1, <2>2 DEF BatchesAreOpen
  <1>8. ComputingIsKnown'
    <2>1. ASSUME ~aborted, NEW v \in Ids, thread'[v] = "computing", v # w
          PROVE  \/ worker'[v] = "busy"
                 \/ \A f \in batch'[v] : results'[f] = "unfinished"
      <3>1. \/ worker[v] = "busy"
            \/ \A f \in batch[v] : results[f] = "unfinished"
        BY <1>2, <2>1 DEF ComputingIsKnown
      <3>2. worker[v] = "busy" => worker'[v] = "busy"
        BY <1>2, <2>1
      <3>3. batch[v] \subseteq Files
        BY DEF TypeOK
      <3>4. QED
        BY <1>3, <1>4, <3>1, <3>2, <3>3
    <2>2. QED
      BY <1>1, <1>3, <2>1 DEF ComputingIsKnown
  <1>9. StuckAreKnown'
    <2>1. ASSUME ~aborted, NEW f \in stuck
          PROVE  results'[f] = "unfinished" \/ \E v \in Ids : Holds(v, f)'
      <3>1. f \in Files
        BY Inputs DEF TypeOK
      <3>2. CASE results[f] = "unfinished"
        BY <1>3, <3>1, <3>2
      <3>3. CASE \E v \in Ids : Holds(v, f)
        <4>1. PICK v \in Ids : Holds(v, f)
          BY <3>3
        <4>2. CASE v = w
          BY <1>3, <4>1, <4>2 DEF Holds
        <4>3. CASE v # w
          BY <1>2, <1>4, <4>1, <4>3 DEF Holds
        <4>4. QED
          BY <4>2, <4>3
      <3>4. QED
        BY <2>1, <3>2, <3>3 DEF StuckAreKnown
    <2>2. QED
      BY <1>1, <2>1 DEF StuckAreKnown
  <1>10. ResolvedIsOver'
    BY <1>1 DEF ResolvedIsOver, Gone
  <1>11. QED
    BY <1>5, <1>6, <1>7, <1>8, <1>9, <1>10

LEMMA StoppedInv ==
    ASSUME Inv, NEW w \in Ids, Stopped(w)
    PROVE  Inv'
  <1> USE DEF Inv, Stopped
  <1>1. /\ worker'[w] = "gone" /\ thread'[w] = "ended"
        /\ worker[w] = "finished"
        /\ \A v \in Ids \ {w} : worker'[v] = worker[v] /\ thread'[v] = thread[v]
    BY DEF TypeOK
  <1>2. TypeOK'
    BY <1>1 DEF TypeOK
  <1>3. ThreadsAnswer'
    BY <1>1 DEF ThreadsAnswer
  <1>4. BatchesAreOpen'
    BY <1>1 DEF BatchesAreOpen
  <1>5. ComputingIsKnown'
    BY <1>1 DEF ComputingIsKnown
  <1>6. StuckAreKnown'
    BY <1>1 DEF StuckAreKnown, Holds
  <1>7. ResolvedIsOver'
    BY <1>1 DEF ResolvedIsOver, Gone
  <1>8. QED
    BY <1>2, <1>3, <1>4, <1>5, <1>6, <1>7

LEMMA AbortInv == Inv /\ Abort => Inv'
  <1> SUFFICES ASSUME Inv, Abort PROVE Inv'
    OBVIOUS
  <1> USE DEF Inv
  <1>1. ASSUME NEW v \in Ids
        PROVE  worker'[v] # "busy" /\ (worker'[v] \in Gone => worker[v] \in Gone)
    BY DEF Abort, Set, Live, Gone, TypeOK
  <1>2. worker' \in [Ids -> {"none", "starting", "busy", "finished", "gone"}]
    BY DEF Abort, Set, TypeOK
  <1>3. /\ aborted' = TRUE /\ resolved' = FALSE
        /\ UNCHANGED <<next, batch, thread, mail, results, problem, ready, resolved,
                       stuck>>
    BY DEF Abort, TypeOK
  <1>4. TypeOK'
    BY <1>1, <1>2, <1>3 DEF TypeOK
  <1>5. ThreadsAnswer'
    BY <1>1, <1>3 DEF ThreadsAnswer, Gone
  <1>6. BatchesAreOpen'
    BY <1>1, <1>3 DEF BatchesAreOpen
  <1>7. ComputingIsKnown' /\ StuckAreKnown' /\ ResolvedIsOver'
    BY <1>3 DEF ComputingIsKnown, StuckAreKnown, ResolvedIsOver
  <1>8. QED
    BY <1>4, <1>5, <1>6, <1>7

LEMMA NextInv == Inv /\ [Next]_vars => Inv'
  <1> SUFFICES ASSUME Inv, [Next]_vars PROVE Inv'
    OBVIOUS
  <1>1. ASSUME NEW w \in Ids, Thread(w) PROVE Inv'
    BY <1>1, ThreadInv
  <1>2. ASSUME NEW w \in Ids, Receive(w) PROVE Inv'
    BY <1>2, ReceiveInv
  <1>3. ASSUME NEW w \in Ids, StartLimit(w) PROVE Inv'
    <2>1. Live(w) /\ worker[w] # "busy"
      BY <1>3 DEF StartLimit, Live
    <2>2. QED
      BY <1>3, <2>1, FailInv DEF StartLimit
  <1>4. ASSUME NEW w \in Ids, Expire(w) PROVE Inv'
    BY <1>4, ExpireInv
  <1>5. ASSUME NEW w \in Ids, Stopped(w) PROVE Inv'
    BY <1>5, StoppedInv
  <1>6. CASE Abort
    BY <1>6, AbortInv
  <1>7. CASE Resolve
    BY <1>7 DEF Resolve, Inv, TypeOK, ThreadsAnswer, BatchesAreOpen,
                ComputingIsKnown, StuckAreKnown, Holds, ResolvedIsOver, Started,
                Gone
  <1>8. CASE UNCHANGED vars
    BY <1>8 DEF vars, Inv, TypeOK, ThreadsAnswer, BatchesAreOpen,
                ComputingIsKnown, StuckAreKnown, Holds, ResolvedIsOver
  <1>9. QED
    BY <1>1, <1>2, <1>3, <1>4, <1>5, <1>6, <1>7, <1>8 DEF Next, Limits

----------------------------------------------------------------------------
(* The theorems.                                                           *)

\* The inductive invariant holds in every state the pool reaches.
THEOREM Invariance == Spec => []Inv
  BY InitInv, NextInv, PTL DEF Spec

\* Types are kept, and no file is in two batches that are worked on: `next' only
\* grows, and a batch given up is not handed out again (send, expire).
THEOREM TypeCorrectness == Spec => []TypeOK
  <1>1. Inv => TypeOK
    BY DEF Inv
  <1>2. QED
    BY Invariance, <1>1, PTL

\* Nothing of the project runs once the pool has resolved: it waits for the
\* workers that took another's place too, and a thread is ended before its
\* worker counts as gone (validation-pool.ts:168).
THEOREM NothingRunsOnceResolved == Spec => []NothingRunsAfter
  <1>1. Inv => NothingRunsAfter
    BY DEF Inv, ThreadsAnswer, ResolvedIsOver, NothingRunsAfter, Runs
  <1>2. QED
    BY Invariance, <1>1, PTL

\* A file that blocked a thread is never given back to the caller as one that
\* nobody looked at: its result says that it was not finished.
THEOREM BlockersFail == Spec => []BlockersAreNotGivenBack
  <1>1. Inv => BlockersAreNotGivenBack
    BY DEF Inv, StuckAreKnown, Holds, ResolvedIsOver, Gone,
           BlockersAreNotGivenBack
  <1>2. QED
    BY Invariance, <1>1, PTL

----------------------------------------------------------------------------
(* The watch session.                                                      *)

\* Nobody sees an edit that was not made.
OwedIsSeen ==
    \A f \in Folders : owed[f] <= disk[f] /\ disk[f] <= MaxEdits[f]

\* watchEarly begins once the first build has loaded a config.
EarlyIsFirst ==
    /\ at["early"] \in {"poll", "sync", "keys", "off"}
    /\ at["build"] \in {"build", "content", "publish", "sync", "keys", "wait"}
    /\ at["early"] \in {"sync", "keys"} => at["build"] \notin {"build", "wait"}
    /\ at["early"] = "poll" /\ at["build"] = "build" => loaded = Nothing

ConfIsWanted == loaded = Nothing \/ Conf \in loaded

\* No watcher runs that the next sync would not find.
WatchedAreListed ==
    IF permit = Nothing
    THEN watching \subseteq active /\ active \subseteq targets
    ELSE watching \subseteq now /\ now \cup todo \subseteq Wanted /\ targets = Wanted

WatchInv ==
    /\ WatchTypeOK
    /\ OwedIsSeen
    /\ EarlyIsFirst
    /\ ConfIsWanted
    /\ WatchedAreListed
    /\ EditsAreAccountedFor

----------------------------------------------------------------------------

LEMMA WatchInitInv == WatchInit => WatchInv
<1> SUFFICES ASSUME WatchInit PROVE WatchInv
  OBVIOUS
<1> USE DEF WatchInit
<1>0. /\ MaxEdits \in [Folders -> Nat]
      /\ \A f \in Folders : disk[f] = 0 /\ owed[f] = 0
  BY WatchInputs DEF Versions
<1>1. WatchTypeOK
  <2>1. /\ at \in [Fibers -> {"build", "content", "publish", "sync", "keys",
                              "wait", "poll", "off"}]
        /\ \A p \in Fibers : (at[p] = "keys") = FALSE /\ (permit = p) = FALSE
        /\ at["build"] # "wait"
    BY WatchInputs DEF Fibers
  <2>2. disk \in Versions /\ owed \in Versions /\ built \in Versions
    BY DEF Versions
  <2>3. deletes \in 0..MaxDeletes
    BY WatchInputs
  <2>4. QED BY <2>1, <2>2, <2>3, Zenon DEF WatchTypeOK
<1>2. OwedIsSeen
  <2> SUFFICES ASSUME NEW f \in Folders
               PROVE  owed[f] <= disk[f] /\ disk[f] <= MaxEdits[f]
    BY Zenon DEF OwedIsSeen
  <2>1. owed[f] = 0 /\ disk[f] = 0 /\ MaxEdits[f] \in Nat
    BY <1>0
  <2> HIDE DEF WatchInit
  <2>2. QED BY <2>1
<1>3. EarlyIsFirst /\ ConfIsWanted /\ WatchedAreListed
  BY DEF EarlyIsFirst, ConfIsWanted, WatchedAreListed, Fibers
<1>4. EditsAreAccountedFor
  <2>1. Wanted = {Conf} /\ owed[Conf] = 0 /\ built[Conf] = 0
    BY <1>0, WatchInputs DEF Wanted
  <2>2. at["build"] # "wait"
    BY DEF Fibers
  <2>3. QED BY <2>1, <2>2, SMT DEF EditsAreAccountedFor
<1>5. QED BY <1>1, <1>2, <1>3, <1>4 DEF WatchInv

\* An edit that a watcher sees has an event from then on.
LEMMA TouchWatched ==
  ASSUME WatchInv, NEW f \in Folders, Touch(f), f \in exists, disk[f] < MaxEdits[f],
         watching' \subseteq watching,
         deletes' \in 0..MaxDeletes, exists' \subseteq Folders,
         UNCHANGED <<engine, syncs, changes, at>>
  PROVE  WatchInv'
<1> USE DEF WatchInv, Touch, engine, syncs
<1>0. MaxEdits \in [Folders -> Nat] /\ disk \in [Folders -> Nat] /\ owed \in [Folders -> Nat]
  BY WatchInputs DEF Versions, WatchTypeOK
<1>1. WatchTypeOK'
  <2>1. disk' \in Versions /\ owed' \in Versions
    BY <1>0, SMT DEF Versions
  <2>2. events' \subseteq Folders
    BY DEF WatchTypeOK
  <2>3. QED BY <2>1, <2>2 DEF WatchTypeOK
<1>2. OwedIsSeen'
  BY <1>0, SMTT(30) DEF OwedIsSeen
<1>3. EarlyIsFirst' /\ ConfIsWanted' /\ WatchedAreListed'
  BY DEF EarlyIsFirst, ConfIsWanted, WatchedAreListed, Wanted
<1>4. EditsAreAccountedFor'
  <2> SUFFICES ASSUME NEW g \in Wanted, owed'[g] > built[g], ~changes,
                      at["build"] # "build", ~(at["build"] = "content" /\ g # Conf)
               PROVE  g \in events' \cap targets
    BY Zenon DEF EditsAreAccountedFor, Wanted
  <2>1. CASE g = f /\ f \in watching \cap targets
    BY <2>1
  <2>2. CASE ~(g = f /\ f \in watching \cap targets)
    <3>1. g \in Folders
      BY WatchInputs DEF Wanted, WatchTypeOK
    <3>2. owed'[g] = owed[g]
      BY <2>2, <3>1, <1>0
    <3>3. g \in events \cap targets
      BY <3>2 DEF EditsAreAccountedFor
    <3>4. QED BY <3>3
  <2>3. QED BY <2>1, <2>2
<1>5. QED BY <1>1, <1>2, <1>3, <1>4

LEMMA EditWatched ==
  ASSUME WatchInv, NEW f \in Folders, Edit(f) \/ DeleteFolder(f)
  PROVE  WatchInv'
<1>1. CASE Edit(f)
  BY <1>1, TouchWatched DEF Edit, WatchInv, WatchTypeOK
<1>2. CASE DeleteFolder(f)
  <2>1. deletes' \in 0..MaxDeletes
    BY <1>2, WatchInputs DEF DeleteFolder, WatchInv, WatchTypeOK
  <2>2. QED BY <1>2, <2>1, TouchWatched DEF DeleteFolder, WatchInv, WatchTypeOK
<1>3. QED BY <1>1, <1>2

LEMMA MakeWatched ==
  ASSUME WatchInv, NEW f \in Folders, MakeFolder(f) PROVE WatchInv'
  BY WatchInputs, SMTT(30)
  DEF MakeFolder,
      WatchInv, WatchTypeOK, OwedIsSeen, EarlyIsFirst, ConfIsWanted,
      WatchedAreListed, EditsAreAccountedFor, Versions, Fibers, Wanted,
      disks, engine, syncs

\* The event of a wanted folder becomes a change in the queue.
LEMMA EventWatched ==
  ASSUME WatchInv, NEW f \in Folders, FileEvent(f) PROVE WatchInv'
<1> USE DEF WatchInv, FileEvent, disks, engine, syncs
<1>1. WatchTypeOK'
  BY DEF WatchTypeOK
<1>2. OwedIsSeen' /\ EarlyIsFirst' /\ ConfIsWanted' /\ WatchedAreListed'
  BY DEF OwedIsSeen, EarlyIsFirst, ConfIsWanted, WatchedAreListed, Wanted
<1>3. EditsAreAccountedFor'
  <2>1. Wanted' = Wanted
    BY DEF Wanted
  <2>2. ASSUME ~changes' PROVE ~changes /\ (events' \cap targets = events \cap targets)
    BY <2>2
  <2>3. QED BY <2>1, <2>2, Zenon DEF EditsAreAccountedFor
<1>4. QED BY <1>1, <1>2, <1>3

\* The rebuild reads everything that the queue was forgotten for.
LEMMA RebuildWatched ==
  ASSUME WatchInv, Rebuild PROVE WatchInv'
<1> USE DEF WatchInv, Rebuild, StepTo, disks, engine, syncs
<1>0. at' = [at EXCEPT !["build"] = "build"] /\ at["early"] = "off"
  BY DEF WatchTypeOK
<1>1. WatchTypeOK'
  BY <1>0 DEF WatchTypeOK, Fibers
<1>2. OwedIsSeen' /\ EarlyIsFirst' /\ ConfIsWanted' /\ WatchedAreListed'
  BY <1>0 DEF WatchTypeOK, OwedIsSeen, EarlyIsFirst, ConfIsWanted, WatchedAreListed, Wanted, Fibers
<1>3. EditsAreAccountedFor'
  BY <1>0 DEF WatchTypeOK, EditsAreAccountedFor, Wanted, Fibers
<1>4. QED BY <1>1, <1>2, <1>3

\* A config that is loaded names other folders, which are read after it.
LEMMA BuildsWatched ==
  ASSUME WatchInv, Builds PROVE WatchInv'
<1>1. CASE ConfigLoads
  BY <1>1, WatchInputs, SMTT(30)
  DEF ConfigLoads, StepTo, WatchInv, WatchTypeOK, OwedIsSeen, EarlyIsFirst, ConfIsWanted,
      WatchedAreListed, EditsAreAccountedFor, Versions, Fibers, Wanted,
      disks, engine, syncs
<1>2. CASE ConfigFails
  BY <1>2, WatchInputs, SMTT(30)
  DEF ConfigFails, StepTo, WatchInv, WatchTypeOK, OwedIsSeen, EarlyIsFirst, ConfIsWanted,
      WatchedAreListed, EditsAreAccountedFor, Versions, Fibers, Wanted,
      disks, engine, syncs
<1>3. CASE ContentIsRead
  BY <1>3, WatchInputs, SMTT(30)
  DEF ContentIsRead, StepTo, WatchInv, WatchTypeOK, OwedIsSeen, EarlyIsFirst, ConfIsWanted,
      WatchedAreListed, EditsAreAccountedFor, Versions, Fibers, Wanted,
      disks, engine, syncs
<1>4. CASE BuildEnds
  BY <1>4, WatchInputs, SMTT(30)
  DEF BuildEnds, StepTo, WatchInv, WatchTypeOK, OwedIsSeen, EarlyIsFirst, ConfIsWanted,
      WatchedAreListed, EditsAreAccountedFor, Versions, Fibers, Wanted,
      disks, engine, syncs
<1>5. QED BY <1>1, <1>2, <1>3, <1>4, RebuildWatched DEF Builds

LEMMA PollWatched ==
  ASSUME WatchInv, PollEarly PROVE WatchInv'
  BY WatchInputs, SMTT(30)
  DEF PollEarly, StepTo,
      WatchInv, WatchTypeOK, OwedIsSeen, EarlyIsFirst, ConfIsWanted,
      WatchedAreListed, EditsAreAccountedFor, Versions, Fibers, Wanted,
      disks, engine, syncs

\* Only events of folders that are no longer wanted are dropped.
LEMMA SyncBeginsWatched ==
  ASSUME WatchInv, NEW p \in Fibers, SyncBegins(p) PROVE WatchInv'
  BY WatchInputs, SMTT(30)
  DEF SyncBegins, Unwanted, Kept, StepTo,
      WatchInv, WatchTypeOK, OwedIsSeen, EarlyIsFirst, ConfIsWanted,
      WatchedAreListed, EditsAreAccountedFor, Versions, Fibers, Wanted,
      disks, engine, syncs

LEMMA SyncFolderWatched ==
  ASSUME WatchInv, NEW p \in Fibers, NEW f \in Folders,
         SyncFolder(p, f)
  PROVE  WatchInv'
  BY WatchInputs, SMTT(30)
  DEF SyncFolder,
      WatchInv, WatchTypeOK, OwedIsSeen, EarlyIsFirst, ConfIsWanted,
      WatchedAreListed, EditsAreAccountedFor, Versions, Fibers, Wanted,
      disks, engine, syncs

\* One fiber syncs, so what it found running is all that runs.
LEMMA SyncEndsWatched ==
  ASSUME WatchInv, NEW p \in Fibers, SyncEnds(p) PROVE WatchInv'
  BY WatchInputs, SMTT(30)
  DEF SyncEnds, StepTo,
      WatchInv, WatchTypeOK, OwedIsSeen, EarlyIsFirst, ConfIsWanted,
      WatchedAreListed, EditsAreAccountedFor, Versions, Fibers, Wanted,
      disks, engine, syncs

LEMMA WatchNextInv == WatchInv /\ [WatchNext]_watchVars => WatchInv'
<1> SUFFICES ASSUME WatchInv, [WatchNext]_watchVars PROVE WatchInv'
  OBVIOUS
<1>1. CASE \E f \in Folders : \/ Edit(f) \/ DeleteFolder(f) \/ MakeFolder(f)
                             \/ FileEvent(f)
  BY <1>1, EditWatched, MakeWatched, EventWatched
<1>2. CASE Builds
  BY <1>2, BuildsWatched
<1>3. CASE PollEarly
  BY <1>3, PollWatched
<1>4. CASE \E p \in Fibers : Syncs(p)
  BY <1>4, SyncBeginsWatched, SyncFolderWatched, SyncEndsWatched DEF Syncs
<1>5. CASE UNCHANGED watchVars
  BY <1>5, Zenon DEF watchVars, WatchInv, WatchTypeOK, OwedIsSeen, EarlyIsFirst,
     ConfIsWanted, WatchedAreListed, EditsAreAccountedFor, Wanted,
     disks, engine, syncs
<1>6. QED BY <1>1, <1>2, <1>3, <1>4, <1>5 DEF WatchNext

\* A watched session is in a state in which every edit is accounted for and the
\* watchers are those a sync listed.
THEOREM WatchInvariance == WatchSpec => []WatchInv
<1>1. WatchInit => WatchInv
  BY WatchInitInv
<1>2. WatchInv /\ [WatchNext]_watchVars => WatchInv'
  BY WatchNextInv
<1>3. QED BY <1>1, <1>2, PTL DEF WatchSpec

\* The folders are synced by one fiber at a time, and the one that syncs early
\* (watchEarly) does not outlive the first build.
THEOREM WatchTypeCorrectness == WatchSpec => []WatchTypeOK
<1>1. WatchInv => WatchTypeOK
  BY DEF WatchInv
<1>2. QED BY <1>1, WatchInvariance, PTL

\* However edits, events, builds and syncs interleave, an edit that a watcher
\* saw (watchFolder, rebuild, syncNow) is built, read by the running build, or
\* has an event or a change in the queue that starts one.
THEOREM SeenEditsAreAccountedFor == WatchSpec => []EditsAreAccountedFor
<1>1. WatchInv => EditsAreAccountedFor
  BY DEF WatchInv
<1>2. QED BY <1>1, WatchInvariance, PTL

=============================================================================
