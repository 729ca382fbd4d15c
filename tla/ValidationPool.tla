--------------------------- MODULE ValidationPool ---------------------------
(***************************************************************************)
(* The pool of worker threads that validates documents (validateInWorkers, *)
(* packages/core/src/engine/validation-pool.ts, and the worker's side,     *)
(* packages/core/src/worker/validation.ts).                                *)
(*                                                                         *)
(* Workers take the files in batches from one list.  A worker may fail to  *)
(* load the project, die, answer late, or be blocked for ever by a file;   *)
(* its replies and its end reach the pool as messages, later.  What no     *)
(* worker finished goes back to the caller, who validates it himself.      *)
(***************************************************************************)
EXTENDS Integers, FiniteSets

CONSTANTS
    N,          \* files
    BatchSize,
    Workers,    \* workers started at first
    MaxWorkers, \* bound: workers started in all
    Blockers,   \* files that never give their thread back
    None

Files == 1..N
Ids == 1..MaxWorkers

ASSUME Inputs ==
    /\ N \in Nat /\ BatchSize \in Nat \ {0}
    /\ Workers \in Nat \ {0} /\ MaxWorkers \in Nat /\ Workers <= MaxWorkers
    /\ Blockers \subseteq Files
    /\ None \notin {"ok", "unfinished", "ready", "done", "failed"}

VARIABLES
    next,     \* files handed out
    worker,   \* what the pool knows of a worker
    batch,    \* `pending': the files a worker was sent, {} for none
    thread,   \* what the thread of a worker does
    mail,     \* the message of a worker that the pool has not received
    results,  \* the result of every file, None for undefined
    problem,  \* a worker failed
    ready,    \* some worker loaded the project
    aborted,  \* the build was given up
    resolved, \* the pool is done
    stuck     \* files that blocked a thread

vars == <<next, worker, batch, thread, mail, results, problem, ready, aborted,
          resolved, stuck>>

Started(w) == worker[w] # "none"
Live(w) == worker[w] \in {"starting", "busy"}
Runs(w) == thread[w] \in {"loading", "idle", "computing"}

Set(f, ws, value) == [w \in Ids |-> IF w \in ws THEN value ELSE f[w]]

----------------------------------------------------------------------------
(* The threads.                                                            *)

Loads(w) ==
    /\ thread[w] = "loading"
    /\ thread' = [thread EXCEPT ![w] = "idle"]
    /\ mail' = [mail EXCEPT ![w] = "ready"]
    /\ UNCHANGED <<next, worker, batch, results, problem, ready, aborted,
                   resolved, stuck>>

\* All files of a batch are done, none of them a blocker.
Answers(w) ==
    /\ thread[w] = "computing"
    /\ batch[w] \cap Blockers = {}
    /\ thread' = [thread EXCEPT ![w] = "idle"]
    /\ mail' = [mail EXCEPT ![w] = "done"]
    /\ UNCHANGED <<next, worker, batch, results, problem, ready, aborted,
                   resolved, stuck>>

Blocks(w) ==
    /\ thread[w] = "computing"
    /\ \E f \in batch[w] \cap Blockers : stuck' = stuck \cup {f}
    /\ thread' = [thread EXCEPT ![w] = "blocked"]
    /\ UNCHANGED <<next, worker, batch, mail, results, problem, ready, aborted,
                   resolved>>

\* It says that it failed, its reply cannot be sent or read, or it exits: one
\* message, after those it already sent.
Dies(w) ==
    /\ Runs(w)
    /\ mail[w] = None
    /\ thread' = [thread EXCEPT ![w] = "ended"]
    /\ mail' = [mail EXCEPT ![w] = "failed"]
    /\ UNCHANGED <<next, worker, batch, results, problem, ready, aborted,
                   resolved, stuck>>

----------------------------------------------------------------------------
(* The pool: finish, fail, expire, send.                                   *)

Fail(w) ==
    /\ worker' = [worker EXCEPT ![w] = "finished"]
    /\ problem' = TRUE

\* The worker takes the next batch, unless the request cannot be posted.
TakeBatch(w) ==
    LET last == IF next + BatchSize > N THEN N ELSE next + BatchSize
    IN /\ next' = last
       /\ \/ /\ worker' = [worker EXCEPT ![w] = "busy"]
             /\ batch' = [batch EXCEPT ![w] = (next + 1)..last]
             /\ thread' = [thread EXCEPT ![w] =
                              IF @ = "idle" THEN "computing" ELSE @]
             /\ UNCHANGED problem
          \/ /\ Fail(w)
             /\ batch' = [batch EXCEPT ![w] = {}]
             /\ UNCHANGED thread

\* Nothing is left for it, nor for the workers that still load the project.
NothingLeft(w) ==
    /\ worker' = Set(worker, {w} \cup {v \in Ids : worker[v] = "starting"},
                     "finished")
    /\ batch' = [batch EXCEPT ![w] = {}]
    /\ UNCHANGED <<next, thread, problem>>

Send(w) == IF next < N THEN TakeBatch(w) ELSE NothingLeft(w)

ReceiveReady(w) ==
    /\ mail[w] = "ready"
    /\ mail' = [mail EXCEPT ![w] = None]
    /\ IF worker[w] = "starting"
       THEN ready' = TRUE /\ Send(w)
       ELSE UNCHANGED <<next, worker, batch, thread, problem, ready>>
    /\ UNCHANGED <<results, aborted, resolved, stuck>>

\* A worker that was given up is not listened to.
ReceiveResults(w) ==
    /\ mail[w] = "done"
    /\ mail' = [mail EXCEPT ![w] = None]
    /\ IF worker[w] = "busy"
       THEN /\ results' = [f \in Files |-> IF f \in batch[w] THEN "ok"
                                           ELSE results[f]]
            /\ Send(w)
       ELSE UNCHANGED <<next, worker, batch, thread, problem, results>>
    /\ UNCHANGED <<ready, aborted, resolved, stuck>>

ReceiveFailure(w) ==
    /\ mail[w] = "failed"
    /\ mail' = [mail EXCEPT ![w] = None]
    /\ IF Live(w) THEN Fail(w) ELSE UNCHANGED <<worker, problem>>
    /\ UNCHANGED <<next, batch, thread, results, ready, aborted, resolved, stuck>>

\* START_TIMEOUT_MS.
StartLimit(w) ==
    /\ worker[w] = "starting"
    /\ Fail(w)
    /\ UNCHANGED <<next, batch, thread, mail, results, ready, aborted, resolved,
                   stuck>>

GiveBackAtLimit(w) ==
    /\ worker[w] = "busy"
    /\ Fail(w)
    /\ UNCHANGED <<next, batch, thread, mail, results, ready, aborted, resolved,
                   stuck>>

NeverExpires(w) == FALSE

\* BATCH_TIMEOUT_MS: the files fail, and those that wait get a new worker (which
\* may not start).
Expire(w) ==
    /\ worker[w] = "busy"
    /\ results' = [f \in Files |-> IF f \in batch[w] THEN "unfinished"
                                   ELSE results[f]]
    /\ IF next = N
       THEN /\ worker' = [worker EXCEPT ![w] = "finished"]
            /\ UNCHANGED <<thread, problem>>
       ELSE \E v \in Ids :
            /\ ~Started(v) /\ \A u \in Ids : u < v => Started(u)
            /\ \/ /\ worker' = [worker EXCEPT ![w] = "finished", ![v] = "starting"]
                  /\ thread' = [thread EXCEPT ![v] = "loading"]
                  /\ UNCHANGED problem
               \/ /\ worker' = [worker EXCEPT ![w] = "finished", ![v] = "gone"]
                  /\ problem' = TRUE
                  /\ UNCHANGED thread
    /\ UNCHANGED <<next, batch, mail, ready, aborted, resolved, stuck>>

\* The thread is terminated, or sits in a native call for STOP_TIMEOUT_MS and
\* is left there: it runs no JavaScript any more.
Stopped(w) ==
    /\ worker[w] = "finished"
    /\ worker' = [worker EXCEPT ![w] = "gone"]
    /\ thread' = [thread EXCEPT ![w] = "ended"]
    /\ UNCHANGED <<next, batch, mail, results, problem, ready, aborted, resolved,
                   stuck>>

Abort ==
    /\ ~aborted /\ ~resolved
    /\ aborted' = TRUE
    /\ worker' = Set(worker, {w \in Ids : Live(w)}, "finished")
    /\ UNCHANGED <<next, batch, thread, mail, results, problem, ready, resolved,
                   stuck>>

ResolveFirst ==
    /\ ~resolved
    /\ \A w \in 1..Workers : worker[w] = "gone"
    /\ resolved' = TRUE
    /\ UNCHANGED <<next, worker, batch, thread, mail, results, problem, ready,
                   aborted, stuck>>

\* All workers are gone, those that took another's place too.
Resolve ==
    /\ ~resolved
    /\ \A w \in Ids : Started(w) => worker[w] = "gone"
    /\ resolved' = TRUE
    /\ UNCHANGED <<next, worker, batch, thread, mail, results, problem, ready,
                   aborted, stuck>>

----------------------------------------------------------------------------

\* Threads that cannot even be created are gone at once.
Init ==
    /\ next = 0
    /\ \E created \in SUBSET (1..Workers) :
          /\ worker = [w \in Ids |-> IF w > Workers THEN "none"
                                     ELSE IF w \in created THEN "starting"
                                     ELSE "gone"]
          /\ thread = [w \in Ids |-> IF w \in created THEN "loading" ELSE "ended"]
          /\ problem = (created # 1..Workers)
    /\ batch = [w \in Ids |-> {}]
    /\ mail = [w \in Ids |-> None]
    /\ results = [f \in Files |-> None]
    /\ ready = FALSE
    /\ aborted = FALSE
    /\ resolved = FALSE
    /\ stuck = {}

Thread(w) == Loads(w) \/ Answers(w) \/ Blocks(w) \/ Dies(w)
Receive(w) == ReceiveReady(w) \/ ReceiveResults(w) \/ ReceiveFailure(w)
Limits(w) == StartLimit(w) \/ Expire(w)

Next ==
    \/ \E w \in Ids : Thread(w) \/ Receive(w) \/ Limits(w) \/ Stopped(w)
    \/ Abort
    \/ Resolve

\* The pool hears what was sent, its timers fire, and terminate() ends or times
\* out; nothing is assumed of the threads.
Fairness ==
    /\ \A w \in Ids : WF_vars(Receive(w)) /\ WF_vars(Limits(w)) /\ WF_vars(Stopped(w))
    /\ WF_vars(Resolve)

Spec == Init /\ [][Next]_vars /\ Fairness

----------------------------------------------------------------------------
(* Properties.                                                             *)

\* Types; no file is in two batches that are worked on.
TypeOK ==
    /\ next \in 0..N
    /\ worker \in [Ids -> {"none", "starting", "busy", "finished", "gone"}]
    /\ batch \in [Ids -> SUBSET Files]
    /\ thread \in [Ids -> {"loading", "idle", "computing", "blocked", "ended"}]
    /\ mail \in [Ids -> {None, "ready", "done", "failed"}]
    /\ results \in [Files -> {None, "ok", "unfinished"}]
    /\ problem \in BOOLEAN /\ ready \in BOOLEAN
    /\ aborted \in BOOLEAN /\ resolved \in BOOLEAN
    /\ stuck \subseteq Blockers
    /\ \A v, w \in Ids :
          worker[v] = "busy" /\ worker[w] = "busy" /\ v # w
          => batch[v] \cap batch[w] = {}

\* "Resolves only after every worker thread is gone, so nothing of the project
\* runs after it" (validation-pool.ts:168).
NothingRunsAfter == resolved => \A w \in Ids : ~Runs(w)

\* A file that blocked a worker is not run again by the caller: it would block
\* him too (validation-pool.ts:162).
BlockersAreNotGivenBack ==
    resolved /\ ~aborted => \A f \in stuck : results[f] = "unfinished"

\* The pool gives up on nobody for ever: it resolves, whatever the workers do.
PoolResolves == <>resolved

=============================================================================
