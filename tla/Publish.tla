------------------------------ MODULE Publish ------------------------------
(***************************************************************************)
(* The end of a build (runBuild, publishAll and publish of                 *)
(* packages/core/src/engine/engine.service.ts): several outputs - the main *)
(* one and one per scope - are locked, written and announced to hooks.     *)
(*                                                                         *)
(* Builders are processes that build one project.  A lock is the one that  *)
(* OutputLock describes, as long as its holder refreshes it: one holder,   *)
(* and a waiter that gives up after a while.  A write is a whole call of   *)
(* OutputWriter: it brings an output to a version of the content, or fails *)
(* and leaves it mixed, or leaves it as it was.                            *)
(***************************************************************************)
EXTENDS Naturals, Sequences

CONSTANTS
    Builders,
    Scopes,
    Main,     \* the main output
    Orders,   \* orders in which a config can list the scopes
    MaxEdits, \* bound: edits of the content
    Mixed,    \* an output with files of several versions
    None

Outputs == Scopes \cup {Main}

ASSUME Inputs ==
    /\ MaxEdits \in Nat
    /\ Main \notin Scopes
    /\ None \notin Builders
    /\ Mixed \notin Nat

ASSUME OrdersAreComplete ==
    /\ Orders \subseteq Seq(Scopes)
    /\ \A o \in Orders : Len(o) > 0 /\ {o[i] : i \in DOMAIN o} = Scopes

VARIABLES
    content, \* the version of the content on disk
    out,     \* the version of the content every output was made from
    lock,    \* the holder of the lock of every output, or None
    pc,      \* where a build is
    got,     \* the version of the content that it read
    order,   \* the scopes as its config lists them
    at,      \* the scope it has come to
    outcome, \* what its last build said
    whole    \* the last build that wrote a file succeeded

vars == <<content, out, lock, pc, got, order, at, outcome, whole>>

Goto(b, label) == pc' = [pc EXCEPT ![b] = label]
Free(b) == [o \in Outputs |-> IF lock[o] = b THEN None ELSE lock[o]]
Here(b) == order[b][at[b]]
More(b) == at[b] < Len(order[b])

\* Closing the scope of publishAll releases whatever the build has locked.
EndBuild(b, said) ==
    /\ lock' = Free(b)
    /\ outcome' = [outcome EXCEPT ![b] = said]
    /\ at' = [at EXCEPT ![b] = 1]
    /\ Goto(b, "idle")

----------------------------------------------------------------------------

Edit ==
    /\ content < MaxEdits
    /\ content' = content + 1
    /\ UNCHANGED <<out, lock, pc, got, order, at, outcome, whole>>

\* One build of a session at a time: it reads the config and the content, and
\* plans every output.
BuildBegins(b) ==
    /\ pc[b] = "idle"
    /\ got' = [got EXCEPT ![b] = content]
    /\ \E o \in Orders : order' = [order EXCEPT ![b] = o]
    /\ outcome' = [outcome EXCEPT ![b] = "none"]
    /\ Goto(b, "locks")
    /\ UNCHANGED <<content, out, lock, at, whole>>

WaitsForLocksForEver(b) ==
    /\ pc[b] = "before"
    /\ EndBuild(b, "failed")
    /\ UNCHANGED <<content, out, got, order, whole>>

\* A document, a scope or a plan is wrong, a folder is not Anhur's, a lock is
\* not released in time, or a beforePublish hook fails.
FailsBeforeWriting(b) ==
    /\ pc[b] \in {"locks", "main", "before"}
    /\ EndBuild(b, "failed")
    /\ UNCHANGED <<content, out, got, order, whole>>

LockScope(b) ==
    /\ pc[b] = "locks"
    /\ lock[Here(b)] = None
    /\ lock' = [lock EXCEPT ![Here(b)] = b]
    /\ IF More(b)
       THEN at' = [at EXCEPT ![b] = @ + 1] /\ UNCHANGED pc
       ELSE at' = [at EXCEPT ![b] = 1] /\ Goto(b, "main")
    /\ UNCHANGED <<content, out, got, order, outcome, whole>>

WithoutMainLock(b) ==
    /\ pc[b] = "main"
    /\ Goto(b, "before")
    /\ UNCHANGED <<content, out, lock, got, order, at, outcome, whole>>

LockMain(b) ==
    /\ pc[b] = "main"
    /\ lock[Main] = None
    /\ lock' = [lock EXCEPT ![Main] = b]
    /\ Goto(b, "before")
    /\ UNCHANGED <<content, out, got, order, at, outcome, whole>>

\* The beforePublish hooks are done.
WriteMain(b) ==
    /\ pc[b] = "before"
    /\ out' = [out EXCEPT ![Main] = got[b]]
    /\ whole' = FALSE
    /\ Goto(b, "after")
    /\ UNCHANGED <<content, lock, got, order, at, outcome>>

WriteMainFails(b) ==
    /\ pc[b] = "before"
    /\ \E o \in {Mixed, out[Main]} : out' = [out EXCEPT ![Main] = o]
    /\ whole' = FALSE
    /\ EndBuild(b, "failed")
    /\ UNCHANGED <<content, got, order>>

KeepNoScope(b) ==
    /\ pc[b] = "after"
    /\ lock' = Free(b)
    /\ Goto(b, "scopes")
    /\ UNCHANGED <<content, out, got, order, at, outcome, whole>>

\* afterPublish, onSuccess and complete are done: the scope of `publish' closes
\* and the main output is not locked any more.
HooksAreDone(b) ==
    /\ pc[b] = "after"
    /\ lock' = [lock EXCEPT ![Main] = None]
    /\ Goto(b, "scopes")
    /\ UNCHANGED <<content, out, got, order, at, outcome, whole>>

\* One of them throws or does not end (HOOK_TIMEOUT).
HookFails(b) ==
    /\ pc[b] = "after"
    /\ EndBuild(b, "failed")
    /\ UNCHANGED <<content, out, got, order, whole>>

SayTooEarly(b) ==
    /\ pc[b] = "scopes"
    /\ out' = [out EXCEPT ![Here(b)] = got[b]]
    /\ whole' = TRUE
    /\ EndBuild(b, "ok")
    /\ UNCHANGED <<content, got, order>>

WriteScope(b) ==
    /\ pc[b] = "scopes"
    /\ out' = [out EXCEPT ![Here(b)] = got[b]]
    /\ IF More(b)
       THEN /\ at' = [at EXCEPT ![b] = @ + 1]
            /\ UNCHANGED <<lock, pc, outcome, whole>>
       ELSE EndBuild(b, "ok") /\ whole' = TRUE
    /\ UNCHANGED <<content, got, order>>

WriteScopeFails(b) ==
    /\ pc[b] = "scopes"
    /\ \E o \in {Mixed, out[Here(b)]} : out' = [out EXCEPT ![Here(b)] = o]
    /\ EndBuild(b, "failed")
    /\ UNCHANGED <<content, got, order, whole>>

\* The process dies; its locks are stale, and cleared when they are in the way.
Crash(b) ==
    /\ pc[b] # "idle"
    /\ EndBuild(b, "none")
    /\ UNCHANGED <<content, out, got, order, whole>>

----------------------------------------------------------------------------

Init ==
    /\ content = 0
    /\ out = [o \in Outputs |-> 0]
    /\ lock = [o \in Outputs |-> None]
    /\ pc = [b \in Builders |-> "idle"]
    /\ got = [b \in Builders |-> 0]
    /\ order \in [Builders -> Orders]
    /\ at = [b \in Builders |-> 1]
    /\ outcome = [b \in Builders |-> "none"]
    /\ whole = TRUE

Step(b) ==
    \/ LockScope(b) \/ LockMain(b) \/ FailsBeforeWriting(b)
    \/ WriteMain(b) \/ WriteMainFails(b) \/ HooksAreDone(b) \/ HookFails(b)
    \/ WriteScope(b) \/ WriteScopeFails(b)

Next == Edit \/ \E b \in Builders : BuildBegins(b) \/ Step(b) \/ Crash(b)

\* A build that began ends: locks are waited for LOCK_WAIT_MS, writes and hooks
\* have timeouts.
Fairness == \A b \in Builders : WF_vars(Step(b))

Spec == Init /\ [][Next]_vars /\ Fairness

----------------------------------------------------------------------------
(* Properties.                                                             *)

Writing(b) == pc[b] \in {"after", "scopes"}

\* Types; a build writes only what it has locked.
TypeOK ==
    /\ content \in 0..MaxEdits
    /\ out \in [Outputs -> 0..MaxEdits \cup {Mixed}]
    /\ lock \in [Outputs -> Builders \cup {None}]
    /\ pc \in [Builders -> {"idle", "locks", "main", "before", "after", "scopes"}]
    /\ got \in [Builders -> 0..MaxEdits]
    /\ order \in [Builders -> Orders]
    /\ at \in [Builders -> Nat]
    /\ \A b \in Builders : at[b] \in 1..Len(order[b])
    /\ outcome \in [Builders -> {"none", "ok", "failed"}]
    /\ whole \in BOOLEAN
    /\ \A b \in Builders : pc[b] \in {"before", "after"} => lock[Main] = b

\* "no other build writes a scope between the main output and it"
\* (engine.service.ts:758): when nobody writes and the last build that wrote
\* something succeeded, the main output and all scopes are of the same content,
\* also after builds that failed half way or were killed.
OutputsAgree ==
    whole /\ (\A b \in Builders : ~Writing(b)) =>
        \A o \in Outputs : out[o] = out[Main]

\* Whoever has begun to write has every scope it still has to write.
ScopesStayLocked ==
    \A b \in Builders : Writing(b) => \A s \in Scopes : lock[s] = b

\* Builds that lock the scopes in different orders do not wait for each other
\* for ever.
BuildsEnd == \A b \in Builders : pc[b] # "idle" ~> pc[b] = "idle"

=============================================================================
