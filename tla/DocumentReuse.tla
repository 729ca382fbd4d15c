--------------------------- MODULE DocumentReuse ---------------------------
(***************************************************************************)
(* When a validated document is made again and when it is reused:          *)
(* Collector.validate with checkFile, reuseUnchanged and validateFresh     *)
(* (packages/core/src/engine/collector.service.ts), the signatures of      *)
(* file-signature.ts, the document store and the field cache.              *)
(*                                                                         *)
(* A document is made from its own file, from files its pure fields read   *)
(* (Pure) and from files a cached field reads (Cached).  Sessions are      *)
(* processes that share the store and the field cache; files are edited    *)
(* while they build.  A config stands for everything else a document is    *)
(* made with: project fingerprint, asset base, location, stamp.            *)
(***************************************************************************)
EXTENDS Integers

CONSTANTS
    Sessions,
    Docs,            \* content files, a document each
    Pure, Cached,    \* files the fields of a document report
    Texts, Configs,
    Uses,            \* the files the fields of a document with a text read
    TimeStep,        \* of the time stamps of the file system
    RacyWindow,      \* RACY_WINDOW_MS
    Replaceable,     \* files that another, older file may be moved over
    MaxTime, MaxReplaces,    \* bounds
    None

Deps == Pure \cup Cached
Files == Docs \cup Deps

Signature == [mtime : Nat, ino : Nat]
Entry == [config : Configs, text : Texts, sig : Signature, readAt : Nat,
          deps : [Deps -> Signature \cup {None}], depsAt : Nat,
          used : [Deps -> Texts \cup {None}],
          stored : BOOLEAN]
Build == [config : Configs, readAt : Nat, dry : BOOLEAN,
          memo : [Files -> Signature \cup {None}]]
Steps == {"idle", "check", "compare", "dependencies", "reused", "stale",
          "load", "lookup", "compile", "fresh", "failed"}
Job == [pc : Steps, entry : Entry \cup {None}, fromStore : BOOLEAN,
        text : Texts \cup {None}, used : [Deps -> Texts \cup {None}],
        hit : BOOLEAN]
Field == [states : [Cached -> Signature \cup {None}],
          values : [Cached -> Texts \cup {None}]]

ASSUME Windows == /\ TimeStep \in Nat \ {0}
                  /\ RacyWindow \in Nat
                  /\ TimeStep <= RacyWindow + 1
ASSUME Kinds == /\ Docs \cap Deps = {}
                /\ Pure \cap Cached = {}
                /\ Uses \in [Texts -> SUBSET Deps]
                /\ Replaceable \subseteq Docs
ASSUME Bounds == MaxTime \in Nat /\ MaxReplaces \in Nat
ASSUME NoneIsNone ==
    /\ None \notin Texts \cup Configs
    /\ None \notin Signature /\ None \notin Entry
    /\ None \notin Build /\ None \notin Field

VARIABLES
    now,
    text,     \* what is in each file
    state,    \* what stat says about it
    hasty,    \* history: files of cached fields whose state hid an edit
    store,    \* the document store
    fields,   \* the field cache: by what the key of a field covers
    cache,    \* per session, the documents of earlier builds
    build,    \* per session, the running build or None
    job,      \* per session and document, what validate does with it
    seen,     \* history: the texts a file had since the build began
    calm      \* history: the config of a build nothing has changed since

disk == <<now, text, state, hasty>>
vars == <<now, text, state, hasty, store, fields, cache, build, job, seen, calm>>

Idle == [pc |-> "idle", entry |-> None, fromStore |-> FALSE, text |-> None,
         used |-> [f \in Deps |-> None], hit |-> FALSE]

-----------------------------------------------------------------------------
(* The files.                                                              *)

\* The time stamp of a file modified at t.
Coarse(t) == t - (t % TimeStep)

\* A compile of session s has read f, and nobody has looked at its state.
ReadUnlooked(s, f) ==
    /\ build[s] # None
    /\ build[s].memo[f] = None
    /\ \E d \in Docs : f \in Deps /\ job[s][d].used[f] # None

Witness(f, t) ==
    /\ text' = [text EXCEPT ![f] = t]
    /\ seen' = [s \in Sessions |->
                   IF build[s] = None THEN seen[s]
                   ELSE [seen[s] EXCEPT ![f] = @ \cup {t}]]
    /\ calm' = [s \in Sessions |-> None]
    /\ UNCHANGED <<now, store, fields, cache, build, job>>

\* The next edit of f gets the time stamp of the one before, or comes between
\* the read of a compile and the stat after it.
Hides(f) == state[f].mtime = Coarse(now) \/ \E s \in Sessions : ReadUnlooked(s, f)

Edit(f) ==
    /\ \E t \in Texts \ {text[f]} : Witness(f, t)
    /\ state' = [state EXCEPT ![f].mtime = Coarse(now)]
    /\ hasty' = IF f \in Cached /\ Hides(f) THEN hasty \cup {f}
                ELSE IF \A s \in Sessions : build[s] = None THEN hasty \ {f}
                ELSE hasty

\* A file that keeps its old time stamp is moved here: another inode.
Replace(f) ==
    /\ f \in Replaceable
    /\ state[f].ino < MaxReplaces
    /\ \E t \in Texts \ {text[f]} : Witness(f, t)
    /\ state' = [state EXCEPT ![f] = [mtime |-> 0, ino |-> @.ino + 1]]
    /\ UNCHANGED hasty

Tick ==
    /\ now < MaxTime
    /\ now' = now + 1
    /\ UNCHANGED <<text, state, hasty, store, fields, cache, build, job, seen, calm>>

-----------------------------------------------------------------------------
(* What a signature proves.                                                *)

SettledAtOnce(mtime, readAt) == TRUE                              \* mutant
IsSettled(mtime, readAt) == mtime < readAt - RacyWindow

ProvesUnchanged(then, cur, readAt) ==
    then = cur /\ IsSettled(cur.mtime, readAt)

DependencyUnchanged(e, f, cur) ==
    e.deps[f] = cur /\ IsSettled(e.deps[f].mtime, e.depsAt)

-----------------------------------------------------------------------------
(* One build of a session.  Each file is looked at once (SignatureMemo).   *)

Memo(s) == build[s].memo
Known(s, F) == \A f \in F : Memo(s)[f] # None
Look(s, f) == IF Memo(s)[f] = None THEN state[f] ELSE Memo(s)[f]
Remember(s, f) == [build EXCEPT ![s].memo[f] = Look(s, f)]

\* What the document of a job is made from.
UsedBy(j) == Uses[j.text]
CachedOf(j) == UsedBy(j) \cap Cached
HasRead(j, F) == \A f \in F : j.used[f] # None

\* What an earlier build left: in this session, else in the store.
Candidate(s, d) == IF cache[s][d] # None THEN cache[s][d] ELSE store[d]

\* Bound: a dry run (`anhur check`) comes where nothing is remembered.
MayCheck(s) == \A d \in Docs : Candidate(s, d) = None

BeginBuild(s, c, dry) ==
    /\ build[s] = None
    /\ dry => MayCheck(s)
    /\ build' = [build EXCEPT ![s] =
                    [config |-> c, readAt |-> now, dry |-> dry,
                     memo |-> [f \in Files |-> None]]]
    /\ job' = [job EXCEPT ![s] = [d \in Docs |-> [Idle EXCEPT !.pc = "check"]]]
    /\ seen' = [seen EXCEPT ![s] = [f \in Files |-> {text[f]}]]
    /\ UNCHANGED <<disk, store, fields, cache, calm>>

\* Made with the same project, asset base, location and stamp.
Usable(s, e) == e # None /\ e.config = build[s].config

\* reuseUnchanged and the first half of checkFile.
CheckFile(s, d) ==
    LET e == Candidate(s, d)
        usable == Usable(s, e)
        next == IF ~usable THEN "stale"
                ELSE IF ProvesUnchanged(e.sig, Look(s, d), e.readAt)
                     THEN "dependencies" ELSE "compare"
    IN  /\ job[s][d].pc = "check"
        /\ build' = Remember(s, d)
        /\ job' = [job EXCEPT ![s][d] =
                      [Idle EXCEPT !.pc = next,
                                   !.entry = IF usable THEN e ELSE None,
                                   !.fromStore = usable /\ cache[s][d] = None]]
        /\ UNCHANGED <<disk, store, fields, cache, seen, calm>>

NoCompare(s, d) ==                                                \* mutant
    /\ job[s][d].pc = "compare"
    /\ job' = [job EXCEPT ![s][d].pc = "dependencies",
                          ![s][d].text = job[s][d].entry.text]
    /\ UNCHANGED <<disk, store, fields, cache, build, seen, calm>>
\* hashIs: the file is read, and kept for the compile if it is another text.
CompareContent(s, d) ==
    LET j == job[s][d]
    IN  /\ j.pc = "compare"
        /\ job' = [job EXCEPT ![s][d] =
                      IF text[d] = j.entry.text
                      THEN [j EXCEPT !.pc = "dependencies", !.text = text[d]]
                      ELSE [Idle EXCEPT !.pc = "stale", !.text = text[d]]]
        /\ UNCHANGED <<disk, store, fields, cache, build, seen, calm>>

\* A file whose state somebody waits for: to compare the dependencies of an
\* entry, to look a field up, to keep a field or a document.
Wanted(s, f) ==
    \E d \in Docs :
        LET j == job[s][d]
        IN  \/ j.pc = "dependencies" /\ f \in Uses[j.entry.text]
            \/ j.pc = "lookup" /\ f \in CachedOf(j)
            \/ /\ j.pc = "compile" /\ f \in CachedOf(j)
               /\ ~build[s].dry /\ HasRead(j, CachedOf(j))
            \/ j.pc = "compile" /\ f \in UsedBy(j) /\ HasRead(j, UsedBy(j))

Stat(s, f) ==
    /\ f \in Deps
    /\ build[s] # None
    /\ Memo(s)[f] = None
    /\ Wanted(s, f)
    /\ build' = Remember(s, f)
    /\ UNCHANGED <<disk, store, fields, cache, job, seen, calm>>

\* dependenciesMatch, storedEffects: the first difference settles it.
DependencyChanged(s, d) ==
    LET j == job[s][d]
    IN  /\ j.pc = "dependencies"
        /\ \E f \in Uses[j.entry.text] :
              /\ Memo(s)[f] # None
              /\ ~DependencyUnchanged(j.entry, f, Memo(s)[f])
        /\ job' = [job EXCEPT ![s][d] =
                      [Idle EXCEPT !.pc = "stale", !.text = j.text]]
        /\ UNCHANGED <<disk, store, fields, cache, build, seen, calm>>

\* An entry is written beside and renamed: one that fails or is interrupted
\* leaves what was there, and is not an error.
Written(kept, k, e) == {kept, [kept EXCEPT ![k] = e]}

\* watch: the states of the files in F, as this build sees them.
StatesOf(s, D, F) == [f \in D |-> IF f \in F THEN Memo(s)[f] ELSE None]

NeverRefreshed(s, d) == job[s][d].entry                           \* mutant
\* The entry after a comparison: it is as old as this build.
Refreshed(s, d) ==
    LET j == job[s][d]
        read == [j.entry EXCEPT !.sig = Memo(s)[d], !.readAt = build[s].readAt]
    IN  IF j.text = None THEN j.entry
        ELSE IF j.fromStore
             THEN [read EXCEPT !.deps = StatesOf(s, Deps, Uses[j.text]),
                               !.depsAt = build[s].readAt]
             ELSE read

Reuse(s, d) ==
    LET j == job[s][d]
        e == [Refreshed(s, d) EXCEPT !.stored = @ \/ j.fromStore]
    IN  /\ j.pc = "dependencies"
        /\ Known(s, Uses[j.entry.text])
        /\ \A f \in Uses[j.entry.text] : DependencyUnchanged(j.entry, f, Memo(s)[f])
        /\ job' = [job EXCEPT ![s][d] = [Idle EXCEPT !.pc = "reused", !.entry = e]]
        /\ cache' = [cache EXCEPT ![s][d] = e]
        /\ store' \in IF /\ j.fromStore /\ j.text # None /\ ~build[s].dry
                         /\ IsSettled(Memo(s)[d].mtime, build[s].readAt)
                     THEN Written(store, d, e) ELSE {store}
        /\ UNCHANGED <<disk, fields, build, seen, calm>>

\* Every file is checked: a stale document is forgotten before it is made
\* again, so that a failure leaves nothing to reuse.
BeginValidating(s) ==
    /\ build[s] # None
    /\ \A d \in Docs : job[s][d].pc \in {"reused", "stale"}
    /\ \E d \in Docs : job[s][d].pc = "stale"
    /\ job' = [job EXCEPT ![s] =
                  [d \in Docs |-> IF @[d].pc = "stale"
                                  THEN [@[d] EXCEPT !.pc = "load"] ELSE @[d]]]
    /\ cache' = [cache EXCEPT ![s] =
                    [d \in Docs |-> IF job[s][d].pc = "stale" THEN None ELSE @[d]]]
    /\ UNCHANGED <<disk, store, fields, build, seen, calm>>

Load(s, d) ==
    LET j == job[s][d]
    IN  /\ j.pc = "load"
        /\ job' = [job EXCEPT ![s][d] =
                      [j EXCEPT !.pc = "lookup",
                                !.text = IF j.text = None THEN text[d] ELSE j.text]]
        /\ UNCHANGED <<disk, store, fields, cache, build, seen, calm>>

\* lookupField: the key covers the text and the config, the states of the
\* files the value was made from are compared without a time.
Lookup(s, d) ==
    LET j == job[s][d]
        kept == fields[<<build[s].config, j.text>>]
        hit == kept # None /\ \A f \in CachedOf(j) : kept.states[f] = Memo(s)[f]
    IN  /\ j.pc = "lookup"
        /\ kept # None => Known(s, CachedOf(j))
        /\ job' = [job EXCEPT ![s][d] =
                      [j EXCEPT !.pc = "compile", !.hit = hit,
                                !.used = [f \in Deps |->
                          IF hit /\ f \in Cached THEN kept.values[f] ELSE None]]]
        /\ UNCHANGED <<disk, store, fields, cache, build, seen, calm>>

\* A field that is compiled reads its files one by one.
CompileReads(s, d, f) ==
    /\ job[s][d].pc = "compile"
    /\ f \in UsedBy(job[s][d]) /\ job[s][d].used[f] = None
    /\ job' = [job EXCEPT ![s][d].used[f] = text[f]]
    /\ UNCHANGED <<disk, store, fields, cache, build, seen, calm>>

\* finishField: look at the files after the compile, keep the value.
KeepField(s, d) ==
    LET j == job[s][d]
    IN  /\ j.pc = "compile" /\ ~j.hit /\ ~build[s].dry
        /\ HasRead(j, CachedOf(j))
        /\ Known(s, CachedOf(j))
        /\ fields' = [fields EXCEPT ![<<build[s].config, j.text>>] =
                         [states |-> StatesOf(s, Cached, CachedOf(j)),
                          values |-> [f \in Cached |-> j.used[f]]]]
        /\ job' = [job EXCEPT ![s][d].hit = TRUE]
        /\ UNCHANGED <<disk, store, cache, build, seen, calm>>

Made(s, d) ==
    LET j == job[s][d]
    IN  [config |-> build[s].config, text |-> j.text, sig |-> Memo(s)[d],
         readAt |-> build[s].readAt, deps |-> StatesOf(s, Deps, UsedBy(j)),
         depsAt |-> build[s].readAt, used |-> j.used, stored |-> ~build[s].dry]

\* The end of validateFresh.
Finish(s, d) ==
    LET j == job[s][d]
    IN  /\ j.pc = "compile" /\ (j.hit \/ build[s].dry)
        /\ HasRead(j, UsedBy(j))
        /\ Known(s, UsedBy(j))
        /\ store' \in IF build[s].dry THEN {store}
                     ELSE Written(store, d, Made(s, d))
        /\ job' = [job EXCEPT ![s][d] =
                      [Idle EXCEPT !.pc = "fresh", !.entry = Made(s, d)]]
        /\ UNCHANGED <<disk, fields, cache, build, seen, calm>>

\* A loader, a field or the schema fails, or its time limit does.
Fail(s, d) ==
    /\ job[s][d].pc \in {"load", "lookup", "compile"}
    /\ job' = [job EXCEPT ![s][d] = [Idle EXCEPT !.pc = "failed"]]
    /\ UNCHANGED <<disk, store, fields, cache, build, seen, calm>>

NoBuild(s) ==
    /\ build' = [build EXCEPT ![s] = None]
    /\ job' = [job EXCEPT ![s] = [d \in Docs |-> Idle]]
    /\ seen' = [seen EXCEPT ![s] = [f \in Files |-> {}]]

\* What a dry run of this session made and the store does not hold yet.
Unstored(s, kept) ==
    {d \in Docs : /\ ~build[s].dry /\ kept[d] # None
                  /\ ~kept[d].stored /\ kept[d].config = build[s].config}

EndBuild(s) ==
    LET kept == [d \in Docs |-> IF job[s][d].pc = "fresh" THEN job[s][d].entry
                                ELSE cache[s][d]]
        late == Unstored(s, kept)
        quiet == /\ \A d \in Docs : job[s][d].pc # "failed"
                 /\ \A f \in Files : /\ seen[s][f] = {text[f]}
                                     /\ IsSettled(state[f].mtime, build[s].readAt)
    IN  /\ build[s] # None
        /\ \A d \in Docs : job[s][d].pc \in {"reused", "fresh", "failed"}
        /\ cache' = [cache EXCEPT ![s] =
                        [d \in Docs |-> IF d \in late
                                        THEN [kept[d] EXCEPT !.stored = TRUE]
                                        ELSE kept[d]]]
        /\ \E done \in SUBSET late :
              store' = [d \in Docs |-> IF d \in done
                                       THEN [kept[d] EXCEPT !.stored = TRUE]
                                       ELSE store[d]]
        /\ calm' = [calm EXCEPT ![s] = IF quiet THEN build[s].config ELSE None]
        /\ NoBuild(s)
        /\ UNCHANGED <<disk, fields>>

\* The build is interrupted: what validate has not returned is dropped.
Interrupt(s) ==
    /\ build[s] # None
    /\ calm' = [calm EXCEPT ![s] = None]
    /\ NoBuild(s)
    /\ UNCHANGED <<disk, store, fields, cache>>

\* The session ends, or its process is killed at any moment.
EndSession(s) ==
    /\ cache' = [cache EXCEPT ![s] = [d \in Docs |-> None]]
    /\ calm' = [calm EXCEPT ![s] = None]
    /\ NoBuild(s)
    /\ UNCHANGED <<disk, store, fields>>

\* The cleanup after a build: field entries that no document of this session
\* was made with go, also those another session still wants.
Cleanup(s) ==
    /\ build[s] = None
    /\ \A d \in Docs : cache[s][d] # None
    /\ fields' = [k \in DOMAIN fields |->
                     IF \E d \in Docs : k = <<cache[s][d].config, cache[s][d].text>>
                     THEN fields[k] ELSE None]
    /\ UNCHANGED <<disk, store, cache, build, job, seen, calm>>

-----------------------------------------------------------------------------
Init ==
    /\ now = RacyWindow + 1
    /\ \E t \in Texts : text = [f \in Files |-> t]
    /\ state = [f \in Files |-> [mtime |-> 0, ino |-> 0]]
    /\ hasty = {}
    /\ store = [d \in Docs |-> None]
    /\ fields = [k \in Configs \X Texts |-> None]
    /\ cache = [s \in Sessions |-> [d \in Docs |-> None]]
    /\ build = [s \in Sessions |-> None]
    /\ job = [s \in Sessions |-> [d \in Docs |-> Idle]]
    /\ seen = [s \in Sessions |-> [f \in Files |-> {}]]
    /\ calm = [s \in Sessions |-> None]

DocumentStep(s, d) ==
    \/ CheckFile(s, d) \/ CompareContent(s, d) \/ DependencyChanged(s, d)
    \/ Reuse(s, d) \/ Load(s, d) \/ Lookup(s, d)
    \/ (\E f \in Deps : CompileReads(s, d, f))
    \/ KeepField(s, d) \/ Finish(s, d) \/ Fail(s, d)

Next ==
    \/ Tick
    \/ \E f \in Files : Edit(f) \/ Replace(f)
    \/ \E s \in Sessions :
          \/ \E c \in Configs, dry \in BOOLEAN : BeginBuild(s, c, dry)
          \/ \E d \in Docs : DocumentStep(s, d)
          \/ \E f \in Files : Stat(s, f)
          \/ BeginValidating(s) \/ EndBuild(s) \/ Interrupt(s) \/ EndSession(s)
          \/ Cleanup(s)

Spec == Init /\ [][Next]_vars

-----------------------------------------------------------------------------
TypeOK ==
    /\ now \in Nat
    /\ text \in [Files -> Texts]
    /\ state \in [Files -> Signature]
    /\ hasty \in SUBSET Cached
    /\ store \in [Docs -> Entry \cup {None}]
    /\ fields \in [Configs \X Texts -> Field \cup {None}]
    /\ cache \in [Sessions -> [Docs -> Entry \cup {None}]]
    /\ build \in [Sessions -> Build \cup {None}]
    /\ job \in [Sessions -> [Docs -> Job]]
    /\ seen \in [Sessions -> [Files -> SUBSET Texts]]
    /\ calm \in [Sessions -> Configs \cup {None}]

EntriesOf(d) == ({store[d]} \cup {cache[s][d] : s \in Sessions}
                 \cup {job[s][d].entry : s \in Sessions}) \ {None}

\* Whatever a session remembers, the store holds or a build works with: if
\* stat alone would prove a file unchanged, the entry was made from the text
\* that is in the file now (the window of file-signature.ts:12-17).  What a
\* cached field read is compared without a time (field-cache.ts), so nothing
\* is said of such a file from an edit that its state hid until it was edited
\* again, apart from the builds and in another time step.
ProvenIsCurrent ==
    \A d \in Docs : \A e \in EntriesOf(d) :
        /\ ProvesUnchanged(e.sig, state[d], e.readAt) => e.text = text[d]
        /\ \A f \in Uses[e.text] \ hasty :
              DependencyUnchanged(e, f, state[f]) => e.used[f] = text[f]

\* A build returns documents of its own config, made from texts that its
\* files had at some moment since the build began, reused or not
\* (Collector.validate), with the same exception.
DocumentsAreCurrent ==
    \A s \in Sessions, d \in Docs :
        job[s][d].pc \in {"reused", "fresh"} =>
            LET e == job[s][d].entry
            IN  /\ e.config = build[s].config
                /\ e.text \in seen[s][d]
                /\ \A f \in Uses[e.text] \ hasty : e.used[f] \in seen[s][f]

\* After a good build of settled files, and nothing changed since, the next
\* build of the session with that config looks at its files and reads none:
\* "An unchanged document is not read, compiled, checked" (packages/core/
\* README.md:148).
UnchangedIsNotRead ==
    \A s \in Sessions :
        build[s] # None /\ calm[s] = build[s].config =>
            \A d \in Docs : job[s][d].pc \in {"check", "dependencies", "reused"}

=============================================================================
