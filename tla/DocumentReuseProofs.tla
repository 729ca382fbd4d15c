------------------------ MODULE DocumentReuseProofs ------------------------
(***************************************************************************)
(* What reuse keeps true for every number of sessions and documents, every *)
(* set of texts and configs, every resolution of the time stamps and every *)
(* racy window that is as long: the types, an unchanged document that is   *)
(* not read and an entry that never vouches for a text that is no longer   *)
(* there, however the files are edited.                                    *)
(***************************************************************************)
EXTENDS DocumentReuse, TLAPS

-----------------------------------------------------------------------------
(* The shape: what holds however the files are edited.                     *)

\* No file is stamped later than now.
Stamped == \A f \in Files : state[f].mtime <= Coarse(now)

\* A running build has seen what is in every file; a state it has looked at
\* is not newer than the file, and is the file's own unless it saw an edit.
Witnessed ==
    \A s \in Sessions : build[s] # None =>
        /\ build[s].readAt <= now
        /\ \A f \in Files :
              /\ text[f] \in seen[s][f]
              /\ Memo(s)[f] # None =>
                    /\ Memo(s)[f].ino <= state[f].ino
                    /\ f \in Deps => Memo(s)[f].mtime <= state[f].mtime
                    /\ seen[s][f] = {text[f]} => Memo(s)[f] = state[f]

\* Time stamps that are settled, or as old as the build that looked.
Fresh(s, mtime, at) == IsSettled(mtime, at) \/ at = build[s].readAt

\* An entry that a build returns says what the build saw of the files.
Returned(s, d, e) ==
    /\ e.sig = Memo(s)[d]
    /\ Fresh(s, e.sig.mtime, e.readAt)
    /\ \A f \in Uses[e.text] :
          /\ Memo(s)[f] # None /\ e.deps[f] = Memo(s)[f]
          /\ Fresh(s, e.deps[f].mtime, e.depsAt)

\* What validate knows of a document at each step.
JobShape(s, d) ==
    LET j == job[s][d]
    IN  /\ j.pc # "idle"
        /\ j.pc # "check" => Memo(s)[d] # None
        /\ j.pc \in {"compare", "dependencies", "reused", "fresh"} =>
              j.entry # None /\ j.entry.config = build[s].config
        /\ j.pc \in {"compare", "dependencies"} /\ ~j.fromStore =>
              j.entry = cache[s][d]
        /\ j.pc = "compare" => j.text = None
        /\ j.pc = "dependencies" =>
              IF j.text = None
              THEN ProvesUnchanged(j.entry.sig, Memo(s)[d], j.entry.readAt)
              ELSE j.text = j.entry.text
        /\ j.pc \in {"lookup", "compile"} => j.text # None
        /\ j.pc \in {"reused", "fresh"} => Returned(s, d, j.entry)
        /\ j.pc = "reused" => cache[s][d] = j.entry

Shapes ==
    \A s \in Sessions, d \in Docs :
        IF build[s] = None THEN job[s][d] = Idle ELSE JobShape(s, d)

\* Stat alone proves what a session remembers of a document.
Proven(d, e, c) ==
    /\ e # None /\ e.config = c
    /\ ProvesUnchanged(e.sig, state[d], e.readAt)
    /\ \A f \in Uses[e.text] : DependencyUnchanged(e, f, state[f])

\* After a quiet build, and in the next one with its config.
Calm ==
    \A s \in Sessions :
        calm[s] # None /\ (build[s] # None => build[s].config = calm[s]) =>
            /\ \A d \in Docs : Proven(d, cache[s][d], calm[s])
            /\ build[s] # None =>
                  /\ \A f \in Files : Memo(s)[f] # None => Memo(s)[f] = state[f]
                  /\ \A d \in Docs :
                        /\ job[s][d].pc \in {"check", "dependencies", "reused"}
                        /\ job[s][d].pc = "dependencies" =>
                              job[s][d].text = None /\ ~job[s][d].fromStore

ShapeInv == TypeOK /\ Stamped /\ Witnessed /\ Shapes /\ Calm

-----------------------------------------------------------------------------
(* The truth: what a state that was looked at says of a text.  Files of    *)
(* cached fields are compared without a time, so nothing is said of their  *)
(* texts while an edit is hidden, only that no state kept of them is newer *)
(* than theirs: the next one that is not hidden then differs from it.      *)

\* Build s looked at f when its state was sig.
LookedAt(s, f, sig) == build[s] # None /\ Memo(s)[f] # None /\ Memo(s)[f] = sig

\* If sig is settled for a reader of time at, and still the state of f, then
\* t is the text of f; a build for which it was has seen t.
Vouches(f, sig, at, t) ==
    /\ at <= now /\ (f \in Docs => sig.ino <= state[f].ino)
    /\ f \in Cached => sig \in Signature /\ sig.mtime <= state[f].mtime
    /\ f \notin hasty =>
          /\ sig = state[f] /\ IsSettled(sig.mtime, at) => t = text[f]
          /\ \A s \in Sessions :
                LookedAt(s, f, sig) /\ IsSettled(sig.mtime, at) => t \in seen[s][f]

\* The same for a file that was read at or after the time at, whatever its
\* state was.
ReadSince(f, at, t) ==
    /\ at <= now
    /\ IsSettled(state[f].mtime, at) => t = text[f]
    /\ \A s \in Sessions :
          /\ build[s] # None /\ Memo(s)[f] # None
          /\ IsSettled(Memo(s)[f].mtime, at)
          => t \in seen[s][f]

\* The same without a time.
Identifies(f, sig, t) ==
    /\ sig.mtime <= state[f].mtime
    /\ f \notin hasty =>
          /\ sig = state[f] => t = text[f]
          /\ \A s \in Sessions : LookedAt(s, f, sig) => t \in seen[s][f]

\* What a document was made from.
Honest(d, e) ==
    e # None =>
        /\ Vouches(d, e.sig, e.readAt, e.text)
        /\ \A f \in Uses[e.text] : Vouches(f, e.deps[f], e.depsAt, e.used[f])

Entries ==
    \A d \in Docs :
        /\ Honest(d, store[d])
        /\ \A s \in Sessions : Honest(d, cache[s][d]) /\ Honest(d, job[s][d].entry)

FieldValues ==
    \A c \in Configs, t \in Texts : \A f \in Uses[t] \cap Cached :
        fields[<<c, t>>] # None =>
            /\ fields[<<c, t>>].states[f] # None /\ fields[<<c, t>>].values[f] # None
            /\ Identifies(f, fields[<<c, t>>].states[f], fields[<<c, t>>].values[f])

\* What a compile has read of a file, or got from the field cache.
UsedIsTrue(s, f, t) ==
    /\ f \notin hasty => t \in seen[s][f]
    /\ f \in Pure => ReadSince(f, build[s].readAt, t)
    /\ f \in Cached => IF Memo(s)[f] = None THEN f \notin hasty => t = text[f]
                       ELSE Identifies(f, Memo(s)[f], t)

\* What a build returns was in its files since it began.
ReturnedIsSeen(s, d, e) ==
    /\ e.text \in seen[s][d]
    /\ \A f \in Uses[e.text] \ hasty : e.used[f] \in seen[s][f]

JobTruth(s, d, j) ==
    /\ j.text # None => /\ Memo(s)[d] # None /\ j.text \in seen[s][d]
                        /\ Vouches(d, Memo(s)[d], build[s].readAt, j.text)
    /\ j.pc = "compile" => \A f \in UsedBy(j) : j.used[f] # None =>
                              UsedIsTrue(s, f, j.used[f])
    /\ j.pc = "dependencies" => j.entry.text \in seen[s][d]
    /\ j.pc \in {"reused", "fresh"} => ReturnedIsSeen(s, d, j.entry)

JobTruths ==
    \A s \in Sessions, d \in Docs : build[s] # None => JobTruth(s, d, job[s][d])

TruthInv == Entries /\ FieldValues /\ JobTruths

-----------------------------------------------------------------------------
(* What a step can do to the files and to what a build has seen of them.   *)

LEMMA CoarseFacts ==
    ASSUME NEW t \in Nat
    PROVE  /\ Coarse(t) \in Nat /\ Coarse(t) <= t
           /\ t - RacyWindow <= Coarse(t)
           /\ Coarse(t) <= Coarse(t + 1)
  <1>1. TimeStep \in Nat \ {0} /\ RacyWindow \in Nat /\ TimeStep <= RacyWindow + 1
    BY Windows
  <1>2. (t % TimeStep) \in 0 .. TimeStep - 1 /\ (t % TimeStep) <= t
    BY <1>1
  <1>3. ((t + 1) % TimeStep) <= (t % TimeStep) + 1
    <2>1. ASSUME NEW k \in Nat \ {0}, NEW n \in Int, 0 < k * n, k * n < k
          PROVE  FALSE
      <3>1. CASE n <= 0
        BY <2>1, <3>1
      <3>2. CASE n >= 1
        BY <2>1, <3>2
      <3>3. QED
        BY <3>1, <3>2
    <2> DEFINE q == t \div TimeStep
               p == (t + 1) \div TimeStep
    <2>2. /\ q \in Int /\ p \in Int
          /\ t = TimeStep * q + (t % TimeStep)
          /\ t + 1 = TimeStep * p + ((t + 1) % TimeStep)
      BY <1>1
    <2>3. TimeStep * (q - p) = TimeStep * q - TimeStep * p
      BY <1>1, <2>2
    <2>4. TimeStep * q \in Int /\ TimeStep * p \in Int
      BY <1>1, <2>2
    <2>5. ((t + 1) % TimeStep) \in 0 .. TimeStep - 1
      BY <1>1
    <2> HIDE DEF q, p
    <2>6. SUFFICES ASSUME ((t + 1) % TimeStep) > (t % TimeStep) + 1 PROVE FALSE
      BY <1>1, <1>2, <2>5
    <2>7. 0 < TimeStep * (q - p) /\ TimeStep * (q - p) < TimeStep
      BY <1>1, <1>2, <2>2, <2>3, <2>4, <2>5, <2>6
    <2>8. QED
      BY <1>1, <2>1, <2>2, <2>7
  <1>4. ((t + 1) % TimeStep) \in 0 .. TimeStep - 1
    BY <1>1
  <1>5. QED
    BY <1>1, <1>2, <1>3, <1>4 DEF Coarse

LEMMA InitialStamp == Coarse(RacyWindow + 1) >= 0
  BY CoarseFacts, Windows

\* A file stays, is edited now, or is moved away under another file.
Untouched(f) ==
    text'[f] = text[f] /\ state'[f] = state[f] /\ (f \in hasty' <=> f \in hasty)
Edited(f) ==
    /\ now' = now /\ text'[f] # text[f]
    /\ state'[f] = [mtime |-> Coarse(now), ino |-> state[f].ino]
    /\ f \in Cached /\ f \notin hasty' => ~Hides(f)
    /\ f \in hasty /\ f \notin hasty' => \A s \in Sessions : build[s] = None
Moved(f) ==
    /\ f \in Docs /\ text'[f] # text[f] /\ (f \in hasty' <=> f \in hasty)
    /\ state'[f] = [mtime |-> 0, ino |-> state[f].ino + 1]

\* A build begins, or goes on: what it has looked at it does not look at again.
Begins(s) ==
    /\ build[s] = None /\ build'[s].readAt = now
    /\ \A f \in Files :
          Untouched(f) /\ build'[s].memo[f] = None /\ seen'[s][f] = {text[f]}
GoesOn(s) ==
    /\ build[s] # None
    /\ build'[s].config = build[s].config /\ build'[s].readAt = build[s].readAt
    /\ build'[s].dry = build[s].dry
    /\ \A f \in Files :
          /\ seen'[s][f] = IF text'[f] = text[f] THEN seen[s][f]
                           ELSE seen[s][f] \cup {text'[f]}
          /\ \/ build'[s].memo[f] = build[s].memo[f]
             \/ /\ build[s].memo[f] = None /\ build'[s].memo[f] = state[f]
                /\ Untouched(f)

World ==
    /\ now' \in {now, now + 1}
    /\ \A f \in Files : Untouched(f) \/ Edited(f) \/ Moved(f)
    /\ \A s \in Sessions : build'[s] # None => Begins(s) \/ GoesOn(s)

LEMMA FilesUntouched ==
    ASSUME UNCHANGED <<text, state, hasty>>
    PROVE  \A f \in Files : Untouched(f)
  BY DEF Untouched

LEMMA BuildsGoOn ==
    ASSUME UNCHANGED <<build, seen>>, UNCHANGED <<text, state, hasty>>
    PROVE  \A s \in Sessions : build'[s] # None => GoesOn(s)
  BY DEF GoesOn

\* Steps of a document that only read.
LEMMA StillWorld ==
    ASSUME TypeOK, UNCHANGED <<now, text, state, hasty, build, seen>>
    PROVE  World
  BY FilesUntouched, BuildsGoOn DEF World, TypeOK

LEMMA LookWorld ==
    ASSUME TypeOK, NEW s \in Sessions, NEW f \in Files, build[s] # None,
           build' = Remember(s, f), UNCHANGED <<now, text, state, hasty, seen>>
    PROVE  World
  <1>1. ASSUME NEW q \in Sessions, build'[q] # None PROVE GoesOn(q)
    <2>1. /\ build[q] # None => build[q] \in Build
          /\ s # q => build'[q] = build[q]
          /\ s = q => build'[q] = [build[q] EXCEPT !.memo =
                                      [@ EXCEPT ![f] = Look(s, f)]]
      BY DEF Remember, TypeOK
    <2>2. build[q] # None
      BY <1>1, <2>1
    <2>3. build[q] \in Build
      BY <2>1, <2>2
    <2>4. /\ build'[q].config = build[q].config
          /\ build'[q].readAt = build[q].readAt
          /\ build'[q].dry = build[q].dry
      BY <2>1, <2>3 DEF Build
    <2>5. ASSUME NEW g \in Files
          PROVE  \/ build'[q].memo[g] = build[q].memo[g]
                 \/ build[q].memo[g] = None /\ build'[q].memo[g] = state[g]
      <3>1. CASE s = q /\ f = g
        BY <2>1, <2>3, <3>1 DEF Build, Look, Memo
      <3>2. CASE ~(s = q /\ f = g)
        BY <2>1, <2>3, <3>2 DEF Build
      <3>3. QED
        BY <3>1, <3>2
    <2>6. QED
      BY <2>2, <2>4, <2>5 DEF GoesOn, Untouched
  <1>2. QED
    BY <1>1, FilesUntouched DEF World, TypeOK

LEMMA BeginWorld ==
    ASSUME TypeOK, NEW s \in Sessions, NEW c \in Configs, NEW dry \in BOOLEAN,
           BeginBuild(s, c, dry)
    PROVE  World
  <1>1. UNCHANGED <<now, text, state, hasty>>
    BY DEF BeginBuild, disk
  <1>2. Begins(s)
    BY DEF BeginBuild, disk, Begins, Untouched, TypeOK
  <1>3. ASSUME NEW q \in Sessions, q # s, build'[q] # None PROVE GoesOn(q)
    <2>1. build'[q] = build[q] /\ seen'[q] = seen[q]
      BY <1>3 DEF BeginBuild, TypeOK
    <2>2. QED
      BY <1>1, <1>3, <2>1 DEF GoesOn
  <1>4. QED
    BY <1>1, <1>2, <1>3, FilesUntouched DEF World, TypeOK

LEMMA NoBuildWorld ==
    ASSUME TypeOK, NEW s \in Sessions, NoBuild(s), UNCHANGED <<now, text, state, hasty>>
    PROVE  World
  <1>1. ASSUME NEW q \in Sessions, build'[q] # None PROVE GoesOn(q)
    <2>1. q # s /\ build'[q] = build[q] /\ seen'[q] = seen[q]
      BY <1>1 DEF NoBuild, TypeOK
    <2>2. QED
      BY <1>1, <2>1 DEF GoesOn
  <1>2. QED
    BY <1>1, FilesUntouched DEF World, TypeOK

\* An edit, whatever becomes of the stamp.
LEMMA WitnessFacts ==
    ASSUME TypeOK, NEW f \in Files, NEW t \in Texts \ {text[f]}, Witness(f, t)
    PROVE  /\ text'[f] # text[f]
           /\ \A g \in Files \ {f} : text'[g] = text[g]
           /\ UNCHANGED <<now, store, fields, cache, build, job>>
           /\ calm' = [s \in Sessions |-> None]
           /\ \A s \in Sessions :
                 build[s] # None =>
                     \A g \in Files :
                        seen'[s][g] = IF text'[g] = text[g] THEN seen[s][g]
                                      ELSE seen[s][g] \cup {text'[g]}
  <1>1. /\ text' = [text EXCEPT ![f] = t] /\ calm' = [s \in Sessions |-> None]
        /\ UNCHANGED <<now, store, fields, cache, build, job>>
        /\ seen' = [s \in Sessions |->
                      IF build[s] = None THEN seen[s]
                      ELSE [seen[s] EXCEPT ![f] = seen[s][f] \cup {t}]]
    BY DEF Witness
  <1>2. text'[f] = t /\ \A g \in Files \ {f} : text'[g] = text[g]
    BY <1>1 DEF TypeOK
  <1>3. ASSUME NEW s \in Sessions, build[s] # None, NEW g \in Files
        PROVE  seen'[s][g] = IF text'[g] = text[g] THEN seen[s][g]
                             ELSE seen[s][g] \cup {text'[g]}
    <2>1. seen'[s] = [seen[s] EXCEPT ![f] = seen[s][f] \cup {t}]
      BY <1>1, <1>3
    <2>2. seen[s] \in [Files -> SUBSET Texts]
      BY DEF TypeOK
    <2>3. CASE g = f
      BY <1>2, <2>1, <2>2, <2>3
    <2>4. CASE g # f
      BY <1>2, <2>1, <2>2, <2>4
    <2>5. QED
      BY <2>3, <2>4
  <1>4. QED
    BY <1>1, <1>2, <1>3

LEMMA EditWorld ==
    ASSUME TypeOK, NEW f \in Files, Edit(f) \/ Replace(f)
    PROVE  /\ World
           /\ UNCHANGED <<store, fields, cache, build, job>>
           /\ calm' = [s \in Sessions |-> None]
  <1>1. PICK t \in Texts \ {text[f]} : Witness(f, t)
    BY DEF Edit, Replace
  <1>2. /\ text'[f] # text[f] /\ \A g \in Files \ {f} : text'[g] = text[g]
        /\ UNCHANGED <<now, store, fields, cache, build, job>>
        /\ calm' = [s \in Sessions |-> None]
        /\ \A s \in Sessions :
              build[s] # None =>
                  \A g \in Files :
                     seen'[s][g] = IF text'[g] = text[g] THEN seen[s][g]
                                   ELSE seen[s][g] \cup {text'[g]}
    BY <1>1, WitnessFacts
  <1>3. \A g \in Files \ {f} : state'[g] = state[g] /\ (g \in hasty' <=> g \in hasty)
    BY DEF Edit, Replace, TypeOK
  <1>4. Edited(f) \/ Moved(f)
    <2>1. CASE Edit(f)
      <3>1. state' = [state EXCEPT ![f].mtime = Coarse(now)]
        BY <2>1 DEF Edit
      <3>2. state'[f] = [mtime |-> Coarse(now), ino |-> state[f].ino]
        BY <3>1 DEF TypeOK, Signature
      <3>3. QED
        BY <1>2, <2>1, <3>2 DEF Edit, Edited
    <2>2. CASE Replace(f)
      <3>1. /\ f \in Docs
            /\ state' = [state EXCEPT ![f] = [mtime |-> 0, ino |-> state[f].ino + 1]]
        BY <2>2, Kinds DEF Replace
      <3>2. state'[f] = [mtime |-> 0, ino |-> state[f].ino + 1]
        BY <3>1 DEF TypeOK
      <3>3. QED
        BY <1>2, <2>2, <3>1, <3>2 DEF Moved, Replace
    <2>3. QED
      BY <2>1, <2>2
  <1>5. \A g \in Files : Untouched(g) \/ Edited(g) \/ Moved(g)
    BY <1>2, <1>3, <1>4 DEF Untouched
  <1>6. \A s \in Sessions : build'[s] # None => GoesOn(s)
    BY <1>2 DEF GoesOn
  <1>7. QED
    BY <1>2, <1>5, <1>6 DEF World, TypeOK

\* Steps of a document: the world stays, or one of its files is looked at.
LEMMA NextWorld ==
    ASSUME TypeOK, Shapes, Next
    PROVE  World
  <1>1. CASE Tick
    BY <1>1, FilesUntouched, BuildsGoOn DEF Tick, World, TypeOK
  <1>2. ASSUME NEW f \in Files, Edit(f) \/ Replace(f) PROVE World
    BY <1>2, EditWorld
  <1>3. ASSUME NEW s \in Sessions, NEW c \in Configs, NEW dry \in BOOLEAN,
               BeginBuild(s, c, dry)
        PROVE  World
    BY <1>3, BeginWorld
  <1>4. ASSUME NEW s \in Sessions, NEW d \in Docs, DocumentStep(s, d) PROVE World
    <2>1. CASE CheckFile(s, d)
      <3>1. job[s][d].pc = "check" /\ d \in Files
        BY <2>1 DEF CheckFile, Files
      <3>2. /\ build' = Remember(s, d)
            /\ UNCHANGED <<now, text, state, hasty, seen>>
        BY <2>1 DEF CheckFile, disk
      <3>3. build[s] # None
        BY <3>1 DEF Shapes, Idle
      <3>4. QED
        BY <3>1, <3>2, <3>3, LookWorld
    <2>2. CASE ~CheckFile(s, d)
      <3>1. UNCHANGED <<now, text, state, hasty, build, seen>>
        BY <1>4, <2>2 DEF DocumentStep, CompareContent, DependencyChanged, Reuse,
           Load, Lookup, CompileReads, KeepField, Finish, Fail, disk
      <3>2. QED
        BY <3>1, StillWorld
    <2>3. QED
      BY <2>1, <2>2
  <1>5. ASSUME NEW s \in Sessions, NEW f \in Files, Stat(s, f) PROVE World
    BY <1>5, LookWorld DEF Stat, disk
  <1>6. ASSUME NEW s \in Sessions, EndBuild(s) \/ Interrupt(s) \/ EndSession(s)
        PROVE  World
    BY <1>6, NoBuildWorld DEF EndBuild, Interrupt, EndSession, disk
  <1>7. ASSUME NEW s \in Sessions, BeginValidating(s) \/ Cleanup(s) PROVE World
    BY <1>7, StillWorld DEF BeginValidating, Cleanup, disk
  <1>8. QED
    BY <1>1, <1>2, <1>3, <1>4, <1>5, <1>6, <1>7 DEF Next

-----------------------------------------------------------------------------
(* What a state says of a text stays true in every step.                   *)

LEMMA StampFacts ==
    ASSUME World, NEW f \in Files
    PROVE  /\ \/ state'[f].mtime = state[f].mtime
              \/ state'[f].mtime = Coarse(now)
              \/ f \in Docs /\ state'[f].mtime = 0
           /\ state'[f].ino = state[f].ino \/ state'[f].ino = state[f].ino + 1
  <1>1. CASE Untouched(f)
    BY <1>1 DEF Untouched
  <1>2. CASE Edited(f)
    BY <1>2 DEF Edited
  <1>3. CASE Moved(f)
    BY <1>3 DEF Moved
  <1>4. QED
    BY <1>1, <1>2, <1>3 DEF World

\* A file of a cached field stays as old as it is or becomes newer; when an
\* edit of it is hidden no longer, no build runs and it has become newer.
LEMMA CachedFacts ==
    ASSUME TypeOK, Stamped, World, NEW f \in Cached
    PROVE  /\ state[f].mtime \in Nat /\ state'[f].mtime \in Nat
           /\ state[f].mtime <= state'[f].mtime
           /\ f \in hasty /\ f \notin hasty' =>
                 /\ state[f].mtime < state'[f].mtime
                 /\ \A s \in Sessions : build'[s] = None
  <1>1. /\ now \in Nat /\ f \in Files /\ f \notin Docs /\ state[f] \in Signature
        /\ Coarse(now) \in Nat
    BY Kinds, CoarseFacts DEF TypeOK, Files, Deps
  <1>2. CASE Untouched(f)
    BY <1>1, <1>2 DEF Untouched, Signature
  <1>3. CASE Edited(f)
    <2>1. /\ state'[f].mtime = Coarse(now) /\ state[f].mtime <= Coarse(now)
          /\ state[f].mtime \in Nat
      BY <1>1, <1>3 DEF Edited, Stamped, Signature
    <2>2. CASE f \in hasty /\ f \notin hasty'
      <3>1. state[f].mtime # Coarse(now) /\ \A s \in Sessions : build[s] = None
        BY <1>3, <2>2 DEF Edited, Hides
      <3>2. text'[f] # text[f]
        BY <1>3 DEF Edited
      <3>3. \A s \in Sessions : build'[s] = None
        BY <1>1, <3>1, <3>2 DEF World, Begins, GoesOn, Untouched
      <3>4. QED BY <1>1, <2>1, <3>1, <3>3
    <2>3. QED BY <1>1, <2>1, <2>2
  <1>4. QED
    BY <1>1, <1>2, <1>3 DEF World, Moved

\* An edit stays hidden while a build runs.
LEMMA HastyStays ==
    ASSUME TypeOK, Stamped, World, NEW s \in Sessions, build[s] # None \/ build'[s] # None,
           NEW f, f \in hasty
    PROVE  f \in hasty'
  <1>1. f \in Cached /\ f \in Files /\ f \notin Docs
    BY Kinds DEF TypeOK, Files, Deps
  <1>2. CASE Untouched(f)
    BY <1>2 DEF Untouched
  <1>3. CASE Edited(f)
    BY <1>1, <1>3, CachedFacts DEF Edited
  <1>4. QED
    BY <1>1, <1>2, <1>3 DEF World, Moved

\* Only files of cached fields hide an edit.
LEMMA OthersAreTold ==
    ASSUME TypeOK
    PROVE  \A f : f \notin Cached => f \notin hasty
  BY DEF TypeOK

LEMMA VouchesStays ==
    ASSUME TypeOK, TypeOK', Stamped, Witnessed, World,
           NEW f \in Files, NEW sig, NEW at \in Nat, NEW t,
           f \in Docs => sig \in Signature, Vouches(f, sig, at, t)
    PROVE  Vouches(f, sig, at, t)'
  <1>1. /\ now \in Nat /\ now' \in Nat /\ now <= now'
        /\ state[f] \in Signature /\ state'[f] \in Signature
    BY DEF TypeOK, World
  <1>2. at <= now' /\ (f \in Docs => sig.ino <= state'[f].ino)
    <2>1. at <= now'
      BY <1>1 DEF Vouches
    <2>2. state'[f].ino = state[f].ino \/ state'[f].ino = state[f].ino + 1
      BY StampFacts
    <2>3. state[f].ino \in Nat /\ state'[f].ino \in Nat
      BY <1>1 DEF Signature
    <2>4. f \in Docs => sig.ino \in Nat /\ sig.ino <= state[f].ino
      BY DEF Vouches, Signature
    <2>5. QED
      BY <2>1, <2>2, <2>3, <2>4
  <1>3. f \in Cached => sig \in Signature /\ sig.mtime <= state'[f].mtime
    <2>1. ASSUME f \in Cached PROVE sig \in Signature /\ sig.mtime <= state'[f].mtime
      <3>1. /\ sig \in Signature /\ sig.mtime <= state[f].mtime
            /\ state[f].mtime <= state'[f].mtime
            /\ state[f].mtime \in Nat /\ state'[f].mtime \in Nat /\ sig.mtime \in Nat
        BY <2>1, CachedFacts DEF Vouches, Signature
      <3>2. QED BY <3>1
    <2>2. QED BY <2>1
  <1>4. ASSUME f \notin hasty', f \notin hasty, sig = state'[f], IsSettled(sig.mtime, at)
        PROVE  t = text'[f]
    <2>1. CASE Untouched(f)
      BY <1>4, <2>1 DEF Vouches, Untouched
    <2>2. CASE Edited(f)
      <3>1. sig.mtime = Coarse(now) /\ at <= now
        BY <1>4, <2>2 DEF Edited, Vouches
      <3>2. now - RacyWindow <= Coarse(now) /\ Coarse(now) \in Nat
        BY <1>1, CoarseFacts
      <3>3. QED
        BY <1>1, <1>4, <3>1, <3>2, Windows DEF IsSettled
    <2>3. CASE Moved(f)
      <3>1. sig.ino <= state[f].ino /\ sig.ino = state[f].ino + 1 /\ state[f].ino \in Nat
        BY <1>1, <1>4, <2>3 DEF Moved, Vouches, Signature
      <3>2. QED BY <3>1
    <2>4. QED
      BY <2>1, <2>2, <2>3 DEF World
  <1>5. ASSUME f \notin hasty', f \notin hasty, NEW s \in Sessions, LookedAt(s, f, sig)',
               IsSettled(sig.mtime, at)
        PROVE  t \in seen'[s][f]
    <2>1. build'[s] # None /\ build'[s].memo[f] # None /\ build'[s].memo[f] = sig
      BY <1>5 DEF LookedAt, Memo
    <2>2. GoesOn(s)
      BY <2>1 DEF World, Begins
    <2>3. CASE build'[s].memo[f] = build[s].memo[f]
      BY <1>5, <2>1, <2>2, <2>3 DEF Vouches, LookedAt, Memo, GoesOn
    <2>4. CASE build'[s].memo[f] = state[f] /\ Untouched(f)
      <3>1. t = text[f] /\ seen'[s][f] = seen[s][f]
        BY <1>5, <2>1, <2>2, <2>4 DEF Vouches, GoesOn, Untouched
      <3>2. QED
        BY <2>2, <3>1 DEF Witnessed, GoesOn
    <2>5. QED
      BY <2>2, <2>3, <2>4 DEF GoesOn
  <1>6. ASSUME f \notin hasty', f \in hasty
        PROVE  sig # state'[f] /\ \A s \in Sessions : ~LookedAt(s, f, sig)'
    <2>1. /\ f \in Cached /\ state[f].mtime < state'[f].mtime
          /\ state[f].mtime \in Nat /\ state'[f].mtime \in Nat
          /\ \A s \in Sessions : build'[s] = None
      BY <1>6, CachedFacts DEF TypeOK
    <2>2. sig.mtime <= state[f].mtime /\ sig.mtime \in Nat
      BY <2>1 DEF Vouches, Signature
    <2>3. sig.mtime # state'[f].mtime
      BY <2>1, <2>2
    <2>4. QED BY <2>1, <2>3 DEF LookedAt
  <1>7. QED
    BY <1>2, <1>3, <1>4, <1>5, <1>6 DEF Vouches

LEMMA ReadSinceStays ==
    ASSUME TypeOK, TypeOK', Stamped, Witnessed, World,
           NEW f \in Deps, NEW at \in Nat, NEW t, ReadSince(f, at, t)
    PROVE  ReadSince(f, at, t)'
  <1>1. /\ now \in Nat /\ now' \in Nat /\ now <= now'
        /\ f \in Files /\ f \notin Docs
    BY Kinds DEF TypeOK, World, Files
  <1>2. ASSUME IsSettled(state'[f].mtime, at) PROVE t = text'[f]
    <2>1. CASE Untouched(f)
      BY <1>2, <2>1 DEF ReadSince, Untouched
    <2>2. CASE Edited(f)
      <3>1. state'[f].mtime = Coarse(now) /\ at <= now
        BY <2>2 DEF Edited, ReadSince
      <3>2. now - RacyWindow <= Coarse(now) /\ Coarse(now) \in Nat
        BY <1>1, CoarseFacts
      <3>3. QED
        BY <1>1, <1>2, <3>1, <3>2, Windows DEF IsSettled
    <2>3. QED
      BY <1>1, <2>1, <2>2 DEF World, Moved
  <1>3. ASSUME NEW s \in Sessions, build'[s] # None, build'[s].memo[f] # None,
               IsSettled(build'[s].memo[f].mtime, at)
        PROVE  t \in seen'[s][f]
    <2>1. GoesOn(s)
      BY <1>1, <1>3 DEF World, Begins
    <2>2. CASE build'[s].memo[f] = build[s].memo[f]
      BY <1>1, <1>3, <2>1, <2>2 DEF ReadSince, Memo, GoesOn
    <2>3. CASE build'[s].memo[f] = state[f] /\ Untouched(f)
      <3>1. t = text[f] /\ seen'[s][f] = seen[s][f]
        BY <1>1, <1>3, <2>1, <2>3 DEF ReadSince, GoesOn, Untouched
      <3>2. QED
        BY <1>1, <2>1, <3>1 DEF Witnessed, GoesOn
    <2>4. QED
      BY <1>1, <2>1, <2>2, <2>3 DEF GoesOn
  <1>4. QED
    BY <1>1, <1>2, <1>3 DEF ReadSince, Memo

LEMMA IdentifiesStays ==
    ASSUME TypeOK, TypeOK', Stamped, Witnessed, World,
           NEW f \in Cached, NEW sig \in Signature, NEW t, Identifies(f, sig, t)
    PROVE  Identifies(f, sig, t)'
  <1>1. /\ now \in Nat /\ f \in Files /\ f \notin Docs /\ state[f] \in Signature
    BY Kinds DEF TypeOK, Files, Deps
  <1>2. /\ state[f].mtime <= state'[f].mtime
        /\ state[f].mtime \in Nat /\ state'[f].mtime \in Nat /\ sig.mtime \in Nat
        /\ f \in hasty /\ f \notin hasty' =>
              /\ state[f].mtime < state'[f].mtime
              /\ \A s \in Sessions : build'[s] = None
    BY CachedFacts DEF Signature
  <1>3. sig.mtime <= state[f].mtime /\ sig.mtime <= state'[f].mtime
    BY <1>2 DEF Identifies
  <1>4. ASSUME f \notin hasty', sig = state'[f] PROVE t = text'[f]
    <2>1. CASE f \in hasty
      BY <1>2, <1>3, <1>4, <2>1
    <2>2. CASE f \notin hasty /\ Untouched(f)
      BY <1>4, <2>2 DEF Identifies, Untouched
    <2>3. CASE f \notin hasty /\ Edited(f)
      <3>1. state'[f].mtime = Coarse(now) /\ state[f].mtime # Coarse(now)
        BY <1>4, <2>3 DEF Edited, Hides
      <3>2. QED
        BY <1>2, <1>3, <1>4, <3>1
    <2>4. QED
      BY <1>1, <2>1, <2>2, <2>3 DEF World, Moved
  <1>5. ASSUME f \notin hasty', NEW s \in Sessions, LookedAt(s, f, sig)'
        PROVE  t \in seen'[s][f]
    <2>1. build'[s] # None /\ build'[s].memo[f] # None /\ build'[s].memo[f] = sig
      BY <1>5 DEF LookedAt, Memo
    <2>2. f \notin hasty
      BY <1>2, <1>5, <2>1
    <2>3. GoesOn(s)
      BY <1>1, <2>1 DEF World, Begins
    <2>4. CASE build'[s].memo[f] = build[s].memo[f]
      BY <1>1, <2>1, <2>2, <2>3, <2>4 DEF Identifies, LookedAt, Memo, GoesOn
    <2>5. CASE build'[s].memo[f] = state[f] /\ Untouched(f)
      <3>1. t = text[f] /\ seen'[s][f] = seen[s][f]
        BY <1>1, <2>1, <2>2, <2>3, <2>5 DEF Identifies, GoesOn, Untouched
      <3>2. QED
        BY <1>1, <2>3, <3>1 DEF Witnessed, GoesOn
    <2>6. QED
      BY <1>1, <2>3, <2>4, <2>5 DEF GoesOn
  <1>6. QED
    BY <1>3, <1>4, <1>5 DEF Identifies

-----------------------------------------------------------------------------
(* Types.                                                                  *)

LEMMA Running ==
    ASSUME TypeOK, Shapes, NEW s \in Sessions, NEW d \in Docs,
           job[s][d].pc # "idle"
    PROVE  /\ build[s] # None /\ build[s] \in Build /\ JobShape(s, d)
           /\ Memo(s) \in [Files -> Signature \cup {None}]
           /\ job[s][d] \in Job /\ d \in Files
  <1>1. build[s] # None
    BY DEF Shapes, Idle
  <1>2. QED
    BY <1>1 DEF Shapes, TypeOK, Memo, Build, Files

LEMMA JobSet ==
    ASSUME TypeOK, NEW s \in Sessions, NEW d \in Docs, NEW j \in Job,
           job' = [job EXCEPT ![s][d] = j]
    PROVE  /\ job' \in [Sessions -> [Docs -> Job]]
           /\ job'[s][d] = j
           /\ \A q \in Sessions, e \in Docs :
                 q # s \/ e # d => job'[q][e] = job[q][e]
  BY DEF TypeOK

LEMMA IdleJob == Idle \in Job
  BY DEF Idle, Job, Steps

\* Idle but for the step, the entry, and the text that has been read.
LEMMA JobMade ==
    ASSUME NEW pc \in Steps, NEW e \in Entry \cup {None}, NEW b \in BOOLEAN,
           NEW t \in Texts \cup {None}
    PROVE  /\ [Idle EXCEPT !.pc = pc, !.entry = e, !.fromStore = b] \in Job
           /\ [Idle EXCEPT !.pc = pc, !.text = t] \in Job
           /\ [Idle EXCEPT !.pc = pc, !.entry = e] \in Job
           /\ [Idle EXCEPT !.pc = pc] \in Job
  BY DEF Idle, Job

LEMMA LookTyped ==
    ASSUME TypeOK, NEW s \in Sessions, NEW f \in Files, build[s] # None,
           build' = Remember(s, f)
    PROVE  /\ build' \in [Sessions -> Build \cup {None}]
           /\ build'[s].memo[f] = Look(s, f) /\ Look(s, f) \in Signature
  <1>1. Look(s, f) \in Signature
    BY DEF Look, Memo, TypeOK, Build
  <1>2. build[s] \in Build
    BY DEF TypeOK
  <1>3. /\ build' = [q \in Sessions |-> build'[q]]
        /\ build'[s] = [build[s] EXCEPT !.memo = [@ EXCEPT ![f] = Look(s, f)]]
        /\ \A q \in Sessions \ {s} : build'[q] = build[q]
    BY DEF Remember, TypeOK
  <1>4. build'[s] \in Build /\ build'[s].memo[f] = Look(s, f)
    BY <1>1, <1>2, <1>3 DEF Build
  <1>5. \A q \in Sessions : build'[q] \in Build \cup {None}
    BY <1>3, <1>4 DEF TypeOK
  <1>6. QED
    BY <1>1, <1>3, <1>4, <1>5

LEMMA StatesTyped ==
    ASSUME TypeOK, NEW s \in Sessions, build[s] # None,
           NEW D \in SUBSET Files, NEW F
    PROVE  StatesOf(s, D, F) \in [D -> Signature \cup {None}]
  <1>1. Memo(s) \in [Files -> Signature \cup {None}]
    BY DEF TypeOK, Memo, Build
  <1>2. QED
    BY <1>1 DEF StatesOf

LEMMA MadeTyped ==
    ASSUME TypeOK, Shapes, NEW s \in Sessions, NEW d \in Docs,
           job[s][d].pc = "compile"
    PROVE  Made(s, d) \in Entry
  <1>1. /\ build[s] # None /\ build[s] \in Build /\ JobShape(s, d)
        /\ Memo(s) \in [Files -> Signature \cup {None}]
        /\ job[s][d] \in Job /\ d \in Files
    BY Running
  <1>2. Memo(s)[d] \in Signature /\ job[s][d].text \in Texts
    BY <1>1 DEF JobShape, Job
  <1>3. StatesOf(s, Deps, UsedBy(job[s][d])) \in [Deps -> Signature \cup {None}]
    BY <1>1, StatesTyped DEF Files
  <1>4. /\ build[s].config \in Configs /\ build[s].readAt \in Nat
        /\ build[s].dry \in BOOLEAN
    BY <1>1 DEF Build
  <1>5. job[s][d].used \in [Deps -> Texts \cup {None}]
    BY <1>1 DEF Job
  <1>6. QED
    BY <1>2, <1>3, <1>4, <1>5 DEF Made, Entry

LEMMA RefreshedTyped ==
    ASSUME TypeOK, Shapes, NEW s \in Sessions, NEW d \in Docs,
           job[s][d].pc = "dependencies"
    PROVE  /\ Refreshed(s, d) \in Entry
           /\ \A b \in BOOLEAN :
                 [Refreshed(s, d) EXCEPT !.stored = @ \/ b] \in Entry
           /\ job[s][d].entry \in Entry
  <1>1. /\ build[s] # None /\ build[s] \in Build /\ JobShape(s, d)
        /\ Memo(s) \in [Files -> Signature \cup {None}]
        /\ job[s][d] \in Job /\ d \in Files
    BY Running
  <1>2. Memo(s)[d] \in Signature /\ job[s][d].entry \in Entry
    BY <1>1 DEF JobShape, Job
  <1>3. StatesOf(s, Deps, Uses[job[s][d].text]) \in [Deps -> Signature \cup {None}]
    BY <1>1, StatesTyped DEF Files
  <1>4. build[s].readAt \in Nat
    BY <1>1 DEF Build
  <1>5. Refreshed(s, d) \in Entry
    BY <1>2, <1>3, <1>4 DEF Refreshed, Entry
  <1>6. \A b \in BOOLEAN : [Refreshed(s, d) EXCEPT !.stored = @ \/ b] \in Entry
    BY <1>5 DEF Entry
  <1>7. QED
    BY <1>2, <1>5, <1>6

LEMMA CheckFileTypes ==
    ASSUME TypeOK, Shapes, NEW s \in Sessions, NEW d \in Docs, CheckFile(s, d)
    PROVE  TypeOK'
  <1> DEFINE e == Candidate(s, d)
             usable == Usable(s, e)
             next == IF ~usable THEN "stale"
                     ELSE IF ProvesUnchanged(e.sig, Look(s, d), e.readAt)
                          THEN "dependencies" ELSE "compare"
             entry == IF usable THEN e ELSE None
             kept == usable /\ cache[s][d] = None
  <1>1. build[s] # None /\ d \in Files
    BY Running DEF CheckFile
  <1>2. next \in Steps /\ entry \in Entry \cup {None} /\ kept \in BOOLEAN
    BY DEF Steps, Candidate, TypeOK, Usable
  <1>3. /\ build' = Remember(s, d)
        /\ job' = [job EXCEPT ![s][d] = [Idle EXCEPT !.pc = next, !.entry = entry,
                                                     !.fromStore = kept]]
        /\ UNCHANGED <<now, text, state, hasty, store, fields, cache, seen, calm>>
    BY DEF CheckFile, disk
  <1> HIDE DEF next, entry, kept
  <1>4. build' \in [Sessions -> Build \cup {None}]
    BY <1>1, <1>3, LookTyped
  <1>5. [Idle EXCEPT !.pc = next, !.entry = entry, !.fromStore = kept] \in Job
    BY <1>2, JobMade, NoneIsNone
  <1>6. job' \in [Sessions -> [Docs -> Job]]
    BY <1>3, <1>5, JobSet
  <1>7. QED
    BY <1>3, <1>4, <1>6 DEF TypeOK

LEMMA ReuseTypes ==
    ASSUME TypeOK, Shapes, NEW s \in Sessions, NEW d \in Docs, Reuse(s, d)
    PROVE  TypeOK'
  <1> DEFINE e == [Refreshed(s, d) EXCEPT !.stored = @ \/ job[s][d].fromStore]
  <1>1. job[s][d] \in Job /\ job[s][d].pc = "dependencies"
    BY DEF Reuse, TypeOK
  <1>2. e \in Entry
    BY <1>1, RefreshedTyped DEF Job
  <1>3. /\ job' = [job EXCEPT ![s][d] = [Idle EXCEPT !.pc = "reused", !.entry = e]]
        /\ cache' = [cache EXCEPT ![s][d] = e]
        /\ store' = store \/ store' = [store EXCEPT ![d] = e]
        /\ UNCHANGED <<now, text, state, hasty, fields, build, seen, calm>>
    BY DEF Reuse, Written, disk
  <1> HIDE DEF e
  <1>4. job' \in [Sessions -> [Docs -> Job]]
    <2>1. [Idle EXCEPT !.pc = "reused", !.entry = e] \in Job
      BY <1>2, JobMade, NoneIsNone DEF Steps
    <2>2. QED
      BY <1>3, <2>1 DEF TypeOK
  <1>5. store' \in [Docs -> Entry \cup {None}]
    BY <1>2, <1>3 DEF TypeOK
  <1>6. cache' \in [Sessions -> [Docs -> Entry \cup {None}]]
    BY <1>2, <1>3 DEF TypeOK
  <1>7. QED
    BY <1>3, <1>4, <1>5, <1>6 DEF TypeOK

LEMMA FinishTypes ==
    ASSUME TypeOK, Shapes, NEW s \in Sessions, NEW d \in Docs, Finish(s, d)
    PROVE  TypeOK'
  <1>1. Made(s, d) \in Entry
    BY MadeTyped DEF Finish
  <1>2. /\ job' = [job EXCEPT ![s][d] =
                      [Idle EXCEPT !.pc = "fresh", !.entry = Made(s, d)]]
        /\ store' = store \/ store' = [store EXCEPT ![d] = Made(s, d)]
        /\ UNCHANGED <<now, text, state, hasty, fields, cache, build, seen, calm>>
    BY DEF Finish, Written, disk
  <1>3. job' \in [Sessions -> [Docs -> Job]]
    <2>1. [Idle EXCEPT !.pc = "fresh", !.entry = Made(s, d)] \in Job
      BY <1>1, JobMade, NoneIsNone DEF Steps
    <2>2. QED
      BY <1>2, <2>1 DEF TypeOK
  <1>4. store' \in [Docs -> Entry \cup {None}]
    BY <1>1, <1>2 DEF TypeOK
  <1>5. QED
    BY <1>2, <1>3, <1>4 DEF TypeOK

LEMMA KeepFieldTypes ==
    ASSUME TypeOK, Shapes, NEW s \in Sessions, NEW d \in Docs, KeepField(s, d)
    PROVE  TypeOK'
  <1> DEFINE j == job[s][d]
             k == <<build[s].config, j.text>>
             v == [states |-> StatesOf(s, Cached, CachedOf(j)),
                   values |-> [f \in Cached |-> j.used[f]]]
  <1>1. /\ build[s] # None /\ build[s] \in Build /\ JobShape(s, d)
        /\ j \in Job /\ j.pc = "compile"
    BY Running DEF KeepField
  <1>2. k \in Configs \X Texts
    BY <1>1 DEF Build, Job, JobShape
  <1>3. v \in Field
    <2>1. StatesOf(s, Cached, CachedOf(j)) \in [Cached -> Signature \cup {None}]
      BY <1>1, StatesTyped DEF Files, Deps
    <2>2. [f \in Cached |-> j.used[f]] \in [Cached -> Texts \cup {None}]
      BY <1>1 DEF Job, Deps
    <2>3. QED
      BY <2>1, <2>2 DEF Field
  <1>4. [j EXCEPT !.hit = TRUE] \in Job
    BY <1>1 DEF Job
  <1>5. /\ fields' = [fields EXCEPT ![k] = v]
        /\ job' = [job EXCEPT ![s][d] = [j EXCEPT !.hit = TRUE]]
        /\ UNCHANGED <<now, text, state, hasty, store, cache, build, seen, calm>>
    BY DEF KeepField, disk
  <1> HIDE DEF j, k, v
  <1>6. job' \in [Sessions -> [Docs -> Job]]
    BY <1>4, <1>5, JobSet
  <1>7. fields' \in [Configs \X Texts -> Field \cup {None}]
    BY <1>2, <1>3, <1>5 DEF TypeOK
  <1>8. QED
    BY <1>5, <1>6, <1>7 DEF TypeOK

\* The steps of a document that change nothing but its job.
JobStep(s, d) ==
    \/ CompareContent(s, d) \/ DependencyChanged(s, d) \/ Load(s, d) \/ Lookup(s, d)
    \/ (\E f \in Deps : CompileReads(s, d, f)) \/ Fail(s, d)

LEMMA JobStepTypes ==
    ASSUME TypeOK, Shapes, NEW s \in Sessions, NEW d \in Docs, JobStep(s, d)
    PROVE  /\ TypeOK'
           /\ UNCHANGED <<now, text, state, hasty, store, fields, cache, build, seen, calm>>
           /\ job'[s][d] \in Job
           /\ \A q \in Sessions, e \in Docs :
                 q # s \/ e # d => job'[q][e] = job[q][e]
  <1> DEFINE j == job[s][d]
  <1>1. UNCHANGED <<now, text, state, hasty, store, fields, cache, build, seen, calm>>
    BY DEF JobStep, CompareContent, DependencyChanged, Load, Lookup, CompileReads,
       Fail, disk
  <1>2. j.pc # "idle"
    BY DEF JobStep, CompareContent, DependencyChanged, Load, Lookup, CompileReads, Fail
  <1>3. /\ build[s] # None /\ build[s] \in Build /\ JobShape(s, d)
        /\ j \in Job /\ d \in Files
    BY <1>2, Running
  <1>4. text[d] \in Texts
    BY <1>3 DEF TypeOK
  <1>5. \E new \in Job : job' = [job EXCEPT ![s][d] = new]
    <2>1. CASE CompareContent(s, d)
      <3>1. [j EXCEPT !.pc = "dependencies", !.text = text[d]] \in Job
        BY <1>3, <1>4 DEF Job, Steps
      <3>2. [Idle EXCEPT !.pc = "stale", !.text = text[d]] \in Job
        BY <1>4, JobMade DEF Steps
      <3>3. QED
        BY <2>1, <3>1, <3>2 DEF CompareContent
    <2>2. CASE DependencyChanged(s, d)
      <3>1. [Idle EXCEPT !.pc = "stale", !.text = j.text] \in Job
        BY <1>3 DEF Idle, Steps, Job
      <3>2. QED
        BY <2>2, <3>1 DEF DependencyChanged
    <2>3. CASE Load(s, d)
      <3>1. [j EXCEPT !.pc = "lookup",
                      !.text = IF j.text = None THEN text[d] ELSE j.text] \in Job
        BY <1>3, <1>4 DEF Job, Steps
      <3>2. job' = [job EXCEPT ![s][d] =
                       [j EXCEPT !.pc = "lookup",
                                 !.text = IF j.text = None THEN text[d] ELSE j.text]]
        BY <2>3 DEF Load
      <3>3. QED
        BY <3>1, <3>2
    <2>4. CASE Lookup(s, d)
      <3> DEFINE kept == fields[<<build[s].config, j.text>>]
                 hit == kept # None /\ \A f \in CachedOf(j) : kept.states[f] = Memo(s)[f]
                 used == [f \in Deps |-> IF hit /\ f \in Cached THEN kept.values[f]
                                         ELSE None]
      <3>1. kept \in Field \cup {None}
        <4>1. j.text \in Texts /\ build[s].config \in Configs
          BY <1>3, <2>4 DEF Lookup, JobShape, Job, Build
        <4>2. QED
          BY <4>1 DEF TypeOK
      <3>2. used \in [Deps -> Texts \cup {None}] /\ hit \in BOOLEAN
        BY <3>1 DEF Field
      <3>3. job' = [job EXCEPT ![s][d] = [j EXCEPT !.pc = "compile", !.hit = hit,
                                                   !.used = used]]
        BY <2>4 DEF Lookup
      <3> HIDE DEF hit, used
      <3>4. [j EXCEPT !.pc = "compile", !.hit = hit, !.used = used] \in Job
        BY <1>3, <3>2 DEF Job, Steps
      <3>5. QED
        BY <3>3, <3>4
    <2>5. ASSUME NEW f \in Deps, CompileReads(s, d, f)
          PROVE  \E new \in Job : job' = [job EXCEPT ![s][d] = new]
      <3>1. text[f] \in Texts
        BY DEF TypeOK, Files
      <3>2. [j EXCEPT !.used = [@ EXCEPT ![f] = text[f]]] \in Job
        BY <1>3, <3>1 DEF Job
      <3>3. job' = [job EXCEPT ![s][d] = [j EXCEPT !.used = [@ EXCEPT ![f] = text[f]]]]
        BY <2>5 DEF CompileReads
      <3>4. QED
        BY <3>2, <3>3
    <2>6. CASE Fail(s, d)
      <3>1. [Idle EXCEPT !.pc = "failed"] \in Job
        BY DEF Idle, Steps, Job
      <3>2. QED
        BY <2>6, <3>1 DEF Fail
    <2>7. QED
      BY <2>1, <2>2, <2>3, <2>4, <2>5, <2>6 DEF JobStep
  <1>6. PICK new \in Job : job' = [job EXCEPT ![s][d] = new]
    BY <1>5
  <1>7. /\ job' \in [Sessions -> [Docs -> Job]] /\ job'[s][d] \in Job
        /\ \A q \in Sessions, e \in Docs : q # s \/ e # d => job'[q][e] = job[q][e]
    BY <1>6, JobSet
  <1>8. QED
    BY <1>1, <1>7 DEF TypeOK

LEMMA EditTypes ==
    ASSUME TypeOK, NEW f \in Files, Edit(f) \/ Replace(f)
    PROVE  TypeOK'
  <1>1. PICK t \in Texts \ {text[f]} : Witness(f, t)
    BY DEF Edit, Replace
  <1>2. /\ text' \in [Files -> Texts] /\ calm' \in [Sessions -> Configs \cup {None}]
        /\ UNCHANGED <<now, store, fields, cache, build, job>>
    BY <1>1 DEF Witness, TypeOK
  <1>3. seen' \in [Sessions -> [Files -> SUBSET Texts]]
    BY <1>1 DEF Witness, TypeOK
  <1>4. state' \in [Files -> Signature]
    <2>1. CASE Edit(f)
      <3>1. Coarse(now) \in Nat
        BY CoarseFacts DEF TypeOK
      <3>2. [state[f] EXCEPT !.mtime = Coarse(now)] \in Signature
        BY <3>1 DEF TypeOK, Signature
      <3>3. QED
        BY <2>1, <3>2 DEF Edit, TypeOK
    <2>2. CASE Replace(f)
      <3>1. [mtime |-> 0, ino |-> state[f].ino + 1] \in Signature
        BY DEF TypeOK, Signature
      <3>2. QED
        BY <2>2, <3>1 DEF Replace, TypeOK
    <2>3. QED
      BY <2>1, <2>2
  <1>5. hasty' \in SUBSET Cached
    <2>1. hasty \in SUBSET Cached
      BY DEF TypeOK
    <2>2. QED
      BY <2>1 DEF Edit, Replace
  <1>6. QED
    BY <1>2, <1>3, <1>4, <1>5 DEF TypeOK

LEMMA NoBuildTypes ==
    ASSUME TypeOK, NEW s \in Sessions, NoBuild(s)
    PROVE  /\ build' \in [Sessions -> Build \cup {None}]
           /\ job' \in [Sessions -> [Docs -> Job]]
           /\ seen' \in [Sessions -> [Files -> SUBSET Texts]]
  <1>1. build' \in [Sessions -> Build \cup {None}]
    BY DEF NoBuild, TypeOK
  <1>2. job' \in [Sessions -> [Docs -> Job]]
    BY IdleJob DEF NoBuild, TypeOK
  <1>3. seen' \in [Sessions -> [Files -> SUBSET Texts]]
    BY DEF NoBuild, TypeOK
  <1>4. QED
    BY <1>1, <1>2, <1>3

\* What a session has when a build is over.
KeptBy(s) == [d \in Docs |-> IF job[s][d].pc = "fresh" THEN job[s][d].entry
                           ELSE cache[s][d]]
MarkedStored(e) == [e EXCEPT !.stored = TRUE]

LEMMA StoredTyped ==
    ASSUME NEW e \in Entry PROVE MarkedStored(e) \in Entry
  BY DEF Entry, MarkedStored

LEMMA EndBuildFacts ==
    ASSUME TypeOK, NEW s \in Sessions, EndBuild(s)
    PROVE  \E late \in SUBSET Docs : \E done \in SUBSET late :
              /\ \A d \in late : KeptBy(s)[d] # None
              /\ cache' = [cache EXCEPT ![s] =
                     [d \in Docs |-> IF d \in late THEN MarkedStored(KeptBy(s)[d])
                                     ELSE KeptBy(s)[d]]]
              /\ store' = [d \in Docs |-> IF d \in done THEN MarkedStored(KeptBy(s)[d])
                                          ELSE store[d]]
  <1> DEFINE late == Unstored(s, KeptBy(s))
  <1>1. late \in SUBSET Docs /\ \A d \in late : KeptBy(s)[d] # None
    BY DEF Unstored
  <1>2. /\ cache' = [cache EXCEPT ![s] =
              [d \in Docs |-> IF d \in late THEN MarkedStored(KeptBy(s)[d])
                              ELSE KeptBy(s)[d]]]
        /\ \E done \in SUBSET late :
              store' = [d \in Docs |-> IF d \in done THEN MarkedStored(KeptBy(s)[d])
                                       ELSE store[d]]
    BY DEF EndBuild, KeptBy, MarkedStored
  <1> HIDE DEF late
  <1>3. QED
    BY <1>1, <1>2

LEMMA EndBuildTypes ==
    ASSUME TypeOK, NEW s \in Sessions, EndBuild(s)
    PROVE  TypeOK'
  <1>1. KeptBy(s) \in [Docs -> Entry \cup {None}]
    BY DEF KeptBy, TypeOK, Job
  <1>2. PICK late \in SUBSET Docs : \E done \in SUBSET late :
           /\ \A d \in late : KeptBy(s)[d] # None
           /\ cache' = [cache EXCEPT ![s] =
                  [d \in Docs |-> IF d \in late THEN MarkedStored(KeptBy(s)[d])
                                  ELSE KeptBy(s)[d]]]
           /\ store' = [d \in Docs |-> IF d \in done THEN MarkedStored(KeptBy(s)[d])
                                       ELSE store[d]]
    BY EndBuildFacts
  <1>3. \A d \in late : MarkedStored(KeptBy(s)[d]) \in Entry
    BY <1>1, <1>2, StoredTyped
  <1>4. cache' \in [Sessions -> [Docs -> Entry \cup {None}]]
    <2>1. [d \in Docs |-> IF d \in late THEN MarkedStored(KeptBy(s)[d])
                          ELSE KeptBy(s)[d]] \in [Docs -> Entry \cup {None}]
      BY <1>1, <1>3
    <2>2. QED
      BY <1>2, <2>1 DEF TypeOK
  <1>5. store' \in [Docs -> Entry \cup {None}]
    BY <1>1, <1>2, <1>3 DEF TypeOK
  <1>6. calm' \in [Sessions -> Configs \cup {None}]
    BY DEF EndBuild, TypeOK, Build
  <1>7. QED
    BY <1>4, <1>5, <1>6, NoBuildTypes DEF EndBuild, disk, TypeOK

LEMMA BeginBuildTypes ==
    ASSUME TypeOK, NEW s \in Sessions, NEW c \in Configs, NEW dry \in BOOLEAN,
           BeginBuild(s, c, dry)
    PROVE  TypeOK'
  <1>1. build' \in [Sessions -> Build \cup {None}]
    <2>1. [config |-> c, readAt |-> now, dry |-> dry,
           memo |-> [f \in Files |-> None]] \in Build
      BY DEF TypeOK, Build
    <2>2. QED
      BY <2>1 DEF BeginBuild, TypeOK
  <1>2. job' \in [Sessions -> [Docs -> Job]]
    <2>1. [Idle EXCEPT !.pc = "check"] \in Job
      BY DEF Idle, Steps, Job
    <2>2. QED
      BY <2>1 DEF BeginBuild, TypeOK
  <1>3. seen' \in [Sessions -> [Files -> SUBSET Texts]]
    BY DEF BeginBuild, TypeOK
  <1>4. QED
    BY <1>1, <1>2, <1>3 DEF BeginBuild, disk, TypeOK

LEMMA SessionTypes ==
    ASSUME TypeOK, NEW s \in Sessions,
           \/ Interrupt(s) \/ EndSession(s) \/ BeginValidating(s) \/ Cleanup(s)
           \/ \E f \in Files : Stat(s, f)
    PROVE  TypeOK'
  <1>1. CASE Interrupt(s)
    BY <1>1, NoBuildTypes DEF Interrupt, disk, TypeOK
  <1>2. CASE EndSession(s)
    <2>1. cache' \in [Sessions -> [Docs -> Entry \cup {None}]]
      BY <1>2 DEF EndSession, TypeOK
    <2>2. calm' \in [Sessions -> Configs \cup {None}]
      BY <1>2 DEF EndSession, TypeOK
    <2>3. QED
      BY <1>2, <2>1, <2>2, NoBuildTypes DEF EndSession, disk, TypeOK
  <1>3. CASE BeginValidating(s)
    <2>1. ASSUME NEW d \in Docs PROVE [job[s][d] EXCEPT !.pc = "load"] \in Job
      <3>1. job[s][d] \in Job
        BY DEF TypeOK
      <3>2. QED
        BY <3>1 DEF Job, Steps
    <2>2. job' \in [Sessions -> [Docs -> Job]]
      BY <1>3, <2>1 DEF BeginValidating, TypeOK
    <2>3. cache' \in [Sessions -> [Docs -> Entry \cup {None}]]
      BY <1>3 DEF BeginValidating, TypeOK
    <2>4. QED
      BY <1>3, <2>2, <2>3 DEF BeginValidating, disk, TypeOK
  <1>4. CASE Cleanup(s)
    <2>1. fields' \in [Configs \X Texts -> Field \cup {None}]
      BY <1>4 DEF Cleanup, TypeOK
    <2>2. QED
      BY <1>4, <2>1 DEF Cleanup, disk, TypeOK
  <1>5. ASSUME NEW f \in Files, Stat(s, f) PROVE TypeOK'
    <2>1. build' \in [Sessions -> Build \cup {None}]
      BY <1>5, LookTyped DEF Stat
    <2>2. QED
      BY <1>5, <2>1 DEF Stat, disk, TypeOK
  <1>6. QED
    BY <1>1, <1>2, <1>3, <1>4, <1>5

LEMMA StepTypes ==
    ASSUME TypeOK, Shapes, Next
    PROVE  TypeOK'
  <1>1. CASE Tick
    BY <1>1 DEF Tick, TypeOK
  <1>2. ASSUME NEW f \in Files, Edit(f) \/ Replace(f) PROVE TypeOK'
    BY <1>2, EditTypes
  <1>3. ASSUME NEW s \in Sessions, NEW c \in Configs, NEW dry \in BOOLEAN,
               BeginBuild(s, c, dry)
        PROVE  TypeOK'
    BY <1>3, BeginBuildTypes
  <1>4. ASSUME NEW s \in Sessions, NEW d \in Docs, DocumentStep(s, d)
        PROVE  TypeOK'
    BY <1>4, CheckFileTypes, ReuseTypes, FinishTypes, KeepFieldTypes, JobStepTypes
       DEF DocumentStep, JobStep
  <1>5. ASSUME NEW s \in Sessions, EndBuild(s) PROVE TypeOK'
    BY <1>5, EndBuildTypes
  <1>6. QED
    BY <1>1, <1>2, <1>3, <1>4, <1>5, SessionTypes DEF Next

-----------------------------------------------------------------------------
(* The shape is invariant.                                                 *)

LEMMA StampedStays ==
    ASSUME TypeOK, TypeOK', Stamped, World
    PROVE  Stamped'
  <1>1. /\ now \in Nat /\ now' \in Nat
        /\ Coarse(now) \in Nat /\ Coarse(now') \in Nat /\ Coarse(now) <= Coarse(now')
    BY CoarseFacts DEF TypeOK, World
  <1>2. ASSUME NEW f \in Files PROVE state'[f].mtime <= Coarse(now')
    <2>1. state[f].mtime \in Nat /\ state[f].mtime <= Coarse(now)
      BY DEF TypeOK, Signature, Stamped
    <2>2. \/ state'[f].mtime = state[f].mtime
          \/ state'[f].mtime = Coarse(now)
          \/ state'[f].mtime = 0
      BY StampFacts
    <2>3. QED
      BY <1>1, <2>1, <2>2
  <1>3. QED
    BY <1>2 DEF Stamped, Coarse

LEMMA WitnessedStays ==
    ASSUME TypeOK, TypeOK', Stamped, Witnessed, World
    PROVE  Witnessed'
  <1> SUFFICES ASSUME NEW s \in Sessions, build'[s] # None
               PROVE  /\ build'[s].readAt <= now'
                      /\ \A f \in Files :
                            /\ text'[f] \in seen'[s][f]
                            /\ build'[s].memo[f] # None =>
                                  /\ build'[s].memo[f].ino <= state'[f].ino
                                  /\ f \in Deps => build'[s].memo[f].mtime
                                                     <= state'[f].mtime
                                  /\ seen'[s][f] = {text'[f]} =>
                                        build'[s].memo[f] = state'[f]
    BY DEF Witnessed, Memo
  <1>1. now \in Nat /\ now' \in Nat /\ now' \in {now, now + 1}
    BY DEF TypeOK, World
  <1>2. CASE Begins(s)
    BY <1>1, <1>2 DEF Begins, Untouched
  <1>3. CASE GoesOn(s)
    <2>1. /\ build[s] # None /\ build[s].readAt <= now /\ build[s].readAt \in Nat
          /\ build'[s].readAt = build[s].readAt
      BY <1>3 DEF GoesOn, Witnessed, TypeOK, Build
    <2>2. ASSUME NEW f \in Files PROVE text'[f] \in seen'[s][f]
      BY <1>3, <2>1 DEF GoesOn, Witnessed
    <2>3. ASSUME NEW f \in Files, build'[s].memo[f] # None
          PROVE  /\ build'[s].memo[f].ino <= state'[f].ino
                 /\ f \in Deps => build'[s].memo[f].mtime <= state'[f].mtime
                 /\ seen'[s][f] = {text'[f]} => build'[s].memo[f] = state'[f]
      <3>1. state[f] \in Signature /\ state'[f] \in Signature
        BY DEF TypeOK
      <3>2. CASE build'[s].memo[f] = state[f] /\ Untouched(f)
        BY <3>1, <3>2 DEF Untouched, Signature
      <3>3. CASE build'[s].memo[f] = build[s].memo[f]
        <4>1. /\ build[s].memo[f] \in Signature
              /\ build[s].memo[f].ino <= state[f].ino
              /\ f \in Deps => build[s].memo[f].mtime <= state[f].mtime
              /\ seen[s][f] = {text[f]} => build[s].memo[f] = state[f]
              /\ text[f] \in seen[s][f]
          BY <2>1, <2>3, <3>3 DEF Witnessed, Memo, TypeOK, Build
        <4>2. CASE Untouched(f)
          BY <1>3, <3>3, <4>1, <4>2 DEF Untouched, GoesOn
        <4>3. CASE text'[f] # text[f]
          <5>1. seen'[s][f] # {text'[f]}
            BY <1>3, <4>1, <4>3 DEF GoesOn
          <5>2. state[f].ino <= state'[f].ino
            BY <3>1, StampFacts DEF Signature
          <5>3. f \in Deps => state[f].mtime <= state'[f].mtime
            <6>1. state[f].mtime \in Nat /\ state[f].mtime <= Coarse(now)
              BY <3>1 DEF Signature, Stamped
            <6>2. QED
              BY <6>1, StampFacts, Kinds
          <5>4. QED
            BY <3>1, <3>3, <4>1, <5>1, <5>2, <5>3 DEF Signature
        <4>4. QED
          BY <4>2, <4>3 DEF World, Edited, Moved
      <3>4. QED
        BY <1>3, <3>2, <3>3 DEF GoesOn
    <2>4. QED
      BY <1>1, <2>1, <2>2, <2>3
  <1>4. QED
    BY <1>2, <1>3 DEF World

\* Where a document is when nothing happens to it.
ShapeOf(s, d) == IF build[s] = None THEN job[s][d] = Idle ELSE JobShape(s, d)

LEMMA JobShapeStays ==
    ASSUME TypeOK, NEW s \in Sessions, NEW d \in Docs, GoesOn(s),
           job'[s][d] = job[s][d], JobShape(s, d),
           job[s][d].pc \in {"compare", "dependencies", "reused"} =>
               cache'[s][d] = cache[s][d]
    PROVE  JobShape(s, d)'
  <1> DEFINE j == job[s][d]
  <1>1. \A f \in Files : Memo(s)[f] # None => build'[s].memo[f] = Memo(s)[f]
    BY DEF GoesOn, Memo
  <1>2. /\ build'[s].config = build[s].config /\ build'[s].readAt = build[s].readAt
        /\ d \in Files /\ j \in Job
    BY DEF GoesOn, TypeOK, Files
  <1>3. j.pc # "check" => build'[s].memo[d] = Memo(s)[d] /\ Memo(s)[d] # None
    BY <1>1, <1>2 DEF JobShape
  <1>4. ASSUME j.pc \in {"reused", "fresh"} PROVE Returned(s, d, j.entry)'
    <2>1. Returned(s, d, j.entry) /\ j.entry \in Entry
      BY <1>2, <1>4 DEF JobShape, Job
    <2>2. \A f \in Uses[j.entry.text] : f \in Files
      BY <2>1, Kinds DEF Entry, Files
    <2>3. build'[s].memo[d] = Memo(s)[d]
      BY <1>3, <1>4
    <2>4. \A f \in Uses[j.entry.text] : build'[s].memo[f] = Memo(s)[f]
      BY <1>1, <2>1, <2>2 DEF Returned
    <2>5. QED
      BY <1>2, <2>1, <2>3, <2>4 DEF Returned, Fresh, Memo
  <1>5. /\ j.pc # "idle"
        /\ j.pc # "check" => build'[s].memo[d] # None
        /\ j.pc \in {"compare", "dependencies", "reused", "fresh"} =>
              j.entry # None /\ j.entry.config = build'[s].config
        /\ j.pc \in {"compare", "dependencies"} /\ ~j.fromStore =>
              j.entry = cache'[s][d]
        /\ j.pc = "compare" => j.text = None
        /\ j.pc = "dependencies" =>
              IF j.text = None
              THEN ProvesUnchanged(j.entry.sig, build'[s].memo[d], j.entry.readAt)
              ELSE j.text = j.entry.text
        /\ j.pc \in {"lookup", "compile"} => j.text # None
        /\ j.pc = "reused" => cache'[s][d] = j.entry
    BY <1>2, <1>3 DEF JobShape
  <1>6. QED
    BY <1>4, <1>5 DEF JobShape, Memo

LEMMA ShapeStays ==
    ASSUME TypeOK, Shapes, World, NEW s \in Sessions, NEW d \in Docs,
           job'[s][d] = job[s][d], build'[s] = None <=> build[s] = None,
           job[s][d].pc \in {"compare", "dependencies", "reused"} =>
               cache'[s][d] = cache[s][d]
    PROVE  ShapeOf(s, d)'
  <1>1. CASE build[s] = None
    BY <1>1 DEF Shapes, ShapeOf
  <1>2. CASE build[s] # None
    <2>1. GoesOn(s)
      BY <1>2 DEF World, Begins
    <2>2. JobShape(s, d)
      BY <1>2 DEF Shapes
    <2>3. JobShape(s, d)'
      BY <2>1, <2>2, JobShapeStays
    <2>4. QED
      BY <1>2, <2>3 DEF ShapeOf
  <1>3. QED
    BY <1>1, <1>2

LEMMA OthersKeepShape ==
    ASSUME TypeOK, Shapes, World, NEW s \in Sessions, NEW d \in Docs,
           \A q \in Sessions, e \in Docs : q # s \/ e # d =>
               job'[q][e] = job[q][e] /\ cache'[q][e] = cache[q][e],
           \A q \in Sessions : build'[q] = None <=> build[q] = None,
           build[s] # None, JobShape(s, d)'
    PROVE  Shapes'
  <1>1. ASSUME NEW q \in Sessions, NEW e \in Docs PROVE ShapeOf(q, e)'
    <2>1. CASE q = s /\ e = d
      <3>1. build'[s] # None
        OBVIOUS
      <3>2. ShapeOf(s, d)'
        BY <3>1 DEF ShapeOf
      <3>3. QED
        BY <2>1, <3>2
    <2>2. CASE q # s \/ e # d
      BY <2>2, ShapeStays
    <2>3. QED
      BY <2>1, <2>2
  <1>2. QED
    BY <1>1 DEF Shapes, ShapeOf

LEMMA CheckFileShapes ==
    ASSUME TypeOK, Shapes, World, NEW s \in Sessions, NEW d \in Docs, CheckFile(s, d)
    PROVE  Shapes'
  <1> DEFINE e == Candidate(s, d)
             usable == Usable(s, e)
             next == IF ~usable THEN "stale"
                     ELSE IF ProvesUnchanged(e.sig, Look(s, d), e.readAt)
                          THEN "dependencies" ELSE "compare"
             entry == IF usable THEN e ELSE None
             kept == usable /\ cache[s][d] = None
  <1>1. build[s] # None /\ d \in Files /\ build[s] \in Build
    BY Running DEF CheckFile
  <1>2. next \in Steps /\ entry \in Entry \cup {None} /\ kept \in BOOLEAN
    BY DEF Steps, Candidate, TypeOK, Usable
  <1>3. /\ build' = Remember(s, d)
        /\ job' = [job EXCEPT ![s][d] = [Idle EXCEPT !.pc = next, !.entry = entry,
                                                     !.fromStore = kept]]
        /\ UNCHANGED cache
    BY DEF CheckFile, disk
  <1>4. /\ build' \in [Sessions -> Build \cup {None}]
        /\ build'[s].memo[d] = Look(s, d) /\ Look(s, d) \in Signature
    BY <1>1, <1>3, LookTyped
  <1>5. /\ usable => entry # None /\ entry.config = build[s].config
        /\ usable /\ ~kept => entry = cache[s][d]
        /\ next = "dependencies" =>
              ProvesUnchanged(entry.sig, Look(s, d), entry.readAt)
        /\ next \in {"stale", "dependencies", "compare"}
        /\ next # "stale" => usable
    BY DEF Usable, Candidate
  <1>6. /\ \A q \in Sessions \ {s} : build'[q] = build[q]
        /\ build'[s].config = build[s].config
    BY <1>1, <1>3 DEF Remember, TypeOK, Build
  <1> HIDE DEF next, entry, kept, usable
  <1> DEFINE new == [Idle EXCEPT !.pc = next, !.entry = entry, !.fromStore = kept]
  <1>7. new \in Job
    BY <1>2, JobMade, NoneIsNone
  <1>8. /\ job'[s][d] = new
        /\ \A q \in Sessions, f \in Docs : q # s \/ f # d => job'[q][f] = job[q][f]
    <2>1. job' = [job EXCEPT ![s][d] = new]
      BY <1>3
    <2> HIDE DEF new
    <2>2. QED
      BY <1>7, <2>1 DEF TypeOK
  <1>9. /\ job'[s][d].pc = next /\ job'[s][d].entry = entry
        /\ job'[s][d].fromStore = kept /\ job'[s][d].text = None
    BY <1>8 DEF Idle
  <1>10. build'[s] # None
    <2>1. GoesOn(s) \/ build'[s] = None
      BY <1>1 DEF World, Begins
    <2>2. build'[s] = [build[s] EXCEPT !.memo[d] = Look(s, d)]
      BY <1>3 DEF Remember, TypeOK
    <2>3. [build[s] EXCEPT !.memo[d] = Look(s, d)] \in Build
      BY <1>1, <1>4 DEF Build
    <2>4. QED
      BY <2>2, <2>3, NoneIsNone
  <1>11. JobShape(s, d)'
    BY <1>3, <1>4, <1>5, <1>6, <1>9, NoneIsNone DEF JobShape, Memo
  <1>12. QED
    BY <1>1, <1>3, <1>6, <1>8, <1>10, <1>11, OthersKeepShape

LEMMA ReuseShapes ==
    ASSUME TypeOK, Shapes, World, NEW s \in Sessions, NEW d \in Docs, Reuse(s, d)
    PROVE  Shapes'
  <1> DEFINE j == job[s][d]
             e == [Refreshed(s, d) EXCEPT !.stored = @ \/ job[s][d].fromStore]
  <1>1. /\ build[s] # None /\ build[s] \in Build /\ JobShape(s, d)
        /\ Memo(s) \in [Files -> Signature \cup {None}]
        /\ j \in Job /\ d \in Files /\ j.pc = "dependencies"
    BY Running DEF Reuse
  <1>2. e \in Entry /\ Refreshed(s, d) \in Entry /\ j.entry \in Entry
    BY <1>1, RefreshedTyped DEF Job
  <1>3. /\ job' = [job EXCEPT ![s][d] = [Idle EXCEPT !.pc = "reused", !.entry = e]]
        /\ cache' = [cache EXCEPT ![s][d] = e]
        /\ UNCHANGED build
        /\ \A f \in Uses[j.entry.text] :
              Memo(s)[f] # None /\ DependencyUnchanged(j.entry, f, Memo(s)[f])
    BY DEF Reuse, disk, Known
  <1>4. /\ e.config = Refreshed(s, d).config /\ e.text = Refreshed(s, d).text
        /\ e.sig = Refreshed(s, d).sig /\ e.readAt = Refreshed(s, d).readAt
        /\ e.deps = Refreshed(s, d).deps /\ e.depsAt = Refreshed(s, d).depsAt
    BY <1>2 DEF Entry
  <1>5. /\ Refreshed(s, d).config = build[s].config
        /\ Refreshed(s, d).text = j.entry.text
        /\ Refreshed(s, d).sig = Memo(s)[d]
        /\ Fresh(s, Memo(s)[d].mtime, Refreshed(s, d).readAt)
        /\ \A f \in Uses[j.entry.text] :
              /\ Refreshed(s, d).deps[f] = Memo(s)[f]
              /\ Fresh(s, Memo(s)[f].mtime, Refreshed(s, d).depsAt)
    <2>1. j.entry.config = build[s].config
      BY <1>1 DEF JobShape
    <2>2. CASE j.text = None
      BY <1>1, <1>3, <2>1, <2>2
         DEF JobShape, Refreshed, Fresh, ProvesUnchanged, DependencyUnchanged
    <2>3. CASE j.text # None /\ ~j.fromStore
      <3>1. Refreshed(s, d) = [j.entry EXCEPT !.sig = Memo(s)[d],
                                              !.readAt = build[s].readAt]
        BY <2>3 DEF Refreshed
      <3>2. QED
        BY <1>2, <1>3, <2>1, <3>1 DEF Fresh, DependencyUnchanged, Entry
    <2>4. CASE j.text # None /\ j.fromStore
      <3>1. Refreshed(s, d) = [j.entry EXCEPT !.sig = Memo(s)[d],
                                              !.readAt = build[s].readAt,
                                              !.deps = StatesOf(s, Deps, Uses[j.text]),
                                              !.depsAt = build[s].readAt]
        BY <1>2, <2>4 DEF Refreshed, Entry
      <3>2. j.text = j.entry.text /\ j.text \in Texts
        BY <1>1, <1>2, <2>4 DEF JobShape, Entry
      <3>3. \A f \in Uses[j.text] : StatesOf(s, Deps, Uses[j.text])[f] = Memo(s)[f]
        BY <3>2, Kinds DEF StatesOf
      <3>4. /\ Refreshed(s, d).config = j.entry.config
            /\ Refreshed(s, d).text = j.entry.text
            /\ Refreshed(s, d).sig = Memo(s)[d]
            /\ Refreshed(s, d).readAt = build[s].readAt
            /\ Refreshed(s, d).deps = StatesOf(s, Deps, Uses[j.text])
            /\ Refreshed(s, d).depsAt = build[s].readAt
        BY <1>2, <3>1 DEF Entry
      <3>5. QED
        BY <2>1, <3>2, <3>3, <3>4 DEF Fresh
    <2>5. QED
      BY <2>2, <2>3, <2>4
  <1>6. PICK c \in Entry : c = e
    BY <1>2
  <1> HIDE DEF e
  <1>7. /\ c.config = build[s].config /\ c.text = j.entry.text
        /\ c.sig = Memo(s)[d] /\ Fresh(s, c.sig.mtime, c.readAt)
        /\ \A f \in Uses[c.text] :
              /\ Memo(s)[f] # None /\ c.deps[f] = Memo(s)[f]
              /\ Fresh(s, c.deps[f].mtime, c.depsAt)
    BY <1>3, <1>4, <1>5, <1>6
  <1> DEFINE new == [Idle EXCEPT !.pc = "reused", !.entry = c]
  <1>8. new \in Job
    BY JobMade, NoneIsNone DEF Steps
  <1>9. /\ job'[s][d] = new
        /\ \A q \in Sessions, f \in Docs : q # s \/ f # d => job'[q][f] = job[q][f]
    <2>1. job' = [job EXCEPT ![s][d] = new]
      BY <1>3, <1>6
    <2> HIDE DEF new
    <2>2. QED
      BY <1>8, <2>1 DEF TypeOK
  <1>10. /\ job'[s][d].pc = "reused" /\ job'[s][d].entry = c
         /\ cache'[s][d] = c
         /\ \A q \in Sessions, f \in Docs : q # s \/ f # d => cache'[q][f] = cache[q][f]
    BY <1>3, <1>6, <1>9 DEF Idle, TypeOK
  <1>11. Returned(s, d, c)'
    BY <1>3, <1>7 DEF Returned, Fresh, Memo
  <1>12. Memo(s)[d] # None
    BY <1>1 DEF JobShape
  <1>13. JobShape(s, d)'
    BY <1>3, <1>7, <1>10, <1>11, <1>12, NoneIsNone DEF JobShape, Memo
  <1>14. QED
    BY <1>1, <1>3, <1>9, <1>10, <1>13, OthersKeepShape

LEMMA FinishShapes ==
    ASSUME TypeOK, Shapes, World, NEW s \in Sessions, NEW d \in Docs, Finish(s, d)
    PROVE  Shapes'
  <1> DEFINE j == job[s][d]
             e == Made(s, d)
  <1>1. /\ build[s] # None /\ build[s] \in Build /\ JobShape(s, d)
        /\ Memo(s) \in [Files -> Signature \cup {None}]
        /\ j \in Job /\ d \in Files /\ j.pc = "compile"
    BY Running DEF Finish
  <1>2. e \in Entry
    BY <1>1, MadeTyped
  <1>3. /\ job' = [job EXCEPT ![s][d] = [Idle EXCEPT !.pc = "fresh", !.entry = e]]
        /\ UNCHANGED <<build, cache>>
        /\ \A f \in UsedBy(j) : Memo(s)[f] # None
    BY DEF Finish, disk, Known
  <1>4. /\ e.config = build[s].config /\ e.text = j.text /\ e.sig = Memo(s)[d]
        /\ e.readAt = build[s].readAt /\ e.depsAt = build[s].readAt
        /\ e.deps = StatesOf(s, Deps, UsedBy(j))
    BY DEF Made
  <1>5. j.text \in Texts /\ \A f \in UsedBy(j) : e.deps[f] = Memo(s)[f]
    BY <1>1, <1>4, Kinds DEF StatesOf, UsedBy, JobShape, Job
  <1>6. PICK c \in Entry : c = e
    BY <1>2
  <1> HIDE DEF e
  <1>7. /\ c.config = build[s].config /\ c.sig = Memo(s)[d]
        /\ Fresh(s, c.sig.mtime, c.readAt)
        /\ \A f \in Uses[c.text] :
              /\ Memo(s)[f] # None /\ c.deps[f] = Memo(s)[f]
              /\ Fresh(s, c.deps[f].mtime, c.depsAt)
    BY <1>3, <1>4, <1>5, <1>6 DEF Fresh, UsedBy
  <1> DEFINE new == [Idle EXCEPT !.pc = "fresh", !.entry = c]
  <1>8. new \in Job
    BY JobMade, NoneIsNone DEF Steps
  <1>9. /\ job'[s][d] = new
        /\ \A q \in Sessions, f \in Docs : q # s \/ f # d => job'[q][f] = job[q][f]
    <2>1. job' = [job EXCEPT ![s][d] = new]
      BY <1>3, <1>6
    <2> HIDE DEF new
    <2>2. QED
      BY <1>8, <2>1 DEF TypeOK
  <1>10. job'[s][d].pc = "fresh" /\ job'[s][d].entry = c
    BY <1>9 DEF Idle
  <1>11. Returned(s, d, c)'
    BY <1>3, <1>7 DEF Returned, Fresh, Memo
  <1>12. Memo(s)[d] # None
    BY <1>1 DEF JobShape
  <1>13. JobShape(s, d)'
    BY <1>3, <1>7, <1>10, <1>11, <1>12, NoneIsNone DEF JobShape, Memo
  <1>14. QED
    BY <1>1, <1>3, <1>9, <1>13, OthersKeepShape

LEMMA JobStepShapes ==
    ASSUME TypeOK, Shapes, World, NEW s \in Sessions, NEW d \in Docs,
           JobStep(s, d) \/ KeepField(s, d)
    PROVE  Shapes'
  <1> DEFINE j == job[s][d]
  <1>1. /\ UNCHANGED <<now, text, state, hasty, store, cache, build, seen, calm>>
        /\ j.pc # "idle"
    BY DEF JobStep, CompareContent, DependencyChanged, Load, Lookup, CompileReads,
       Fail, KeepField, disk
  <1>2. /\ build[s] # None /\ build[s] \in Build /\ JobShape(s, d)
        /\ j \in Job /\ d \in Files
    BY <1>1, Running
  <1>3. text[d] \in Texts
    BY <1>2 DEF TypeOK
  <1>4. /\ job'[s][d].pc \in {"stale", "lookup", "compile", "failed"} \/
           (j.pc = "compare" /\ job'[s][d].pc = "dependencies")
        /\ job'[s][d].pc = "dependencies" =>
              /\ job'[s][d].entry = j.entry /\ job'[s][d].fromStore = j.fromStore
              /\ job'[s][d].text = j.entry.text /\ job'[s][d].text # None
        /\ job'[s][d].pc \in {"lookup", "compile"} => job'[s][d].text # None
        /\ j.pc # "check"
    <2>1. CASE CompareContent(s, d)
      <3>1. CASE text[d] = j.entry.text
        <4>1. job' = [job EXCEPT ![s][d] = [j EXCEPT !.pc = "dependencies",
                                                     !.text = text[d]]]
          BY <2>1, <3>1 DEF CompareContent
        <4>2. job'[s][d] = [j EXCEPT !.pc = "dependencies", !.text = text[d]]
          BY <4>1 DEF TypeOK
        <4>3. QED
          <5>1. j.pc = "compare"
            BY <2>1 DEF CompareContent
          <5>2. /\ job'[s][d].pc = "dependencies" /\ job'[s][d].entry = j.entry
                /\ job'[s][d].fromStore = j.fromStore /\ job'[s][d].text = text[d]
            BY <1>2, <4>2 DEF Job
          <5>3. QED
            BY <1>3, <3>1, <5>1, <5>2, NoneIsNone
      <3>2. CASE text[d] # j.entry.text
        <4>1. job' = [job EXCEPT ![s][d] = [Idle EXCEPT !.pc = "stale", !.text = text[d]]]
          BY <2>1, <3>2 DEF CompareContent
        <4>2. job'[s][d] = [Idle EXCEPT !.pc = "stale", !.text = text[d]]
          BY <4>1 DEF TypeOK
        <4>3. QED
          <5>1. j.pc = "compare"
            BY <2>1 DEF CompareContent
          <5>2. job'[s][d].pc = "stale"
            BY <4>2 DEF Idle
          <5>3. QED
            BY <5>1, <5>2
      <3>3. QED
        BY <3>1, <3>2
    <2>2. CASE DependencyChanged(s, d)
      <3>1. job'[s][d] = [Idle EXCEPT !.pc = "stale", !.text = j.text]
        BY <2>2 DEF DependencyChanged, TypeOK
      <3>2. QED
        <4>1. j.pc = "dependencies"
          BY <2>2 DEF DependencyChanged
        <4>2. job'[s][d].pc = "stale"
          BY <3>1 DEF Idle
        <4>3. QED
          BY <4>1, <4>2
    <2>3. CASE Load(s, d)
      <3>1. job'[s][d] = [j EXCEPT !.pc = "lookup",
                              !.text = IF j.text = None THEN text[d] ELSE j.text]
        BY <2>3 DEF Load, TypeOK
      <3>2. QED
        <4>1. j.pc = "load"
          BY <2>3 DEF Load
        <4>2. job'[s][d].pc = "lookup" /\ job'[s][d].text # None
          BY <1>2, <1>3, <3>1, NoneIsNone DEF Job
        <4>3. QED
          BY <4>1, <4>2
    <2>4. CASE Lookup(s, d)
      <3>1. PICK hit, used :
               job' = [job EXCEPT ![s][d] = [j EXCEPT !.pc = "compile", !.hit = hit,
                                                      !.used = used]]
        BY <2>4 DEF Lookup
      <3>2. job'[s][d] = [j EXCEPT !.pc = "compile", !.hit = hit, !.used = used]
        BY <3>1 DEF TypeOK
      <3>3. job'[s][d].pc = "compile" /\ job'[s][d].text = j.text
        BY <1>2, <3>2 DEF Job
      <3>4. j.pc = "lookup" /\ j.text # None
        BY <1>2, <2>4 DEF Lookup, JobShape
      <3>5. QED
        BY <3>3, <3>4
    <2>5. ASSUME NEW f \in Deps, CompileReads(s, d, f)
          PROVE  job'[s][d].pc = "compile" /\ job'[s][d].text = j.text /\ j.pc = "compile"
      <3>1. job' = [job EXCEPT ![s][d] = [j EXCEPT !.used = [@ EXCEPT ![f] = text[f]]]]
        BY <2>5 DEF CompileReads
      <3>2. job'[s][d] = [j EXCEPT !.used = [@ EXCEPT ![f] = text[f]]]
        BY <3>1 DEF TypeOK
      <3>3. QED
        BY <1>2, <2>5, <3>2 DEF Job, CompileReads
    <2>6. CASE Fail(s, d)
      <3>1. job'[s][d] = [Idle EXCEPT !.pc = "failed"]
        BY <2>6 DEF Fail, TypeOK
      <3>2. QED
        <4>1. j.pc # "check"
          BY <2>6 DEF Fail
        <4>2. job'[s][d].pc = "failed"
          BY <3>1 DEF Idle
        <4>3. QED
          BY <4>1, <4>2
    <2>7. CASE KeepField(s, d)
      <3>1. job' = [job EXCEPT ![s][d] = [j EXCEPT !.hit = TRUE]]
        BY <2>7 DEF KeepField
      <3>2. job'[s][d] = [j EXCEPT !.hit = TRUE]
        BY <3>1 DEF TypeOK
      <3>3. job'[s][d].pc = "compile" /\ job'[s][d].text = j.text /\ j.pc = "compile"
        BY <1>2, <2>7, <3>2 DEF Job, KeepField
      <3>4. QED
        BY <1>2, <3>3 DEF JobShape
    <2>8. CASE \E f \in Deps : CompileReads(s, d, f)
      BY <1>2, <2>5, <2>8 DEF JobShape
    <2>9. QED
      BY <2>1, <2>2, <2>3, <2>4, <2>6, <2>7, <2>8 DEF JobStep
  <1>5. \A q \in Sessions, e \in Docs : q # s \/ e # d => job'[q][e] = job[q][e]
    <2>1. CASE JobStep(s, d)
      BY <2>1, JobStepTypes
    <2>2. CASE KeepField(s, d)
      BY <2>2 DEF KeepField, TypeOK
    <2>3. QED
      BY <2>1, <2>2
  <1>6. JobShape(s, d)'
    BY <1>1, <1>2, <1>4 DEF JobShape, Memo
  <1>7. QED
    BY <1>1, <1>2, <1>5, <1>6, OthersKeepShape

LEMMA NoBuildShapes ==
    ASSUME TypeOK, Shapes, World, NEW s \in Sessions, NoBuild(s),
           \A q \in Sessions \ {s} : cache'[q] = cache[q]
    PROVE  Shapes'
  <1>1. /\ build'[s] = None /\ \A e \in Docs : job'[s][e] = Idle
        /\ \A q \in Sessions \ {s} : build'[q] = build[q] /\ job'[q] = job[q]
    BY DEF NoBuild, TypeOK
  <1>2. ASSUME NEW q \in Sessions, NEW e \in Docs PROVE ShapeOf(q, e)'
    <2>1. CASE q = s
      BY <1>1, <2>1 DEF ShapeOf
    <2>2. CASE q # s
      <3>1. job'[q][e] = job[q][e] /\ cache'[q][e] = cache[q][e] /\ build'[q] = build[q]
        BY <1>1, <2>2
      <3>2. QED
        BY <3>1, ShapeStays
    <2>3. QED
      BY <2>1, <2>2
  <1>3. QED
    BY <1>2 DEF Shapes, ShapeOf

LEMMA BeginBuildShapes ==
    ASSUME TypeOK, Shapes, World, NEW s \in Sessions, NEW c \in Configs,
           NEW dry \in BOOLEAN, BeginBuild(s, c, dry)
    PROVE  Shapes'
  <1>1. /\ \A e \in Docs : job'[s][e] = [Idle EXCEPT !.pc = "check"]
        /\ \A q \in Sessions \ {s} : build'[q] = build[q] /\ job'[q] = job[q]
        /\ UNCHANGED cache
    BY DEF BeginBuild, TypeOK
  <1>2. build'[s] # None
    <2>1. build'[s] = [config |-> c, readAt |-> now, dry |-> dry,
                       memo |-> [f \in Files |-> None]]
      BY DEF BeginBuild, TypeOK
    <2>2. build'[s] \in Build
      BY <2>1 DEF TypeOK, Build
    <2>3. QED
      BY <2>2, NoneIsNone
  <1>3. ASSUME NEW q \in Sessions, NEW e \in Docs PROVE ShapeOf(q, e)'
    <2>1. CASE q = s
      <3>1. job'[s][e].pc = "check"
        BY <1>1 DEF Idle
      <3>2. QED
        BY <1>2, <2>1, <3>1 DEF ShapeOf, JobShape
    <2>2. CASE q # s
      <3>1. job'[q][e] = job[q][e] /\ cache'[q][e] = cache[q][e] /\ build'[q] = build[q]
        BY <1>1, <2>2
      <3>2. QED
        BY <3>1, ShapeStays
    <2>3. QED
      BY <2>1, <2>2
  <1>4. QED
    BY <1>3 DEF Shapes, ShapeOf

LEMMA BeginValidatingShapes ==
    ASSUME TypeOK, Shapes, World, NEW s \in Sessions, BeginValidating(s)
    PROVE  Shapes'
  <1>1. /\ UNCHANGED <<build, text, state>> /\ build[s] # None
        /\ \A q \in Sessions \ {s} : job'[q] = job[q] /\ cache'[q] = cache[q]
        /\ \A e \in Docs : job[s][e].pc \in {"reused", "stale"}
    BY DEF BeginValidating, disk, TypeOK
  <1>2. \A e \in Docs :
           IF job[s][e].pc = "stale"
           THEN job'[s][e] = [job[s][e] EXCEPT !.pc = "load"]
           ELSE job'[s][e] = job[s][e] /\ cache'[s][e] = cache[s][e]
    BY DEF BeginValidating, TypeOK
  <1>3. ASSUME NEW q \in Sessions, NEW e \in Docs PROVE ShapeOf(q, e)'
    <2>1. CASE q = s /\ job[s][e].pc = "stale"
      <3>1. job[s][e] \in Job /\ JobShape(s, e)
        BY <1>1 DEF TypeOK, Shapes
      <3>2. job'[s][e].pc = "load"
        BY <1>2, <2>1, <3>1 DEF Job
      <3>3. QED
        BY <1>1, <2>1, <3>1, <3>2 DEF ShapeOf, JobShape, Memo
    <2>2. CASE ~(q = s /\ job[s][e].pc = "stale")
      <3>1. job'[q][e] = job[q][e] /\ cache'[q][e] = cache[q][e] /\ build'[q] = build[q]
        BY <1>1, <1>2, <2>2
      <3>2. QED
        BY <3>1, ShapeStays
    <2>3. QED
      BY <2>1, <2>2
  <1>4. QED
    BY <1>3 DEF Shapes, ShapeOf

LEMMA StillShapes ==
    ASSUME TypeOK, Shapes, World, UNCHANGED <<job, cache>>,
           \A s \in Sessions : build'[s] = None <=> build[s] = None
    PROVE  Shapes'
  <1>1. ASSUME NEW q \in Sessions, NEW e \in Docs PROVE ShapeOf(q, e)'
    BY ShapeStays
  <1>2. QED
    BY <1>1 DEF Shapes, ShapeOf

LEMMA StepShapes ==
    ASSUME TypeOK, Shapes, World, Next
    PROVE  Shapes'
  <1>1. CASE Tick
    BY <1>1, StillShapes DEF Tick
  <1>2. ASSUME NEW f \in Files, Edit(f) \/ Replace(f) PROVE Shapes'
    <2>1. UNCHANGED <<cache, build, job>>
      BY <1>2, EditWorld
    <2>2. QED
      BY <2>1, StillShapes
  <1>3. ASSUME NEW s \in Sessions, NEW c \in Configs, NEW dry \in BOOLEAN,
               BeginBuild(s, c, dry)
        PROVE  Shapes'
    BY <1>3, BeginBuildShapes
  <1>4. ASSUME NEW s \in Sessions, NEW d \in Docs, DocumentStep(s, d)
        PROVE  Shapes'
    BY <1>4, CheckFileShapes, ReuseShapes, FinishShapes, JobStepShapes
       DEF DocumentStep, JobStep
  <1>5. ASSUME NEW s \in Sessions, NEW f \in Files, Stat(s, f) PROVE Shapes'
    <2>1. UNCHANGED <<job, cache>> /\ build[s] # None /\ build' = Remember(s, f)
      BY <1>5 DEF Stat
    <2>2. /\ build'[s] = [build[s] EXCEPT !.memo[f] = Look(s, f)]
          /\ \A q \in Sessions \ {s} : build'[q] = build[q]
      BY <2>1 DEF Remember, TypeOK
    <2>3. [build[s] EXCEPT !.memo[f] = Look(s, f)] \in Build
      <3>1. build[s] \in Build
        BY <2>1 DEF TypeOK
      <3>2. Look(s, f) \in Signature
        BY <3>1 DEF TypeOK, Build, Look, Memo
      <3>3. QED
        BY <3>1, <3>2 DEF Build
    <2>4. QED
      BY <2>1, <2>2, <2>3, StillShapes, NoneIsNone
  <1>6. ASSUME NEW s \in Sessions, EndBuild(s) \/ Interrupt(s) \/ EndSession(s)
        PROVE  Shapes'
    BY <1>6, NoBuildShapes DEF EndBuild, Interrupt, EndSession, TypeOK
  <1>7. ASSUME NEW s \in Sessions, BeginValidating(s) PROVE Shapes'
    BY <1>7, BeginValidatingShapes
  <1>8. ASSUME NEW s \in Sessions, Cleanup(s) PROVE Shapes'
    BY <1>8, StillShapes DEF Cleanup
  <1>9. QED
    BY <1>1, <1>2, <1>3, <1>4, <1>5, <1>6, <1>7, <1>8 DEF Next

\* The clause of Calm for a session.
CalmOf(s) ==
    calm[s] # None /\ (build[s] # None => build[s].config = calm[s]) =>
        /\ \A d \in Docs : Proven(d, cache[s][d], calm[s])
        /\ build[s] # None =>
              /\ \A f \in Files : Memo(s)[f] # None => Memo(s)[f] = state[f]
              /\ \A d \in Docs :
                    /\ job[s][d].pc \in {"check", "dependencies", "reused"}
                    /\ job[s][d].pc = "dependencies" =>
                          job[s][d].text = None /\ ~job[s][d].fromStore

\* Build s goes on after a quiet one with its config.
IsCalm(s) == build[s] # None /\ calm[s] # None /\ build[s].config = calm[s]

LEMMA CalmFacts ==
    ASSUME TypeOK, Shapes, Calm, NEW s \in Sessions, IsCalm(s)
    PROVE  /\ \A d \in Docs : Proven(d, cache[s][d], calm[s])
           /\ \A f \in Files : Memo(s)[f] # None => Memo(s)[f] = state[f]
           /\ \A d \in Docs :
                 /\ job[s][d].pc \in {"check", "dependencies", "reused"}
                 /\ job[s][d].pc = "dependencies" =>
                       /\ job[s][d].text = None /\ ~job[s][d].fromStore
                       /\ job[s][d].entry = cache[s][d]
  <1>1. /\ \A d \in Docs : Proven(d, cache[s][d], calm[s])
        /\ \A f \in Files : Memo(s)[f] # None => Memo(s)[f] = state[f]
        /\ \A d \in Docs :
              /\ job[s][d].pc \in {"check", "dependencies", "reused"}
              /\ job[s][d].pc = "dependencies" =>
                    job[s][d].text = None /\ ~job[s][d].fromStore
    BY DEF Calm, IsCalm
  <1>2. \A d \in Docs : JobShape(s, d)
    BY DEF Shapes, IsCalm
  <1>3. QED
    BY <1>1, <1>2 DEF JobShape

LEMMA CalmStays ==
    ASSUME Calm, NEW s \in Sessions, UNCHANGED state,
           calm'[s] = calm[s], cache'[s] = cache[s], build'[s] = build[s],
           job'[s] = job[s]
    PROVE  CalmOf(s)'
  <1>1. CalmOf(s)
    BY DEF Calm, CalmOf
  <1>2. QED
    BY <1>1 DEF CalmOf, Proven, Memo

\* A build that is not calm stays so, whatever it does.
LEMMA RestlessStays ==
    ASSUME NEW s \in Sessions, calm'[s] = calm[s], build[s] # None, build'[s] # None,
           build'[s].config = build[s].config, ~IsCalm(s)
    PROVE  CalmOf(s)'
  BY DEF CalmOf, IsCalm

LEMMA LookCalm ==
    ASSUME TypeOK, Calm, NEW s \in Sessions, NEW f \in Files, build[s] # None,
           build' = Remember(s, f)
    PROVE  /\ build'[s] # None /\ build'[s].config = build[s].config
           /\ \A q \in Sessions \ {s} : build'[q] = build[q]
           /\ IsCalm(s) => /\ Look(s, f) = state[f]
                           /\ \A g \in Files : build'[s].memo[g] # None =>
                                 build'[s].memo[g] = state[g]
  <1>1. build[s] \in Build /\ Look(s, f) \in Signature
    BY LookTyped DEF TypeOK
  <1>2. /\ build'[s] = [build[s] EXCEPT !.memo = [@ EXCEPT ![f] = Look(s, f)]]
        /\ \A q \in Sessions \ {s} : build'[q] = build[q]
    BY DEF Remember, TypeOK
  <1>3. [build[s] EXCEPT !.memo = [@ EXCEPT ![f] = Look(s, f)]] \in Build
    BY <1>1 DEF Build
  <1>4. build'[s] # None /\ build'[s].config = build[s].config
    BY <1>1, <1>2, <1>3, NoneIsNone DEF Build
  <1>5. ASSUME IsCalm(s)
        PROVE  /\ Look(s, f) = state[f]
               /\ \A g \in Files : build'[s].memo[g] # None =>
                     build'[s].memo[g] = state[g]
    <2>1. \A g \in Files : Memo(s)[g] # None => Memo(s)[g] = state[g]
      BY <1>5 DEF Calm, IsCalm
    <2>2. Look(s, f) = state[f]
      BY <2>1 DEF Look
    <2>3. \A g \in Files :
             build'[s].memo[g] = IF g = f THEN Look(s, f) ELSE Memo(s)[g]
      BY <1>1, <1>2 DEF Build, Memo
    <2>4. QED
      BY <2>1, <2>2, <2>3
  <1>6. QED
    BY <1>2, <1>4, <1>5

LEMMA CheckFileCalm ==
    ASSUME TypeOK, Shapes, Calm, NEW s \in Sessions, NEW d \in Docs, CheckFile(s, d)
    PROVE  CalmOf(s)'
  <1>1. /\ build[s] # None /\ d \in Files /\ build' = Remember(s, d)
        /\ UNCHANGED <<text, state, cache, calm>>
    BY Running DEF CheckFile, disk
  <1>2. build'[s] # None /\ build'[s].config = build[s].config
    BY <1>1, LookCalm
  <1>3. CASE IsCalm(s)
    <2>1. /\ Look(s, d) = state[d]
          /\ \A f \in Files : build'[s].memo[f] # None => build'[s].memo[f] = state[f]
      BY <1>1, <1>3, LookCalm
    <2>2. /\ \A e \in Docs : Proven(e, cache[s][e], calm[s])
          /\ \A e \in Docs :
                /\ job[s][e].pc \in {"check", "dependencies", "reused"}
                /\ job[s][e].pc = "dependencies" =>
                      job[s][e].text = None /\ ~job[s][e].fromStore
      BY <1>3, CalmFacts
    <2>3. /\ Candidate(s, d) = cache[s][d] /\ cache[s][d] # None
          /\ Usable(s, cache[s][d])
          /\ ProvesUnchanged(cache[s][d].sig, Look(s, d), cache[s][d].readAt)
      BY <1>3, <2>1, <2>2 DEF Proven, Candidate, Usable, IsCalm
    <2>4. job' = [job EXCEPT ![s][d] =
                     [Idle EXCEPT !.pc = "dependencies", !.entry = cache[s][d],
                                  !.fromStore = FALSE]]
      BY <2>3 DEF CheckFile
    <2>5. /\ job'[s][d] = [Idle EXCEPT !.pc = "dependencies", !.entry = cache[s][d],
                                       !.fromStore = FALSE]
          /\ \A e \in Docs \ {d} : job'[s][e] = job[s][e]
      BY <2>4 DEF TypeOK
    <2>6. job'[s][d].pc = "dependencies" /\ job'[s][d].text = None
          /\ ~job'[s][d].fromStore
      BY <2>5 DEF Idle
    <2>7. \A e \in Docs :
                /\ job'[s][e].pc \in {"check", "dependencies", "reused"}
                /\ job'[s][e].pc = "dependencies" =>
                      job'[s][e].text = None /\ ~job'[s][e].fromStore
      BY <2>2, <2>5, <2>6
    <2>8. QED
      BY <1>1, <1>2, <2>1, <2>2, <2>7 DEF CalmOf, Proven, Memo
  <1>4. QED
    BY <1>1, <1>2, <1>3, RestlessStays

LEMMA ReuseCalm ==
    ASSUME TypeOK, Shapes, Calm, NEW s \in Sessions, NEW d \in Docs, Reuse(s, d)
    PROVE  CalmOf(s)'
  <1> DEFINE j == job[s][d]
             e == [j.entry EXCEPT !.stored = @ \/ j.fromStore]
  <1>1. /\ build[s] # None /\ j.pc = "dependencies" /\ j.entry \in Entry /\ j \in Job
    BY Running, RefreshedTyped DEF Reuse
  <1>2. UNCHANGED <<text, state, build, calm>>
    BY DEF Reuse, disk
  <1>3. CASE IsCalm(s)
    <2>1. /\ \A f \in Docs : Proven(f, cache[s][f], calm[s])
          /\ \A f \in Files : Memo(s)[f] # None => Memo(s)[f] = state[f]
          /\ \A f \in Docs :
                /\ job[s][f].pc \in {"check", "dependencies", "reused"}
                /\ job[s][f].pc = "dependencies" =>
                      job[s][f].text = None /\ ~job[s][f].fromStore
          /\ j.text = None /\ j.entry = cache[s][d]
      BY <1>1, <1>3, CalmFacts
    <2>2. Refreshed(s, d) = j.entry
      BY <2>1 DEF Refreshed
    <2>3. /\ job' = [job EXCEPT ![s][d] = [Idle EXCEPT !.pc = "reused", !.entry = e]]
          /\ cache' = [cache EXCEPT ![s][d] = e]
      BY <2>2 DEF Reuse
    <2>4. /\ e \in Entry
          /\ e.config = j.entry.config /\ e.sig = j.entry.sig
          /\ e.readAt = j.entry.readAt /\ e.text = j.entry.text
          /\ e.deps = j.entry.deps /\ e.depsAt = j.entry.depsAt
      BY <1>1 DEF Entry, Job
    <2> HIDE DEF e
    <2>5. Proven(d, e, calm[s])
      BY <2>1, <2>4, NoneIsNone DEF Proven, DependencyUnchanged
    <2>6. /\ job'[s][d].pc = "reused" /\ \A f \in Docs \ {d} : job'[s][f] = job[s][f]
          /\ cache'[s][d] = e /\ \A f \in Docs \ {d} : cache'[s][f] = cache[s][f]
      BY <2>3 DEF TypeOK, Idle
    <2>7. \A f \in Docs :
                /\ job'[s][f].pc \in {"check", "dependencies", "reused"}
                /\ job'[s][f].pc = "dependencies" =>
                      job'[s][f].text = None /\ ~job'[s][f].fromStore
      BY <2>1, <2>6
    <2>8. \A f \in Docs : Proven(f, cache'[s][f], calm[s])
      BY <2>1, <2>5, <2>6
    <2>9. QED
      BY <1>2, <2>1, <2>7, <2>8 DEF CalmOf, Proven, Memo
  <1>4. QED
    BY <1>1, <1>2, <1>3, RestlessStays

\* A calm build takes no other step of a document.
LEMMA OtherStepsCalm ==
    ASSUME TypeOK, Shapes, Calm, NEW s \in Sessions, NEW d \in Docs,
           JobStep(s, d) \/ KeepField(s, d) \/ Finish(s, d)
    PROVE  CalmOf(s)'
  <1>1. UNCHANGED <<build, calm>> /\ job[s][d].pc # "idle"
    BY DEF JobStep, CompareContent, DependencyChanged, Load, Lookup, CompileReads,
       Fail, KeepField, Finish
  <1>2. build[s] # None
    BY <1>1, Running
  <1>3. ASSUME IsCalm(s) PROVE FALSE
    <2>1. /\ job[s][d].pc \in {"check", "dependencies", "reused"}
          /\ Proven(d, cache[s][d], calm[s])
          /\ \A f \in Files : Memo(s)[f] # None => Memo(s)[f] = state[f]
          /\ job[s][d].pc = "dependencies" => job[s][d].entry = cache[s][d]
      BY <1>3, CalmFacts
    <2>2. DependencyChanged(s, d)
      BY <2>1 DEF JobStep, CompareContent, Load, Lookup, CompileReads, Fail,
         KeepField, Finish
    <2>3. job[s][d].pc = "dependencies" /\ job[s][d].entry = cache[s][d]
      BY <2>1, <2>2 DEF DependencyChanged
    <2>4. job[s][d].entry \in Entry
      BY <2>3, RefreshedTyped
    <2>5. \A f \in Uses[cache[s][d].text] : f \in Files
      BY <2>3, <2>4, Kinds DEF Entry, Files
    <2>6. QED
      BY <2>1, <2>2, <2>3, <2>5 DEF DependencyChanged, Proven, DependencyUnchanged
  <1>4. QED
    BY <1>1, <1>2, <1>3, RestlessStays

LEMMA EndBuildCalm ==
    ASSUME TypeOK, Shapes, Witnessed, NEW s \in Sessions, EndBuild(s)
    PROVE  CalmOf(s)'
  <1>1. build'[s] = None /\ UNCHANGED <<text, state, hasty>> /\ build[s] # None
    BY DEF EndBuild, NoBuild, disk, TypeOK
  <1>2. SUFFICES ASSUME calm'[s] # None
                 PROVE  \A d \in Docs : Proven(d, cache'[s][d], calm'[s])
    BY <1>1 DEF CalmOf, Proven
  <1>3. /\ calm'[s] = build[s].config
        /\ \A d \in Docs : job[s][d].pc \in {"reused", "fresh"}
        /\ \A f \in Files : /\ seen[s][f] = {text[f]}
                            /\ IsSettled(state[f].mtime, build[s].readAt)
    BY <1>2 DEF EndBuild, TypeOK
  <1>4. \A f \in Files : Memo(s)[f] # None => Memo(s)[f] = state[f]
    BY <1>1, <1>3 DEF Witnessed
  <1>5. \A d \in Docs : cache'[s][d] = KeptBy(s)[d]
                        \/ cache'[s][d] = MarkedStored(KeptBy(s)[d])
    BY EndBuildFacts DEF TypeOK
  <1>6. ASSUME NEW d \in Docs PROVE Proven(d, cache'[s][d], calm'[s])
    <2> DEFINE e == job[s][d].entry
    <2>1. JobShape(s, d) /\ job[s][d] \in Job /\ d \in Files
      BY <1>1 DEF Shapes, TypeOK, Files
    <2>2. /\ e \in Entry /\ Returned(s, d, e) /\ e.config = build[s].config
          /\ Memo(s)[d] # None /\ KeptBy(s)[d] = e
      BY <1>3, <2>1, NoneIsNone DEF JobShape, Job, KeptBy
    <2> HIDE DEF e
    <2>3. \A f \in Uses[e.text] : f \in Files
      BY <2>2, Kinds DEF Entry, Files
    <2>4. ProvesUnchanged(e.sig, state[d], e.readAt)
      BY <1>3, <1>4, <2>1, <2>2 DEF Returned, Fresh, ProvesUnchanged
    <2>5. \A f \in Uses[e.text] : DependencyUnchanged(e, f, state[f])
      BY <1>3, <1>4, <2>2, <2>3 DEF Returned, Fresh, DependencyUnchanged
    <2>6. Proven(d, e, build[s].config)
      BY <2>2, <2>4, <2>5, NoneIsNone DEF Proven
    <2>7. Proven(d, MarkedStored(e), build[s].config)
      <3>1. MarkedStored(e) \in Entry
        BY <2>2, StoredTyped
      <3>2. /\ MarkedStored(e).config = e.config /\ MarkedStored(e).sig = e.sig
            /\ MarkedStored(e).readAt = e.readAt /\ MarkedStored(e).text = e.text
            /\ MarkedStored(e).deps = e.deps /\ MarkedStored(e).depsAt = e.depsAt
        BY <2>2 DEF MarkedStored, Entry
      <3>3. QED
        BY <2>6, <3>1, <3>2, NoneIsNone DEF Proven, DependencyUnchanged
    <2>8. QED
      BY <1>3, <1>5, <2>2, <2>6, <2>7
  <1>7. QED
    BY <1>6

LEMMA CalmEnds ==
    ASSUME NEW s \in Sessions, calm'[s] = None
    PROVE  CalmOf(s)'
  BY DEF CalmOf

LEMMA StepCalm ==
    ASSUME TypeOK, Shapes, Witnessed, Calm, Next
    PROVE  Calm'
  <1> SUFFICES ASSUME NEW q \in Sessions PROVE CalmOf(q)'
    BY DEF Calm, CalmOf
  <1>1. CASE Tick
    BY <1>1, CalmStays DEF Tick
  <1>2. ASSUME NEW f \in Files, Edit(f) \/ Replace(f) PROVE CalmOf(q)'
    <2>1. calm' = [s \in Sessions |-> None]
      BY <1>2, EditWorld
    <2>2. QED
      BY <2>1, CalmEnds
  <1>3. ASSUME NEW s \in Sessions, NEW c \in Configs, NEW dry \in BOOLEAN,
               BeginBuild(s, c, dry)
        PROVE  CalmOf(q)'
    <2>1. /\ UNCHANGED <<text, state, cache, calm>> /\ build[s] = None
          /\ \A p \in Sessions \ {s} : build'[p] = build[p] /\ job'[p] = job[p]
          /\ \A e \in Docs : job'[s][e] = [Idle EXCEPT !.pc = "check"]
          /\ build'[s] = [config |-> c, readAt |-> now, dry |-> dry,
                          memo |-> [f \in Files |-> None]]
      BY <1>3 DEF BeginBuild, disk, TypeOK
    <2>2. CASE q # s
      BY <2>1, <2>2, CalmStays
    <2>3. CASE q = s
      <3>1. /\ \A e \in Docs : job'[s][e].pc = "check"
            /\ \A f \in Files : build'[s].memo[f] = None
        BY <2>1 DEF Idle
      <3>2. calm[s] # None => \A d \in Docs : Proven(d, cache[s][d], calm[s])
        BY <2>1 DEF Calm
      <3>3. QED
        BY <2>1, <2>3, <3>1, <3>2 DEF CalmOf, Proven, Memo
    <2>4. QED
      BY <2>2, <2>3
  <1>4. ASSUME NEW s \in Sessions, NEW d \in Docs, DocumentStep(s, d)
        PROVE  CalmOf(q)'
    <2>1. CASE q = s
      BY <1>4, <2>1, CheckFileCalm, ReuseCalm, OtherStepsCalm
         DEF DocumentStep, JobStep
    <2>2. CASE q # s
      <3>1. UNCHANGED <<state, calm>> /\ job'[q] = job[q]
        BY <1>4, <2>2 DEF DocumentStep, CheckFile, CompareContent,
           DependencyChanged, Reuse, Load, Lookup, CompileReads, KeepField, Finish,
           Fail, disk, TypeOK
      <3>2. cache'[q] = cache[q]
        BY <1>4, <2>2 DEF DocumentStep, CheckFile, CompareContent,
           DependencyChanged, Reuse, Load, Lookup, CompileReads, KeepField, Finish,
           Fail, TypeOK
      <3>3. build'[q] = build[q]
        <4>1. CASE CheckFile(s, d)
          BY <2>2, <4>1 DEF CheckFile, Remember, TypeOK
        <4>2. CASE ~CheckFile(s, d)
          BY <1>4, <4>2 DEF DocumentStep, CompareContent, DependencyChanged, Reuse,
             Load, Lookup, CompileReads, KeepField, Finish, Fail
        <4>3. QED
          BY <4>1, <4>2
      <3>4. QED
        BY <3>1, <3>2, <3>3, CalmStays
    <2>3. QED
      BY <2>1, <2>2
  <1>5. ASSUME NEW s \in Sessions, NEW f \in Files, Stat(s, f) PROVE CalmOf(q)'
    <2>1. /\ UNCHANGED <<state, cache, job, calm>> /\ build[s] # None
          /\ build' = Remember(s, f)
      BY <1>5 DEF Stat, disk
    <2>2. CASE q # s
      <3>1. build'[q] = build[q]
        BY <2>1, <2>2, LookCalm
      <3>2. QED
        BY <2>1, <3>1, CalmStays
    <2>3. CASE q = s /\ ~IsCalm(s)
      <3>1. build'[s] # None /\ build'[s].config = build[s].config
        BY <2>1, LookCalm
      <3>2. QED
        BY <2>1, <2>3, <3>1, RestlessStays
    <2>4. CASE q = s /\ IsCalm(s)
      <3>1. \A g \in Files : build'[s].memo[g] # None => build'[s].memo[g] = state[g]
        BY <2>1, <2>4, LookCalm
      <3>2. QED
        BY <2>1, <2>4, <3>1, CalmFacts DEF CalmOf, Proven, Memo
    <2>5. QED
      BY <2>2, <2>3, <2>4
  <1>6. ASSUME NEW s \in Sessions, EndBuild(s) \/ Interrupt(s) \/ EndSession(s)
        PROVE  CalmOf(q)'
    <2>1. CASE q # s
      <3>1. /\ UNCHANGED state /\ calm'[q] = calm[q] /\ cache'[q] = cache[q]
            /\ build'[q] = build[q] /\ job'[q] = job[q]
        BY <1>6, <2>1 DEF EndBuild, Interrupt, EndSession, NoBuild, disk, TypeOK
      <3>2. QED
        BY <3>1, CalmStays
    <2>2. CASE q = s /\ EndBuild(s)
      BY <2>2, EndBuildCalm
    <2>3. CASE q = s /\ ~EndBuild(s)
      <3>1. calm'[s] = None
        BY <1>6, <2>3 DEF Interrupt, EndSession, TypeOK
      <3>2. QED
        BY <2>3, <3>1, CalmEnds
    <2>4. QED
      BY <2>1, <2>2, <2>3
  <1>7. ASSUME NEW s \in Sessions, BeginValidating(s) PROVE CalmOf(q)'
    <2>1. /\ UNCHANGED <<state, build, calm>> /\ build[s] # None
          /\ \A p \in Sessions \ {s} : job'[p] = job[p] /\ cache'[p] = cache[p]
          /\ \E d \in Docs : job[s][d].pc = "stale"
      BY <1>7 DEF BeginValidating, disk, TypeOK
    <2>2. CASE q # s
      BY <2>1, <2>2, CalmStays
    <2>3. CASE q = s
      <3>1. ~IsCalm(s)
        BY <2>1, CalmFacts
      <3>2. QED
        BY <2>1, <2>3, <3>1, RestlessStays
    <2>4. QED
      BY <2>2, <2>3
  <1>8. ASSUME NEW s \in Sessions, Cleanup(s) PROVE CalmOf(q)'
    BY <1>8, CalmStays DEF Cleanup, disk
  <1>9. QED
    BY <1>1, <1>2, <1>3, <1>4, <1>5, <1>6, <1>7, <1>8 DEF Next

LEMMA InitialShape == Init => ShapeInv
  <1> SUFFICES ASSUME Init PROVE ShapeInv
    OBVIOUS
  <1>1. now \in Nat /\ Coarse(now) >= 0
    BY InitialStamp, Windows DEF Init
  <1>2. TypeOK
    <2>1. \A f \in Files : [mtime |-> 0, ino |-> 0] \in Signature
      BY DEF Signature
    <2>2. state \in [Files -> Signature] /\ text \in [Files -> Texts]
      BY <2>1 DEF Init
    <2>3. job \in [Sessions -> [Docs -> Job]]
      BY IdleJob DEF Init
    <2>4. /\ store \in [Docs -> Entry \cup {None}]
          /\ fields \in [Configs \X Texts -> Field \cup {None}]
          /\ cache \in [Sessions -> [Docs -> Entry \cup {None}]]
          /\ build \in [Sessions -> Build \cup {None}]
          /\ seen \in [Sessions -> [Files -> SUBSET Texts]]
          /\ calm \in [Sessions -> Configs \cup {None}]
          /\ hasty \in SUBSET Cached
      BY DEF Init
    <2>5. QED
      BY <1>1, <2>2, <2>3, <2>4 DEF TypeOK
  <1>3. Stamped
    BY <1>1 DEF Init, Stamped
  <1>4. QED
    BY <1>2, <1>3 DEF Init, ShapeInv, Witnessed, Shapes, Calm

LEMMA ShapeStep == ShapeInv /\ [Next]_vars => ShapeInv'
  <1> SUFFICES ASSUME ShapeInv, [Next]_vars PROVE ShapeInv'
    OBVIOUS
  <1>1. CASE Next
    <2>1. TypeOK /\ Stamped /\ Witnessed /\ Shapes /\ Calm
      BY DEF ShapeInv
    <2>2. World /\ TypeOK'
      BY <1>1, <2>1, NextWorld, StepTypes
    <2>3. QED
      BY <1>1, <2>1, <2>2, StampedStays, WitnessedStays, StepShapes, StepCalm
         DEF ShapeInv
  <1>2. CASE UNCHANGED vars
    BY <1>2 DEF vars, ShapeInv, TypeOK, Stamped, Coarse, Witnessed, Memo, Shapes,
       JobShape, Returned, Fresh, Calm, Proven
  <1>3. QED
    BY <1>1, <1>2

\* The stamps, what the running builds saw and the steps that validate is at
\* fit together in every state, however the files are edited.
THEOREM ShapeInvariance == Spec => []ShapeInv
  <1>1. QED
    BY InitialShape, ShapeStep, PTL DEF Spec

\* Everything has its type (the records of document-store.ts, field-cache.ts
\* and file-signature.ts).
THEOREM TypeCorrectness == Spec => []TypeOK
  <1>1. ShapeInv => TypeOK
    BY DEF ShapeInv
  <1>2. QED
    BY <1>1, ShapeInvariance, PTL

\* After a good build of settled files, the next one with its config compares
\* states and neither reads, nor compiles, nor checks an unchanged document,
\* whatever the other sessions do to the store and to the field cache
\* (Collector.validate, reuseUnchanged).
THEOREM AnUnchangedDocumentIsNotRead == Spec => []UnchangedIsNotRead
  <1>1. ShapeInv => UnchangedIsNotRead
    <2>1. SUFFICES ASSUME ShapeInv, NEW s \in Sessions, build[s] # None,
                          calm[s] = build[s].config
                   PROVE  \A d \in Docs :
                             job[s][d].pc \in {"check", "dependencies", "reused"}
      BY DEF UnchangedIsNotRead
    <2>2. build[s] \in Build /\ build[s].config # None
      BY <2>1, NoneIsNone DEF ShapeInv, TypeOK, Build
    <2>3. QED
      BY <2>1, <2>2 DEF ShapeInv, Calm
  <1>2. QED
    BY <1>1, ShapeInvariance, PTL

-----------------------------------------------------------------------------
(* The truth is invariant.                                                 *)

LEMMA ShapeParts ==
    ASSUME ShapeInv
    PROVE  TypeOK /\ Stamped /\ Witnessed /\ Shapes /\ Calm
  BY DEF ShapeInv

LEMMA Files1 ==
    /\ \A f \in Deps : f \in Files /\ f \notin Docs
    /\ \A f \in Cached : f \in Deps /\ f \notin Pure
    /\ \A f \in Pure : f \in Deps
    /\ \A d \in Docs : d \in Files
    /\ \A t \in Texts : Uses[t] \subseteq Deps
  BY Kinds DEF Files, Deps

\* What is in a file now is true of it, whatever its state is.
LEMMA TextVouches ==
    ASSUME ShapeInv, NEW f \in Docs, NEW sig, NEW at, at <= now,
           sig.ino <= state[f].ino
    PROVE  Vouches(f, sig, at, text[f])
  BY ShapeParts, Files1 DEF Vouches, Witnessed, LookedAt

LEMMA TextReadSince ==
    ASSUME ShapeInv, NEW f \in Files, NEW at, at <= now
    PROVE  ReadSince(f, at, text[f])
  BY ShapeParts DEF ReadSince, Witnessed

LEMMA TextIdentifies ==
    ASSUME ShapeInv, NEW f \in Files, NEW sig, sig.mtime <= state[f].mtime
    PROVE  Identifies(f, sig, text[f])
  BY ShapeParts DEF Identifies, Witnessed, LookedAt

\* How the stronger facts give the weaker one, with the state of a build.
LEMMA IdentifiesVouches ==
    ASSUME NEW f \in Deps, NEW sig \in Signature, NEW at, NEW t, at <= now,
           Identifies(f, sig, t)
    PROVE  Vouches(f, sig, at, t)
  BY Files1 DEF Identifies, Vouches

LEMMA ReadVouches ==
    ASSUME NEW f \in Pure, NEW sig, NEW at, NEW t, ReadSince(f, at, t)
    PROVE  Vouches(f, sig, at, t)
  BY Files1 DEF ReadSince, Vouches, LookedAt

LEMMA HonestStays ==
    ASSUME ShapeInv, ShapeInv', World, NEW d \in Docs, NEW e \in Entry \cup {None},
           Honest(d, e)
    PROVE  Honest(d, e)'
  <1>1. TypeOK /\ TypeOK' /\ Stamped /\ Witnessed
    BY DEF ShapeInv
  <1>2. ASSUME e # None
        PROVE  /\ Vouches(d, e.sig, e.readAt, e.text)'
               /\ \A f \in Uses[e.text] : Vouches(f, e.deps[f], e.depsAt, e.used[f])'
    <2>1. /\ e \in Entry /\ Vouches(d, e.sig, e.readAt, e.text)
          /\ \A f \in Uses[e.text] : Vouches(f, e.deps[f], e.depsAt, e.used[f])
      BY <1>2 DEF Honest
    <2>2. e.sig \in Signature /\ e.readAt \in Nat /\ e.depsAt \in Nat /\ e.text \in Texts
      BY <2>1 DEF Entry
    <2>3. Vouches(d, e.sig, e.readAt, e.text)'
      BY <1>1, <2>1, <2>2, VouchesStays, Files1
    <2>4. ASSUME NEW f \in Uses[e.text]
          PROVE  Vouches(f, e.deps[f], e.depsAt, e.used[f])'
      <3>1. f \in Files /\ f \notin Docs
        BY <2>2, Files1
      <3>2. QED
        BY <1>1, <2>1, <2>2, <3>1, VouchesStays
    <2>5. QED
      BY <2>3, <2>4
  <1>3. QED
    BY <1>2 DEF Honest

LEMMA StoredHonest ==
    ASSUME NEW d \in Docs, NEW e \in Entry, Honest(d, e)
    PROVE  Honest(d, MarkedStored(e))
  <1>1. /\ MarkedStored(e).sig = e.sig /\ MarkedStored(e).readAt = e.readAt
        /\ MarkedStored(e).text = e.text /\ MarkedStored(e).deps = e.deps
        /\ MarkedStored(e).depsAt = e.depsAt /\ MarkedStored(e).used = e.used
    BY DEF MarkedStored, Entry
  <1>2. QED
    BY <1>1, NoneIsNone DEF Honest

LEMMA UsedStays ==
    ASSUME ShapeInv, ShapeInv', World, NEW s \in Sessions,
           NEW d \in Docs, NEW f \in Deps, NEW t, GoesOn(s), build'[s] # None,
           job[s][d].used[f] # None, UsedIsTrue(s, f, t)
    PROVE  UsedIsTrue(s, f, t)'
  <1>1. TypeOK /\ TypeOK' /\ Stamped /\ Witnessed /\ f \in Files /\ f \notin Docs
    BY Files1 DEF ShapeInv
  <1>2. /\ build[s] # None /\ build[s] \in Build
        /\ build'[s].readAt = build[s].readAt /\ build[s].readAt \in Nat
    BY <1>1 DEF GoesOn, TypeOK, Build
  <1>3. /\ f \in hasty => f \in hasty'
        /\ f \notin hasty' => t \in seen'[s][f]
    <2>1. f \in hasty => f \in hasty'
      BY <1>1, <1>2, HastyStays
    <2>2. QED BY <1>1, <2>1 DEF UsedIsTrue, GoesOn
  <1>4. f \in Pure => ReadSince(f, build[s].readAt, t)'
    BY <1>1, <1>2, ReadSinceStays DEF UsedIsTrue
  <1>5. ASSUME f \in Cached, build'[s].memo[f] = None, f \notin hasty' PROVE t = text'[f]
    <2>1. Memo(s)[f] = None /\ t = text[f]
      <3>1. Memo(s)[f] = None
        <4>1. state[f] # None
          BY <1>1, NoneIsNone DEF TypeOK
        <4>2. QED
          BY <1>1, <1>5, <4>1 DEF GoesOn, Memo
      <3>2. QED
        BY <1>3, <1>5, <3>1 DEF UsedIsTrue
    <2>2. ReadUnlooked(s, f)
      BY <1>2, <2>1 DEF ReadUnlooked, Memo
    <2>3. Untouched(f)
      BY <1>1, <1>5, <2>2 DEF World, Edited, Hides, Moved
    <2>4. QED
      BY <2>1, <2>3 DEF Untouched
  <1>6. ASSUME NEW sig \in Signature, f \in Cached, build'[s].memo[f] = sig
        PROVE  Identifies(f, sig, t)'
    <2>1. CASE build[s].memo[f] = sig
      <3>1. Memo(s)[f] = sig /\ sig # None
        BY <2>1, NoneIsNone DEF Memo
      <3>2. Identifies(f, sig, t)
        BY <1>6, <3>1 DEF UsedIsTrue
      <3>3. QED
        BY <1>1, <1>6, <3>2, IdentifiesStays
    <2>2. CASE build[s].memo[f] = None /\ sig = state[f]
      <3>1. f \notin hasty => t = text[f]
        BY <1>6, <2>2 DEF UsedIsTrue, Memo
      <3>2. sig.mtime <= state[f].mtime
        BY <2>2 DEF Signature
      <3>3. Identifies(f, sig, t)
        BY <1>1, <3>1, <3>2, TextIdentifies DEF Identifies
      <3>4. QED
        BY <1>1, <1>6, <3>3, IdentifiesStays
    <2>3. QED
      BY <1>1, <1>6, <2>1, <2>2 DEF GoesOn
  <1>7. ASSUME f \in Cached
        PROVE  IF build'[s].memo[f] = None THEN f \notin hasty' => t = text'[f]
               ELSE Identifies(f, Memo(s)[f], t)'
    <2>1. CASE build'[s].memo[f] # None
      <3>1. PICK sig \in Signature : sig = build'[s].memo[f]
        BY <1>1, <2>1 DEF TypeOK, Build
      <3>2. Identifies(f, sig, t)'
        BY <1>6, <1>7, <3>1
      <3>3. QED
        BY <2>1, <3>1, <3>2 DEF Memo
    <2>2. QED
      BY <1>5, <1>7, <2>1
  <1>8. QED
    BY <1>2, <1>3, <1>4, <1>7 DEF UsedIsTrue, Memo

LEMMA JobTruthStays ==
    ASSUME ShapeInv, ShapeInv', World, NEW s \in Sessions,
           NEW d \in Docs, NEW j \in Job, GoesOn(s), build'[s] # None,
           job[s][d] = j, JobTruth(s, d, j)
    PROVE  JobTruth(s, d, j)'
  <1>1. TypeOK /\ TypeOK' /\ Stamped /\ Witnessed /\ Shapes
    BY DEF ShapeInv
  <1>2. /\ build[s] # None /\ build[s] \in Build /\ build'[s] \in Build
        /\ build'[s].readAt = build[s].readAt /\ build[s].readAt \in Nat
    BY <1>1 DEF GoesOn, TypeOK, Build
  <1>3. \A f \in Files : seen[s][f] \subseteq seen'[s][f]
    BY DEF GoesOn
  <1>4. ASSUME j.text # None
        PROVE  /\ build'[s].memo[d] # None /\ j.text \in seen'[s][d]
               /\ Vouches(d, Memo(s)[d], build[s].readAt, j.text)'
    <2>1. PICK sig \in Signature : sig = Memo(s)[d]
      BY <1>2, <1>4, Files1 DEF JobTruth, Memo, Build
    <2>2. PICK at \in Nat : at = build[s].readAt
      BY <1>2
    <2>3. build'[s].memo[d] = sig /\ build'[s].readAt = at
      BY <1>2, <1>4, <2>1, <2>2, Files1 DEF GoesOn, JobTruth, Memo
    <2>4. Vouches(d, sig, at, j.text)
      BY <1>4, <2>1, <2>2 DEF JobTruth
    <2>5. Vouches(d, sig, at, j.text)'
      BY <1>1, <2>4, VouchesStays, Files1
    <2>6. j.text \in seen'[s][d]
      BY <1>3, <1>4, Files1 DEF JobTruth
    <2>7. QED
      BY <2>3, <2>5, <2>6, NoneIsNone DEF Memo
  <1>5. ASSUME j.pc = "compile", NEW f \in UsedBy(j), j.used[f] # None
        PROVE  UsedIsTrue(s, f, j.used[f])'
    <2>1. f \in Deps
      <3>1. JobShape(s, d)
        BY <1>1, <1>2 DEF Shapes
      <3>2. j.text \in Texts
        BY <1>5, <3>1 DEF JobShape, Job
      <3>3. QED
        BY <3>2, Files1 DEF UsedBy
    <2>2. UsedIsTrue(s, f, j.used[f])
      BY <1>5 DEF JobTruth
    <2>3. QED
      BY <1>2, <1>5, <2>1, <2>2, UsedStays
  <1>6. ASSUME j.pc = "dependencies" PROVE j.entry.text \in seen'[s][d]
    BY <1>3, <1>6, Files1 DEF JobTruth
  <1>7. ASSUME j.pc \in {"reused", "fresh"} PROVE ReturnedIsSeen(s, d, j.entry)'
    <2>1. ReturnedIsSeen(s, d, j.entry) /\ j.entry \in Entry
      <3>1. JobShape(s, d)
        BY <1>1, <1>2 DEF Shapes
      <3>2. QED
        BY <1>7, <3>1 DEF JobShape, Job, JobTruth
    <2>2. \A f \in Uses[j.entry.text] : f \in Files /\ (f \in hasty => f \in hasty')
      BY <1>1, <1>2, <2>1, HastyStays, Files1 DEF Entry
    <2>3. QED
      BY <1>3, <2>1, <2>2, Files1 DEF ReturnedIsSeen
  <1>8. QED
    BY <1>4, <1>5, <1>6, <1>7 DEF JobTruth, Memo

\* Steps that change neither the files nor what a build has seen.
Same == UNCHANGED <<now, text, state, hasty, build, seen>>

LEMMA SameTruth ==
    ASSUME Same
    PROVE  /\ \A s \in Sessions, d \in Docs : \A j \in Job :
                 JobTruth(s, d, j) => JobTruth(s, d, j)'
           /\ \A d \in Docs : \A e \in Entry \cup {None} : Honest(d, e) => Honest(d, e)'
           /\ \A f \in Files, sig \in Signature \cup {None}, t \in Texts \cup {None} :
                 Identifies(f, sig, t) => Identifies(f, sig, t)'
  <1>1. /\ now' = now /\ text' = text /\ state' = state /\ hasty' = hasty
        /\ build' = build /\ seen' = seen
    BY DEF Same
  <1>2. ASSUME NEW d \in Docs, NEW e \in Entry \cup {None}, Honest(d, e)
        PROVE  Honest(d, e)'
    BY <1>1, <1>2 DEF Honest, Vouches, LookedAt, Memo
  <1>3. ASSUME NEW f \in Files, NEW sig \in Signature \cup {None},
               NEW t \in Texts \cup {None}, Identifies(f, sig, t)
        PROVE  Identifies(f, sig, t)'
    BY <1>1, <1>3 DEF Identifies, LookedAt, Memo
  <1>4. ASSUME NEW s \in Sessions, NEW d \in Docs, NEW j \in Job, JobTruth(s, d, j)
        PROVE  JobTruth(s, d, j)'
    BY <1>1, <1>4 DEF JobTruth, UsedIsTrue, ReturnedIsSeen, Vouches, ReadSince,
       Identifies, LookedAt, Memo, UsedBy
  <1>5. QED
    BY <1>2, <1>3, <1>4

\* An entry whose dependencies are what the build saw vouches with its states.
LEMMA EntryOfSeen ==
    ASSUME NEW s \in Sessions, NEW f \in Deps, NEW e \in Entry, build[s] # None,
           Memo(s)[f] # None, DependencyUnchanged(e, f, Memo(s)[f]),
           Vouches(f, e.deps[f], e.depsAt, e.used[f]), NEW at, at <= now
    PROVE  /\ Vouches(f, Memo(s)[f], at, e.used[f])
           /\ f \notin hasty => e.used[f] \in seen[s][f]
  BY Files1 DEF DependencyUnchanged, Vouches, LookedAt

LEMMA RefreshedIsHonest ==
    ASSUME ShapeInv, TruthInv, NEW s \in Sessions, NEW d \in Docs, Reuse(s, d),
           NEW c, c = [Refreshed(s, d) EXCEPT !.stored = @ \/ job[s][d].fromStore]
    PROVE  c \in Entry /\ Honest(d, c) /\ ReturnedIsSeen(s, d, c)
  <1> DEFINE j == job[s][d]
  <1>1. /\ build[s] # None /\ build[s] \in Build /\ JobShape(s, d)
        /\ Memo(s) \in [Files -> Signature \cup {None}]
        /\ j \in Job /\ d \in Files /\ j.pc = "dependencies"
    BY Running, ShapeParts DEF Reuse
  <1>2. c \in Entry /\ Refreshed(s, d) \in Entry /\ j.entry \in Entry
    BY <1>1, RefreshedTyped, ShapeParts DEF Job
  <1>3. /\ c.config = Refreshed(s, d).config /\ c.text = Refreshed(s, d).text
        /\ c.sig = Refreshed(s, d).sig /\ c.readAt = Refreshed(s, d).readAt
        /\ c.deps = Refreshed(s, d).deps /\ c.depsAt = Refreshed(s, d).depsAt
        /\ c.used = Refreshed(s, d).used
    BY <1>2 DEF Entry
  <1>4. JobTruth(s, d, j) /\ Honest(d, j.entry)
    BY <1>1 DEF TruthInv, JobTruths, Entries
  <1>5. /\ Vouches(d, j.entry.sig, j.entry.readAt, j.entry.text)
        /\ j.entry.text \in seen[s][d]
        /\ \A f \in Uses[j.entry.text] :
              /\ f \in Deps /\ Memo(s)[f] # None
              /\ DependencyUnchanged(j.entry, f, Memo(s)[f])
              /\ Vouches(f, j.entry.deps[f], j.entry.depsAt, j.entry.used[f])
    <2>1. /\ Vouches(d, j.entry.sig, j.entry.readAt, j.entry.text)
          /\ j.entry.text \in seen[s][d]
          /\ \A f \in Uses[j.entry.text] :
                Vouches(f, j.entry.deps[f], j.entry.depsAt, j.entry.used[f])
      BY <1>1, <1>2, <1>4, NoneIsNone DEF JobTruth, Honest
    <2>2. \A f \in Uses[j.entry.text] :
             Memo(s)[f] # None /\ DependencyUnchanged(j.entry, f, Memo(s)[f])
      BY DEF Reuse, Known
    <2>3. \A f \in Uses[j.entry.text] : f \in Deps
      BY <1>2, Files1 DEF Entry
    <2>4. QED
      BY <2>1, <2>2, <2>3
  <1>6. build[s].readAt <= now
    BY <1>1, ShapeParts DEF Witnessed
  <1>7. \A f \in Uses[j.entry.text] :
           /\ Vouches(f, Memo(s)[f], build[s].readAt, j.entry.used[f])
           /\ f \notin hasty => j.entry.used[f] \in seen[s][f]
    BY <1>1, <1>2, <1>5, <1>6, EntryOfSeen
  <1>8. /\ c.text = j.entry.text /\ c.used = j.entry.used
        /\ Vouches(d, c.sig, c.readAt, c.text)
        /\ \A f \in Uses[c.text] : Vouches(f, c.deps[f], c.depsAt, c.used[f])
    <2>1. CASE j.text = None
      BY <1>3, <1>5, <2>1 DEF Refreshed
    <2>2. ASSUME j.text # None
          PROVE  /\ Vouches(d, Memo(s)[d], build[s].readAt, j.entry.text)
                 /\ j.text = j.entry.text
      BY <1>1, <1>4, <2>2 DEF JobTruth, JobShape
    <2>3. CASE j.text # None /\ ~j.fromStore
      <3>1. Refreshed(s, d) = [j.entry EXCEPT !.sig = Memo(s)[d],
                                              !.readAt = build[s].readAt]
        BY <2>3 DEF Refreshed
      <3>2. /\ c.text = j.entry.text /\ c.used = j.entry.used
            /\ c.sig = Memo(s)[d] /\ c.readAt = build[s].readAt
            /\ c.deps = j.entry.deps /\ c.depsAt = j.entry.depsAt
        BY <1>2, <1>3, <3>1 DEF Entry
      <3>3. QED
        BY <1>5, <2>2, <2>3, <3>2
    <2>4. CASE j.text # None /\ j.fromStore
      <3>1. Refreshed(s, d) = [j.entry EXCEPT !.sig = Memo(s)[d],
                                              !.readAt = build[s].readAt,
                                              !.deps = StatesOf(s, Deps, Uses[j.text]),
                                              !.depsAt = build[s].readAt]
        BY <1>2, <2>4 DEF Refreshed, Entry
      <3>2. /\ c.text = j.entry.text /\ c.used = j.entry.used
            /\ c.sig = Memo(s)[d] /\ c.readAt = build[s].readAt
            /\ c.deps = StatesOf(s, Deps, Uses[j.text])
            /\ c.depsAt = build[s].readAt
        BY <1>2, <1>3, <3>1 DEF Entry
      <3>3. \A f \in Uses[j.entry.text] : c.deps[f] = Memo(s)[f]
        BY <1>5, <2>2, <2>4, <3>2 DEF StatesOf
      <3>4. QED
        BY <1>7, <2>2, <2>4, <3>2, <3>3
    <2>5. QED
      BY <2>1, <2>3, <2>4
  <1>9. QED
    BY <1>2, <1>5, <1>7, <1>8 DEF Honest, ReturnedIsSeen

LEMMA MadeIsHonest ==
    ASSUME ShapeInv, TruthInv, NEW s \in Sessions, NEW d \in Docs, Finish(s, d),
           NEW c, c = Made(s, d)
    PROVE  c \in Entry /\ Honest(d, c) /\ ReturnedIsSeen(s, d, c)
  <1> DEFINE j == job[s][d]
  <1>1. /\ build[s] # None /\ build[s] \in Build /\ JobShape(s, d)
        /\ Memo(s) \in [Files -> Signature \cup {None}]
        /\ j \in Job /\ d \in Files /\ j.pc = "compile"
    BY Running, ShapeParts DEF Finish
  <1>2. c \in Entry
    BY <1>1, MadeTyped, ShapeParts
  <1>3. /\ c.text = j.text /\ c.sig = Memo(s)[d]
        /\ c.readAt = build[s].readAt /\ c.depsAt = build[s].readAt
        /\ c.deps = StatesOf(s, Deps, UsedBy(j)) /\ c.used = j.used
    BY DEF Made
  <1>4. JobTruth(s, d, j) /\ j.text \in Texts
    BY <1>1 DEF TruthInv, JobTruths, JobShape, Job
  <1>5. /\ Vouches(d, c.sig, c.readAt, c.text) /\ c.text \in seen[s][d]
    BY <1>3, <1>4, NoneIsNone DEF JobTruth
  <1>6. build[s].readAt <= now
    BY <1>1, ShapeParts DEF Witnessed
  <1>7. ASSUME NEW f \in Uses[c.text]
        PROVE  /\ Vouches(f, c.deps[f], c.depsAt, c.used[f])
               /\ f \notin hasty => c.used[f] \in seen[s][f]
    <2>1. /\ f \in UsedBy(j) /\ f \in Deps /\ j.used[f] # None /\ Memo(s)[f] # None
      BY <1>3, <1>4, Files1 DEF UsedBy, Finish, HasRead, Known
    <2>2. UsedIsTrue(s, f, j.used[f])
      BY <1>1, <1>4, <2>1 DEF JobTruth
    <2>3. c.deps[f] = Memo(s)[f]
      BY <1>3, <2>1 DEF StatesOf
    <2>4. CASE f \in Pure
      BY <1>3, <2>1, <2>2, <2>3, <2>4, ReadVouches DEF UsedIsTrue
    <2>5. CASE f \in Cached
      <3>1. Memo(s)[f] \in Signature /\ Identifies(f, Memo(s)[f], j.used[f])
        BY <1>1, <2>1, <2>2, <2>5, Files1 DEF UsedIsTrue
      <3>2. QED
        BY <1>3, <1>6, <2>1, <2>2, <2>3, <3>1, IdentifiesVouches DEF UsedIsTrue
    <2>6. QED
      BY <1>3, <2>1, <2>2, <2>4, <2>5 DEF UsedIsTrue, Deps
  <1>8. QED
    BY <1>2, <1>5, <1>7 DEF Honest, ReturnedIsSeen

Vouched(d, e) == e \in Entry \cup {None} /\ Honest(d, e)

LEMMA EntriesStep ==
    ASSUME ShapeInv, ShapeInv', World,
           \A d \in Docs :
              /\ Vouched(d, store'[d])
              /\ \A s \in Sessions :
                    Vouched(d, cache'[s][d]) /\ Vouched(d, job'[s][d].entry)
    PROVE  Entries'
  <1>1. ASSUME NEW d \in Docs PROVE Honest(d, store[d])'
    <2>1. PICK e \in Entry \cup {None} : e = store'[d] /\ Honest(d, e)
      BY DEF Vouched
    <2>2. Honest(d, e)'
      BY <2>1, HonestStays
    <2>3. QED
      BY <2>1, <2>2
  <1>2. ASSUME NEW d \in Docs, NEW s \in Sessions PROVE Honest(d, cache[s][d])'
    <2>1. PICK e \in Entry \cup {None} : e = cache'[s][d] /\ Honest(d, e)
      BY DEF Vouched
    <2>2. Honest(d, e)'
      BY <2>1, HonestStays
    <2>3. QED
      BY <2>1, <2>2
  <1>3. ASSUME NEW d \in Docs, NEW s \in Sessions PROVE Honest(d, job[s][d].entry)'
    <2>1. PICK e \in Entry \cup {None} : e = job'[s][d].entry /\ Honest(d, e)
      BY DEF Vouched
    <2>2. Honest(d, e)'
      BY <2>1, HonestStays
    <2>3. QED
      BY <2>1, <2>2
  <1>4. QED
    BY <1>1, <1>2, <1>3 DEF Entries

LEMMA EntriesVouched ==
    ASSUME ShapeInv, Entries
    PROVE  \A d \in Docs :
              /\ Vouched(d, store[d]) /\ Vouched(d, None)
              /\ \A s \in Sessions :
                    Vouched(d, cache[s][d]) /\ Vouched(d, job[s][d].entry)
  BY ShapeParts DEF Entries, Vouched, TypeOK, Job, Honest

LEMMA FieldsStay ==
    ASSUME ShapeInv, ShapeInv', World, FieldValues,
           \A k \in Configs \X Texts : fields'[k] = fields[k] \/ fields'[k] = None
    PROVE  FieldValues'
  <1> SUFFICES ASSUME NEW c \in Configs, NEW t \in Texts, NEW f \in Uses[t] \cap Cached,
                      fields'[<<c, t>>] # None
               PROVE  /\ fields'[<<c, t>>].states[f] # None
                      /\ fields'[<<c, t>>].values[f] # None
                      /\ Identifies(f, fields[<<c, t>>].states[f],
                                    fields[<<c, t>>].values[f])'
    BY DEF FieldValues
  <1>1. fields'[<<c, t>>] = fields[<<c, t>>] /\ fields[<<c, t>>] \in Field
    BY ShapeParts DEF TypeOK
  <1>2. /\ fields[<<c, t>>].states[f] # None /\ fields[<<c, t>>].values[f] # None
        /\ Identifies(f, fields[<<c, t>>].states[f], fields[<<c, t>>].values[f])
    BY <1>1 DEF FieldValues
  <1>3. PICK sig \in Signature, v \in Texts :
           sig = fields[<<c, t>>].states[f] /\ v = fields[<<c, t>>].values[f]
    BY <1>1, <1>2 DEF Field
  <1>4. Identifies(f, sig, v)'
    <2>1. Identifies(f, sig, v) /\ TypeOK /\ TypeOK' /\ Stamped /\ Witnessed
      BY <1>2, <1>3 DEF ShapeInv
    <2>2. QED
      BY <2>1, IdentifiesStays
  <1>5. QED
    BY <1>1, <1>2, <1>3, <1>4

LEMMA JobTruthsStep ==
    ASSUME ShapeInv, ShapeInv', World, JobTruths,
           \A s \in Sessions, d \in Docs : build'[s] # None =>
              \/ GoesOn(s) /\ job'[s][d] = job[s][d]
              \/ JobTruth(s, d, job[s][d])'
    PROVE  JobTruths'
  <1>1. ASSUME NEW s \in Sessions, NEW d \in Docs, build'[s] # None,
               GoesOn(s), job'[s][d] = job[s][d]
        PROVE  JobTruth(s, d, job[s][d])'
    <2>1. PICK j \in Job : j = job[s][d]
      BY ShapeParts DEF TypeOK
    <2>2. JobTruth(s, d, j)
      BY <1>1, <2>1 DEF JobTruths, GoesOn
    <2>3. JobTruth(s, d, j)'
      BY <1>1, <2>1, <2>2, JobTruthStays
    <2>4. QED
      BY <1>1, <2>1, <2>3
  <1>2. QED
    BY <1>1 DEF JobTruths

\* The clock, an edit, a look at a dependency.
LEMMA WorldTruth ==
    ASSUME ShapeInv, ShapeInv', World, TruthInv,
           UNCHANGED <<store, fields, cache, job>>,
           \A s \in Sessions : build[s] = None => build'[s] = None
    PROVE  TruthInv'
  <1>1. Entries'
    <2>1. \A d \in Docs :
             /\ Vouched(d, store'[d])
             /\ \A s \in Sessions :
                   Vouched(d, cache'[s][d]) /\ Vouched(d, job'[s][d].entry)
      BY EntriesVouched DEF TruthInv
    <2>2. QED
      BY <2>1, EntriesStep
  <1>2. FieldValues'
    BY FieldsStay DEF TruthInv
  <1>3. \A s \in Sessions : build'[s] # None => GoesOn(s)
    BY DEF World, Begins
  <1>4. JobTruths'
    BY <1>3, JobTruthsStep DEF TruthInv
  <1>5. QED
    BY <1>1, <1>2, <1>4 DEF TruthInv

\* A step of a document that changes its job, and what is said of it.
LEMMA DocumentTruth ==
    ASSUME ShapeInv, ShapeInv', World, TruthInv, Same,
           NEW s \in Sessions, NEW d \in Docs,
           \A q \in Sessions, e \in Docs :
              q # s \/ e # d => job'[q][e] = job[q][e] /\ cache'[q][e] = cache[q][e],
           \A e \in Docs \ {d} : store'[e] = store[e],
           NEW j \in Job, job'[s][d] = j, JobTruth(s, d, j),
           Vouched(d, store'[d]), Vouched(d, cache'[s][d]), Vouched(d, j.entry),
           FieldValues'
    PROVE  TruthInv'
  <1>1. \A q \in Sessions : build'[q] # None => GoesOn(q)
    BY DEF World, Begins, Same
  <1>2. Entries'
    <2>1. ASSUME NEW e \in Docs
          PROVE  /\ Vouched(e, store'[e])
                 /\ \A q \in Sessions :
                       Vouched(e, cache'[q][e]) /\ Vouched(e, job'[q][e].entry)
      BY EntriesVouched DEF TruthInv
    <2>2. QED
      BY <2>1, EntriesStep
  <1>3. JobTruth(s, d, job[s][d])'
    <2>1. JobTruth(s, d, j)'
      BY SameTruth
    <2>2. QED
      BY <2>1
  <1>4. JobTruths'
    <2>1. \A q \in Sessions, e \in Docs : build'[q] # None =>
              \/ GoesOn(q) /\ job'[q][e] = job[q][e]
              \/ JobTruth(q, e, job[q][e])'
      BY <1>1, <1>3
    <2>2. QED
      BY <2>1, JobTruthsStep DEF TruthInv
  <1>5. QED
    BY <1>2, <1>4 DEF TruthInv

\* A build that is over, or was interrupted.
LEMMA NoBuildTruth ==
    ASSUME ShapeInv, ShapeInv', World, TruthInv,
           NEW s \in Sessions, NoBuild(s), UNCHANGED fields,
           \A q \in Sessions \ {s} : cache'[q] = cache[q],
           \A d \in Docs : Vouched(d, store'[d]) /\ Vouched(d, cache'[s][d])
    PROVE  TruthInv'
  <1>1. /\ build'[s] = None /\ \A d \in Docs : job'[s][d] = Idle
        /\ \A q \in Sessions \ {s} : build'[q] = build[q] /\ job'[q] = job[q]
    BY ShapeParts DEF NoBuild, TypeOK
  <1>2. \A d \in Docs : Vouched(d, None) /\ Idle.entry = None
    BY DEF Vouched, Honest, Idle
  <1>3. Entries'
    <2>1. ASSUME NEW d \in Docs, NEW q \in Sessions
          PROVE  Vouched(d, cache'[q][d]) /\ Vouched(d, job'[q][d].entry)
      BY <1>1, <1>2, EntriesVouched DEF TruthInv
    <2>2. QED
      BY <2>1, EntriesStep
  <1>4. FieldValues'
    BY FieldsStay DEF TruthInv
  <1>5. \A q \in Sessions, d \in Docs : build'[q] # None =>
           GoesOn(q) /\ job'[q][d] = job[q][d]
    BY <1>1 DEF World, Begins
  <1>6. JobTruths'
    BY <1>5, JobTruthsStep DEF TruthInv
  <1>7. QED
    BY <1>3, <1>4, <1>6 DEF TruthInv

LEMMA CheckFileTruth ==
    ASSUME ShapeInv, ShapeInv', World, TruthInv,
           NEW s \in Sessions, NEW d \in Docs, CheckFile(s, d)
    PROVE  TruthInv'
  <1> DEFINE e == Candidate(s, d)
             usable == Usable(s, e)
             next == IF ~usable THEN "stale"
                     ELSE IF ProvesUnchanged(e.sig, Look(s, d), e.readAt)
                          THEN "dependencies" ELSE "compare"
             entry == IF usable THEN e ELSE None
             kept == usable /\ cache[s][d] = None
             new == [Idle EXCEPT !.pc = next, !.entry = entry, !.fromStore = kept]
  <1>1. /\ build[s] # None /\ d \in Files /\ TypeOK /\ Witnessed
    BY Running, ShapeParts DEF CheckFile
  <1>2. /\ next \in {"stale", "dependencies", "compare"} /\ kept \in BOOLEAN
        /\ Vouched(d, entry) /\ Vouched(d, e) /\ entry \in Entry \cup {None}
        /\ next = "dependencies" =>
              entry = e /\ e # None /\ ProvesUnchanged(e.sig, Look(s, d), e.readAt)
    BY EntriesVouched DEF TruthInv, Candidate, Usable, Vouched
  <1>3. /\ job' = [job EXCEPT ![s][d] = new]
        /\ UNCHANGED <<now, text, state, hasty, store, fields, cache, seen, calm>>
    BY DEF CheckFile, disk
  <1>4. next = "dependencies" => e.text \in seen[s][d]
    <2>1. SUFFICES ASSUME next = "dependencies" PROVE e.text \in seen[s][d]
      OBVIOUS
    <2>2. Vouches(d, e.sig, e.readAt, e.text) /\ d \notin hasty
      BY <1>1, <1>2, <2>1, OthersAreTold, Files1 DEF Vouched, Honest
    <2>3. e.sig = Look(s, d) /\ IsSettled(e.sig.mtime, e.readAt)
      BY <1>2, <2>1 DEF ProvesUnchanged
    <2>4. CASE Memo(s)[d] = None
      <3>1. e.sig = state[d]
        BY <2>3, <2>4 DEF Look
      <3>2. e.text = text[d]
        BY <2>2, <2>3, <3>1 DEF Vouches
      <3>3. QED
        BY <1>1, <3>2 DEF Witnessed
    <2>5. CASE Memo(s)[d] # None
      BY <1>1, <2>2, <2>3, <2>5 DEF Look, Vouches, LookedAt
    <2>6. QED
      BY <2>4, <2>5
  <1>5. /\ new.pc = next /\ new.entry = entry /\ new.text = None
    BY DEF Idle
  <1>6. /\ job'[s][d] = new
        /\ \A q \in Sessions, f \in Docs : q # s \/ f # d => job'[q][f] = job[q][f]
    BY <1>1, <1>3 DEF TypeOK
  <1> HIDE DEF next, entry, kept, new, e, usable
  <1>7. JobTruth(s, d, job[s][d])'
    <2>1. /\ job'[s][d].pc = next /\ job'[s][d].entry = entry
          /\ job'[s][d].text = None /\ seen' = seen
      BY <1>3, <1>5, <1>6
    <2>2. next = "dependencies" => entry.text \in seen[s][d]
      BY <1>2, <1>4
    <2>3. QED
      BY <1>2, <2>1, <2>2 DEF JobTruth
  <1>8. build'[s] # None => GoesOn(s)
    BY <1>1 DEF World, Begins
  <1>9. \A q \in Sessions \ {s} : build'[q] = build[q]
    BY <1>1 DEF CheckFile, Remember, TypeOK
  <1>10. Entries'
    <2>1. ASSUME NEW f \in Docs
          PROVE  /\ Vouched(f, store'[f])
                 /\ \A q \in Sessions :
                       Vouched(f, cache'[q][f]) /\ Vouched(f, job'[q][f].entry)
      <3>1. /\ Vouched(f, store[f])
            /\ \A q \in Sessions :
                  Vouched(f, cache[q][f]) /\ Vouched(f, job[q][f].entry)
        BY EntriesVouched DEF TruthInv
      <3>2. QED
        BY <1>2, <1>3, <1>5, <1>6, <3>1
    <2>2. QED
      BY <2>1, EntriesStep
  <1>11. FieldValues'
    BY <1>3, FieldsStay DEF TruthInv
  <1>12. JobTruths'
    <2>1. \A q \in Sessions, f \in Docs : build'[q] # None =>
             \/ GoesOn(q) /\ job'[q][f] = job[q][f]
             \/ JobTruth(q, f, job[q][f])'
      BY <1>6, <1>7, <1>8, <1>9 DEF World, Begins
    <2>2. QED
      BY <2>1, JobTruthsStep DEF TruthInv
  <1>13. QED
    BY <1>10, <1>11, <1>12 DEF TruthInv

LEMMA ReuseTruth ==
    ASSUME ShapeInv, ShapeInv', World, TruthInv,
           NEW s \in Sessions, NEW d \in Docs, Reuse(s, d)
    PROVE  TruthInv'
  <1>1. PICK c : c = [Refreshed(s, d) EXCEPT !.stored = @ \/ job[s][d].fromStore]
    OBVIOUS
  <1>2. c \in Entry /\ Honest(d, c) /\ ReturnedIsSeen(s, d, c)
    BY <1>1, RefreshedIsHonest
  <1>3. PICK j : j = [Idle EXCEPT !.pc = "reused", !.entry = c]
    OBVIOUS
  <1>4. /\ j \in Job /\ j.pc = "reused" /\ j.entry = c /\ j.text = None
    BY <1>2, <1>3 DEF Idle, Job, Steps
  <1>5. /\ job' = [job EXCEPT ![s][d] = j]
        /\ cache' = [cache EXCEPT ![s][d] = c]
        /\ store' = store \/ store' = [store EXCEPT ![d] = c]
        /\ UNCHANGED <<now, text, state, hasty, fields, build, seen>>
    BY <1>1, <1>3 DEF Reuse, Written, disk
  <1>6. /\ job'[s][d] = j /\ cache'[s][d] = c
        /\ \A q \in Sessions, e \in Docs :
              q # s \/ e # d => job'[q][e] = job[q][e] /\ cache'[q][e] = cache[q][e]
        /\ store'[d] \in {store[d], c} /\ \A e \in Docs \ {d} : store'[e] = store[e]
    BY <1>5, ShapeParts DEF TypeOK
  <1>7. JobTruth(s, d, j)
    BY <1>2, <1>4 DEF JobTruth
  <1>8. Vouched(d, c) /\ Vouched(d, store[d])
    BY <1>2, EntriesVouched DEF Vouched, TruthInv
  <1>9. FieldValues' /\ Same
    BY <1>5, FieldsStay DEF TruthInv, Same
  <1>10. QED
    BY <1>4, <1>6, <1>7, <1>8, <1>9, DocumentTruth

LEMMA FinishTruth ==
    ASSUME ShapeInv, ShapeInv', World, TruthInv,
           NEW s \in Sessions, NEW d \in Docs, Finish(s, d)
    PROVE  TruthInv'
  <1>1. PICK c : c = Made(s, d)
    OBVIOUS
  <1>2. c \in Entry /\ Honest(d, c) /\ ReturnedIsSeen(s, d, c)
    BY <1>1, MadeIsHonest
  <1>3. PICK j : j = [Idle EXCEPT !.pc = "fresh", !.entry = c]
    OBVIOUS
  <1>4. /\ j \in Job /\ j.pc = "fresh" /\ j.entry = c /\ j.text = None
    BY <1>2, <1>3 DEF Idle, Job, Steps
  <1>5. /\ job' = [job EXCEPT ![s][d] = j]
        /\ store' = store \/ store' = [store EXCEPT ![d] = c]
        /\ UNCHANGED <<now, text, state, hasty, fields, cache, build, seen>>
    BY <1>1, <1>3 DEF Finish, Written, disk
  <1>6. /\ job'[s][d] = j
        /\ \A q \in Sessions, e \in Docs :
              q # s \/ e # d => job'[q][e] = job[q][e] /\ cache'[q][e] = cache[q][e]
        /\ store'[d] \in {store[d], c} /\ \A e \in Docs \ {d} : store'[e] = store[e]
    BY <1>5, ShapeParts DEF TypeOK
  <1>7. JobTruth(s, d, j)
    BY <1>2, <1>4 DEF JobTruth
  <1>8. Vouched(d, c) /\ Vouched(d, store[d]) /\ Vouched(d, cache[s][d])
    BY <1>2, EntriesVouched DEF Vouched, TruthInv
  <1>9. FieldValues' /\ Same
    BY <1>5, FieldsStay DEF TruthInv, Same
  <1>10. cache'[s][d] = cache[s][d]
    BY <1>5
  <1>11. QED
    BY <1>4, <1>6, <1>7, <1>8, <1>9, <1>10, DocumentTruth

\* What a job may become that has nothing to do but read and compare.
LEMMA JobStepTruth ==
    ASSUME ShapeInv, ShapeInv', World, TruthInv,
           NEW s \in Sessions, NEW d \in Docs, JobStep(s, d)
    PROVE  TruthInv'
  <1> DEFINE old == job[s][d]
  <1>1. /\ UNCHANGED <<now, text, state, hasty, store, fields, cache, build, seen>>
        /\ job'[s][d] \in Job
        /\ \A q \in Sessions, e \in Docs : q # s \/ e # d => job'[q][e] = job[q][e]
    BY JobStepTypes, ShapeParts
  <1>2. old.pc # "idle"
    BY DEF JobStep, CompareContent, DependencyChanged, Load, Lookup, CompileReads, Fail
  <1>3. /\ build[s] # None /\ build[s] \in Build /\ JobShape(s, d)
        /\ Memo(s) \in [Files -> Signature \cup {None}]
        /\ old \in Job /\ d \in Files
    BY <1>2, Running, ShapeParts
  <1>4. JobTruth(s, d, old) /\ Vouched(d, old.entry) /\ Vouched(d, None)
    BY <1>3, EntriesVouched DEF TruthInv, JobTruths
  <1>5. /\ text[d] \in Texts /\ text[d] \in seen[s][d] /\ build[s].readAt <= now
        /\ \A f \in Files : text[f] \in seen[s][f] /\ text[f] \in Texts
    BY <1>3, ShapeParts DEF Witnessed, TypeOK
  <1>6. Memo(s)[d] # None => Vouches(d, Memo(s)[d], build[s].readAt, text[d])
    BY <1>3, <1>5, ShapeParts, TextVouches DEF Witnessed
  <1>7. \E j \in Job : job'[s][d] = j /\ JobTruth(s, d, j) /\ Vouched(d, j.entry)
    <2>1. CASE CompareContent(s, d)
      <3>1. old.pc = "compare" /\ Memo(s)[d] # None
        BY <1>3, <2>1 DEF CompareContent, JobShape
      <3>2. CASE text[d] = old.entry.text
        <4>1. job'[s][d] = [old EXCEPT !.pc = "dependencies", !.text = text[d]]
          BY <2>1, <3>2, ShapeParts DEF CompareContent, TypeOK
        <4>2. PICK j : j = [old EXCEPT !.pc = "dependencies", !.text = text[d]]
          OBVIOUS
        <4>3. /\ j \in Job /\ j.pc = "dependencies" /\ j.text = text[d]
              /\ j.entry = old.entry
          BY <1>3, <1>5, <4>2 DEF Job, Steps
        <4>4. JobTruth(s, d, j)
          BY <1>5, <1>6, <3>1, <3>2, <4>3 DEF JobTruth
        <4>5. QED
          BY <1>4, <4>1, <4>2, <4>3, <4>4
      <3>3. CASE text[d] # old.entry.text
        <4>1. job'[s][d] = [Idle EXCEPT !.pc = "stale", !.text = text[d]]
          BY <2>1, <3>3, ShapeParts DEF CompareContent, TypeOK
        <4>2. PICK j : j = [Idle EXCEPT !.pc = "stale", !.text = text[d]]
          OBVIOUS
        <4>3. j \in Job /\ j.pc = "stale" /\ j.text = text[d] /\ j.entry = None
          BY <1>5, <4>2 DEF Idle, Job, Steps
        <4>4. JobTruth(s, d, j)
          BY <1>5, <1>6, <3>1, <4>3 DEF JobTruth
        <4>5. QED
          BY <1>4, <4>1, <4>2, <4>3, <4>4
      <3>4. QED
        BY <3>2, <3>3
    <2>2. CASE DependencyChanged(s, d)
      <3>1. job'[s][d] = [Idle EXCEPT !.pc = "stale", !.text = old.text]
        BY <2>2, ShapeParts DEF DependencyChanged, TypeOK
      <3>2. PICK j : j = [Idle EXCEPT !.pc = "stale", !.text = old.text]
        OBVIOUS
      <3>3. j \in Job /\ j.pc = "stale" /\ j.text = old.text /\ j.entry = None
        BY <1>3, <3>2 DEF Idle, Job, Steps
      <3>4. JobTruth(s, d, j)
        BY <1>4, <3>3 DEF JobTruth
      <3>5. QED
        BY <1>4, <3>1, <3>2, <3>3, <3>4
    <2>3. CASE Load(s, d)
      <3>1. /\ old.pc = "load" /\ Memo(s)[d] # None
            /\ job'[s][d] = [old EXCEPT !.pc = "lookup",
                                !.text = IF old.text = None THEN text[d] ELSE old.text]
        <4>1. old.pc = "load"
          BY <2>3 DEF Load
        <4>2. QED
          BY <1>3, <2>3, <4>1, ShapeParts DEF Load, TypeOK, JobShape
      <3>2. PICK j : j = [old EXCEPT !.pc = "lookup",
                             !.text = IF old.text = None THEN text[d] ELSE old.text]
        OBVIOUS
      <3>3. /\ j \in Job /\ j.pc = "lookup" /\ j.entry = old.entry
            /\ j.text = IF old.text = None THEN text[d] ELSE old.text
        BY <1>3, <1>5, <3>2 DEF Job, Steps
      <3>4. JobTruth(s, d, j)
        BY <1>4, <1>5, <1>6, <3>1, <3>3 DEF JobTruth
      <3>5. QED
        BY <1>4, <3>1, <3>2, <3>3, <3>4
    <2>4. CASE Lookup(s, d)
      <3> DEFINE kept == fields[<<build[s].config, old.text>>]
                 hit == kept # None /\ \A f \in CachedOf(old) : kept.states[f] = Memo(s)[f]
                 used == [f \in Deps |-> IF hit /\ f \in Cached THEN kept.values[f]
                                         ELSE None]
      <3>1. /\ old.pc = "lookup" /\ old.text \in Texts /\ build[s].config \in Configs
            /\ kept # None => Known(s, CachedOf(old))
        <4>1. old.pc = "lookup" /\ (kept # None => Known(s, CachedOf(old)))
          BY <2>4 DEF Lookup
        <4>2. QED
          BY <1>3, <4>1 DEF JobShape, Job, Build
      <3>2. job'[s][d] = [old EXCEPT !.pc = "compile", !.hit = hit, !.used = used]
        BY <2>4, ShapeParts DEF Lookup, TypeOK
      <3>3. PICK j : j = [old EXCEPT !.pc = "compile", !.hit = hit, !.used = used]
        OBVIOUS
      <3>4. ASSUME NEW f \in UsedBy(old), used[f] # None
            PROVE  UsedIsTrue(s, f, used[f])
        <4>1. f \in Deps /\ hit /\ f \in Cached /\ used[f] = kept.values[f]
          BY <3>1, <3>4, Files1 DEF UsedBy
        <4>2. f \in Uses[old.text] \cap Cached /\ f \in CachedOf(old)
          BY <4>1 DEF UsedBy, CachedOf
        <4>3. Identifies(f, kept.states[f], kept.values[f])
          BY <3>1, <4>1, <4>2 DEF TruthInv, FieldValues
        <4>4. kept.states[f] = Memo(s)[f] /\ Memo(s)[f] # None
          BY <3>1, <4>1, <4>2 DEF Known
        <4>5. f \notin hasty => kept.values[f] \in seen[s][f]
          BY <1>3, <4>3, <4>4 DEF Identifies, LookedAt
        <4>6. QED
          BY <4>1, <4>3, <4>4, <4>5, Files1 DEF UsedIsTrue
      <3>5. hit \in BOOLEAN /\ used = job'[s][d].used
        BY <1>3, <3>2 DEF Job
      <3> HIDE DEF hit, used
      <3>6. /\ j.pc = "compile" /\ j.text = old.text /\ j.entry = old.entry
            /\ j.used = used /\ j = job'[s][d] /\ j \in Job
        BY <1>1, <1>3, <3>2, <3>3 DEF Job
      <3>7. JobTruth(s, d, j)
        BY <1>4, <3>4, <3>6 DEF JobTruth, UsedBy
      <3>8. QED
        BY <1>4, <3>6, <3>7
    <2>5. ASSUME NEW f \in Deps, CompileReads(s, d, f)
          PROVE  \E j \in Job : job'[s][d] = j /\ JobTruth(s, d, j) /\ Vouched(d, j.entry)
      <3>1. /\ old.pc = "compile"
            /\ job'[s][d] = [old EXCEPT !.used = [@ EXCEPT ![f] = text[f]]]
        BY <2>5, ShapeParts DEF CompileReads, TypeOK
      <3>2. PICK j : j = [old EXCEPT !.used = [@ EXCEPT ![f] = text[f]]]
        OBVIOUS
      <3>3. /\ j.pc = "compile" /\ j.text = old.text /\ j.entry = old.entry
            /\ j = job'[s][d] /\ j \in Job
            /\ \A g \in Deps : j.used[g] = IF g = f THEN text[f] ELSE old.used[g]
        BY <1>1, <1>3, <3>1, <3>2 DEF Job
      <3>4. UsedIsTrue(s, f, text[f])
        <4>1. f \in Files /\ text[f] \in seen[s][f]
          BY <1>5, Files1
        <4>2. ReadSince(f, build[s].readAt, text[f])
          BY <1>5, <4>1, TextReadSince
        <4>3. Memo(s)[f] # None => Identifies(f, Memo(s)[f], text[f])
          BY <1>3, <4>1, TextIdentifies, ShapeParts DEF Witnessed
        <4>4. QED
          BY <4>1, <4>2, <4>3 DEF UsedIsTrue
      <3>5. ASSUME NEW g \in UsedBy(j), j.used[g] # None
            PROVE  UsedIsTrue(s, g, j.used[g])
        <4>1. g \in UsedBy(old) /\ g \in Deps
          <5>1. old.text \in Texts
            BY <1>3, <3>1 DEF JobShape, Job
          <5>2. QED
            BY <3>3, <5>1, Files1 DEF UsedBy
        <4>2. CASE g = f
          BY <3>3, <3>4, <4>1, <4>2
        <4>3. CASE g # f
          BY <1>4, <3>1, <3>3, <3>5, <4>1, <4>3 DEF JobTruth
        <4>4. QED
          BY <4>2, <4>3
      <3>6. JobTruth(s, d, j)
        BY <1>4, <3>3, <3>5 DEF JobTruth
      <3>7. QED
        BY <1>4, <3>3, <3>6
    <2>6. CASE Fail(s, d)
      <3>1. job'[s][d] = [Idle EXCEPT !.pc = "failed"]
        BY <2>6, ShapeParts DEF Fail, TypeOK
      <3>2. PICK j : j = [Idle EXCEPT !.pc = "failed"]
        OBVIOUS
      <3>3. j \in Job /\ j.pc = "failed" /\ j.text = None /\ j.entry = None
        BY <3>2 DEF Idle, Job, Steps
      <3>4. JobTruth(s, d, j)
        BY <3>3 DEF JobTruth
      <3>5. QED
        BY <1>4, <3>1, <3>2, <3>3, <3>4
    <2>7. QED
      BY <2>1, <2>2, <2>3, <2>4, <2>5, <2>6 DEF JobStep
  <1>8. FieldValues' /\ Same
    BY <1>1, FieldsStay DEF TruthInv, Same
  <1>9. Vouched(d, store'[d]) /\ Vouched(d, cache'[s][d])
    BY <1>1, EntriesVouched DEF TruthInv
  <1>10. QED
    BY <1>1, <1>7, <1>8, <1>9, DocumentTruth

LEMMA KeepFieldTruth ==
    ASSUME ShapeInv, ShapeInv', World, TruthInv,
           NEW s \in Sessions, NEW d \in Docs, KeepField(s, d)
    PROVE  TruthInv'
  <1> DEFINE old == job[s][d]
             k == <<build[s].config, old.text>>
             v == [states |-> StatesOf(s, Cached, CachedOf(old)),
                   values |-> [f \in Cached |-> old.used[f]]]
  <1>1. /\ build[s] # None /\ build[s] \in Build /\ JobShape(s, d)
        /\ Memo(s) \in [Files -> Signature \cup {None}]
        /\ old \in Job /\ d \in Files /\ old.pc = "compile"
    BY Running, ShapeParts DEF KeepField
  <1>2. old.text \in Texts /\ build[s].config \in Configs
    BY <1>1 DEF JobShape, Job, Build
  <1>3. /\ fields' = [fields EXCEPT ![k] = v]
        /\ job' = [job EXCEPT ![s][d] = [old EXCEPT !.hit = TRUE]]
        /\ \A f \in CachedOf(old) : old.used[f] # None /\ Memo(s)[f] # None
        /\ UNCHANGED <<now, text, state, hasty, store, cache, build, seen>>
    BY DEF KeepField, disk, HasRead, Known
  <1>4. JobTruth(s, d, old) /\ Vouched(d, old.entry)
    BY <1>1, EntriesVouched DEF TruthInv, JobTruths
  <1>5. PICK j : j = [old EXCEPT !.hit = TRUE]
    OBVIOUS
  <1>6. /\ j \in Job /\ j.pc = old.pc /\ j.text = old.text /\ j.entry = old.entry
        /\ j.used = old.used
    BY <1>1, <1>5 DEF Job
  <1>7. JobTruth(s, d, j)
    BY <1>4, <1>6 DEF JobTruth, UsedBy
  <1>8. /\ job'[s][d] = j
        /\ \A q \in Sessions, e \in Docs :
              q # s \/ e # d => job'[q][e] = job[q][e] /\ cache'[q][e] = cache[q][e]
    BY <1>3, <1>5, ShapeParts DEF TypeOK
  <1>9. Same
    BY <1>3 DEF Same
  <1>10. FieldValues'
    <2> SUFFICES ASSUME NEW c \in Configs, NEW t \in Texts,
                        NEW f \in Uses[t] \cap Cached, fields'[<<c, t>>] # None
                 PROVE  /\ fields'[<<c, t>>].states[f] # None
                        /\ fields'[<<c, t>>].values[f] # None
                        /\ Identifies(f, fields[<<c, t>>].states[f],
                                      fields[<<c, t>>].values[f])'
      BY DEF FieldValues
    <2>1. \E sig \in Signature, u \in Texts :
             /\ fields'[<<c, t>>].states[f] = sig /\ fields'[<<c, t>>].values[f] = u
             /\ Identifies(f, sig, u)
      <3>1. CASE <<c, t>> = k
        <4>1. t = old.text /\ f \in CachedOf(old) /\ f \in UsedBy(old) /\ f \in Deps
          BY <3>1, Files1 DEF CachedOf, UsedBy
        <4>2. fields'[<<c, t>>] = v
          BY <1>2, <1>3, <3>1, ShapeParts DEF TypeOK
        <4>3. v.states[f] = Memo(s)[f] /\ v.values[f] = old.used[f]
          BY <4>1 DEF StatesOf
        <4>4. Memo(s)[f] \in Signature /\ old.used[f] \in Texts
          BY <1>1, <1>3, <4>1, Files1 DEF Job
        <4>5. UsedIsTrue(s, f, old.used[f])
          BY <1>1, <1>3, <1>4, <4>1 DEF JobTruth
        <4>6. Identifies(f, Memo(s)[f], old.used[f])
          BY <1>3, <4>1, <4>5 DEF UsedIsTrue
        <4>7. QED
          BY <4>2, <4>3, <4>4, <4>6
      <3>2. CASE <<c, t>> # k
        <4>1. fields'[<<c, t>>] = fields[<<c, t>>] /\ fields[<<c, t>>] \in Field
          BY <1>2, <1>3, <3>2, ShapeParts DEF TypeOK
        <4>2. /\ fields[<<c, t>>].states[f] # None /\ fields[<<c, t>>].values[f] # None
              /\ Identifies(f, fields[<<c, t>>].states[f], fields[<<c, t>>].values[f])
          BY <4>1 DEF TruthInv, FieldValues
        <4>3. /\ fields[<<c, t>>].states[f] \in Signature
              /\ fields[<<c, t>>].values[f] \in Texts
          BY <4>1, <4>2 DEF Field
        <4>4. QED
          BY <4>1, <4>2, <4>3
      <3>3. QED
        BY <3>1, <3>2
    <2>2. PICK sig \in Signature, u \in Texts :
             /\ fields'[<<c, t>>].states[f] = sig /\ fields'[<<c, t>>].values[f] = u
             /\ Identifies(f, sig, u)
      BY <2>1
    <2>3. Identifies(f, sig, u)'
      BY <1>9, <2>2, SameTruth, Files1
    <2>4. QED
      BY <2>2, <2>3, NoneIsNone
  <1>11. Vouched(d, store'[d]) /\ Vouched(d, cache'[s][d]) /\ UNCHANGED store
    BY <1>3, EntriesVouched DEF TruthInv
  <1>12. QED
    BY <1>4, <1>6, <1>7, <1>8, <1>9, <1>10, <1>11, DocumentTruth

LEMMA BeginValidatingTruth ==
    ASSUME ShapeInv, ShapeInv', World, TruthInv,
           NEW s \in Sessions, BeginValidating(s)
    PROVE  TruthInv'
  <1>1. /\ UNCHANGED <<now, text, state, hasty, store, fields, build, seen>>
        /\ build[s] # None
        /\ \A q \in Sessions \ {s} : job'[q] = job[q] /\ cache'[q] = cache[q]
        /\ \A e \in Docs :
              IF job[s][e].pc = "stale"
              THEN job'[s][e] = [job[s][e] EXCEPT !.pc = "load"] /\ cache'[s][e] = None
              ELSE job'[s][e] = job[s][e] /\ cache'[s][e] = cache[s][e]
    BY ShapeParts DEF BeginValidating, disk, TypeOK
  <1>2. ASSUME NEW e \in Docs, job[s][e].pc = "stale"
        PROVE  job'[s][e].entry = job[s][e].entry /\ JobTruth(s, e, job[s][e])'
    <2>1. PICK j : j = [job[s][e] EXCEPT !.pc = "load"]
      OBVIOUS
    <2>2. job[s][e] \in Job /\ JobTruth(s, e, job[s][e])
      BY <1>1, ShapeParts DEF TypeOK, TruthInv, JobTruths
    <2>3. /\ j \in Job /\ j.pc = "load" /\ j.text = job[s][e].text
          /\ j.entry = job[s][e].entry
      BY <2>1, <2>2 DEF Job, Steps
    <2>4. JobTruth(s, e, j)
      BY <2>2, <2>3 DEF JobTruth
    <2>5. JobTruth(s, e, j)'
      BY <1>1, <2>3, <2>4, SameTruth DEF Same
    <2>6. QED
      BY <1>1, <1>2, <2>1, <2>3, <2>5
  <1>3. Entries'
    <2>1. ASSUME NEW e \in Docs, NEW q \in Sessions
          PROVE  Vouched(e, cache'[q][e]) /\ Vouched(e, job'[q][e].entry)
      <3>1. /\ Vouched(e, cache[q][e]) /\ Vouched(e, job[q][e].entry)
            /\ Vouched(e, None)
        BY EntriesVouched DEF TruthInv
      <3>2. CASE q = s /\ job[s][e].pc = "stale"
        BY <1>1, <1>2, <3>1, <3>2
      <3>3. CASE ~(q = s /\ job[s][e].pc = "stale")
        BY <1>1, <3>1, <3>3
      <3>4. QED
        BY <3>2, <3>3
    <2>2. \A e \in Docs : Vouched(e, store'[e])
      BY <1>1, EntriesVouched DEF TruthInv
    <2>3. QED
      BY <2>1, <2>2, EntriesStep
  <1>4. FieldValues'
    BY <1>1, FieldsStay DEF TruthInv
  <1>5. JobTruths'
    <2>1. ASSUME NEW q \in Sessions, NEW e \in Docs, build'[q] # None
          PROVE  \/ GoesOn(q) /\ job'[q][e] = job[q][e]
                 \/ JobTruth(q, e, job[q][e])'
      <3>1. GoesOn(q)
        BY <1>1, <2>1 DEF World, Begins
      <3>2. CASE q = s /\ job[s][e].pc = "stale"
        BY <1>2, <3>2
      <3>3. CASE ~(q = s /\ job[s][e].pc = "stale")
        BY <1>1, <3>1, <3>3
      <3>4. QED
        BY <3>2, <3>3
    <2>2. QED
      BY <2>1, JobTruthsStep DEF TruthInv
  <1>6. QED
    BY <1>3, <1>4, <1>5 DEF TruthInv

LEMMA BeginBuildTruth ==
    ASSUME ShapeInv, ShapeInv', World, TruthInv,
           NEW s \in Sessions, NEW c \in Configs, NEW dry \in BOOLEAN,
           BeginBuild(s, c, dry)
    PROVE  TruthInv'
  <1>1. /\ \A e \in Docs : job'[s][e] = [Idle EXCEPT !.pc = "check"]
        /\ \A q \in Sessions \ {s} : build'[q] = build[q] /\ job'[q] = job[q]
        /\ UNCHANGED <<store, fields, cache>>
    BY ShapeParts DEF BeginBuild, TypeOK
  <1>2. \A e \in Docs : /\ job'[s][e].pc = "check" /\ job'[s][e].text = None
                        /\ job'[s][e].entry = None
    BY <1>1 DEF Idle
  <1>3. Entries'
    <2>1. ASSUME NEW e \in Docs, NEW q \in Sessions
          PROVE  Vouched(e, cache'[q][e]) /\ Vouched(e, job'[q][e].entry)
      BY <1>1, <1>2, EntriesVouched DEF TruthInv
    <2>2. \A e \in Docs : Vouched(e, store'[e])
      BY <1>1, EntriesVouched DEF TruthInv
    <2>3. QED
      BY <2>1, <2>2, EntriesStep
  <1>4. FieldValues'
    BY <1>1, FieldsStay DEF TruthInv
  <1>5. \A e \in Docs : JobTruth(s, e, job[s][e])'
    BY <1>2 DEF JobTruth
  <1>6. \A q \in Sessions \ {s} : build'[q] # None => GoesOn(q)
    BY <1>1 DEF World, Begins
  <1>7. JobTruths'
    <2>1. \A q \in Sessions, e \in Docs : build'[q] # None =>
             \/ GoesOn(q) /\ job'[q][e] = job[q][e]
             \/ JobTruth(q, e, job[q][e])'
      BY <1>1, <1>5, <1>6
    <2>2. QED
      BY <2>1, JobTruthsStep DEF TruthInv
  <1>8. QED
    BY <1>3, <1>4, <1>7 DEF TruthInv

LEMMA EndBuildTruth ==
    ASSUME ShapeInv, ShapeInv', World, TruthInv,
           NEW s \in Sessions, EndBuild(s)
    PROVE  TruthInv'
  <1>1. PICK late \in SUBSET Docs : \E done \in SUBSET late :
           /\ \A d \in late : KeptBy(s)[d] # None
           /\ cache' = [cache EXCEPT ![s] =
                  [d \in Docs |-> IF d \in late THEN MarkedStored(KeptBy(s)[d])
                                  ELSE KeptBy(s)[d]]]
           /\ store' = [d \in Docs |-> IF d \in done THEN MarkedStored(KeptBy(s)[d])
                                       ELSE store[d]]
    BY EndBuildFacts, ShapeParts
  <1>2. \A d \in Docs : Vouched(d, KeptBy(s)[d])
    BY EntriesVouched DEF TruthInv, KeptBy
  <1>3. ASSUME NEW d \in late PROVE Vouched(d, MarkedStored(KeptBy(s)[d]))
    <2>1. KeptBy(s)[d] \in Entry /\ Honest(d, KeptBy(s)[d])
      BY <1>1, <1>2 DEF Vouched
    <2>2. QED
      BY <2>1, StoredHonest, StoredTyped DEF Vouched
  <1>4. \A d \in Docs : Vouched(d, cache'[s][d])
    BY <1>1, <1>2, <1>3, ShapeParts DEF TypeOK
  <1>5. \A d \in Docs : Vouched(d, store'[d])
    BY <1>1, <1>3, EntriesVouched DEF TruthInv
  <1>6. /\ NoBuild(s) /\ UNCHANGED fields
        /\ \A q \in Sessions \ {s} : cache'[q] = cache[q]
    BY ShapeParts DEF EndBuild, TypeOK
  <1>7. QED
    BY <1>4, <1>5, <1>6, NoBuildTruth

LEMMA NotRunTruth ==
    ASSUME ShapeInv, ShapeInv', World, TruthInv,
           NEW s \in Sessions, Interrupt(s) \/ EndSession(s) \/ Cleanup(s)
    PROVE  TruthInv'
  <1>1. CASE Interrupt(s)
    <2>1. \A d \in Docs : Vouched(d, store[d]) /\ Vouched(d, cache[s][d])
      BY EntriesVouched DEF TruthInv
    <2>2. NoBuild(s) /\ UNCHANGED <<store, fields, cache>>
      BY <1>1 DEF Interrupt
    <2>3. QED
      BY <2>1, <2>2, NoBuildTruth
  <1>2. CASE EndSession(s)
    <2>1. \A d \in Docs : Vouched(d, store[d]) /\ Vouched(d, None)
      BY EntriesVouched DEF TruthInv
    <2>2. /\ NoBuild(s) /\ UNCHANGED <<store, fields>>
          /\ \A d \in Docs : cache'[s][d] = None
          /\ \A q \in Sessions \ {s} : cache'[q] = cache[q]
      BY <1>2, ShapeParts DEF EndSession, TypeOK
    <2>3. QED
      BY <2>1, <2>2, NoBuildTruth
  <1>3. CASE Cleanup(s)
    <2>1. /\ UNCHANGED <<now, text, state, hasty, store, cache, build, job, seen>>
          /\ \A k \in Configs \X Texts : fields'[k] \in {fields[k], None}
      BY <1>3, ShapeParts DEF Cleanup, disk, TypeOK
    <2>2. FieldValues'
      BY <2>1, FieldsStay DEF TruthInv
    <2>3. Entries'
      BY <2>1, EntriesVouched, EntriesStep DEF TruthInv
    <2>4. JobTruths'
      <3>1. \A q \in Sessions : build'[q] # None => GoesOn(q)
        BY <2>1 DEF World, Begins
      <3>2. QED
        BY <2>1, <3>1, JobTruthsStep DEF TruthInv
    <2>5. QED
      BY <2>2, <2>3, <2>4 DEF TruthInv
  <1>4. QED
    BY <1>1, <1>2, <1>3

LEMMA TruthStep ==
    ASSUME ShapeInv, ShapeInv', TruthInv, [Next]_vars
    PROVE  TruthInv'
  <1>1. CASE Next
    <2>1. World
      BY <1>1, NextWorld, ShapeParts
    <2>2. CASE Tick
      BY <2>1, <2>2, WorldTruth DEF Tick
    <2>3. ASSUME NEW f \in Files, Edit(f) \/ Replace(f) PROVE TruthInv'
      BY <2>1, <2>3, EditWorld, ShapeParts, WorldTruth
    <2>4. ASSUME NEW s \in Sessions, NEW c \in Configs, NEW dry \in BOOLEAN,
                 BeginBuild(s, c, dry)
          PROVE  TruthInv'
      BY <2>1, <2>4, BeginBuildTruth
    <2>5. ASSUME NEW s \in Sessions, NEW d \in Docs, DocumentStep(s, d)
          PROVE  TruthInv'
      BY <2>1, <2>5, CheckFileTruth, ReuseTruth, FinishTruth, JobStepTruth,
         KeepFieldTruth DEF DocumentStep, JobStep
    <2>6. ASSUME NEW s \in Sessions, NEW f \in Files, Stat(s, f) PROVE TruthInv'
      <3>1. UNCHANGED <<store, fields, cache, job>> /\ build[s] # None
        BY <2>6 DEF Stat
      <3>2. \A q \in Sessions \ {s} : build'[q] = build[q]
        BY <2>6, ShapeParts DEF Stat, Remember, TypeOK
      <3>3. QED
        BY <2>1, <3>1, <3>2, WorldTruth
    <2>7. ASSUME NEW s \in Sessions, BeginValidating(s) PROVE TruthInv'
      BY <2>1, <2>7, BeginValidatingTruth
    <2>8. ASSUME NEW s \in Sessions, EndBuild(s) PROVE TruthInv'
      BY <2>1, <2>8, EndBuildTruth
    <2>9. ASSUME NEW s \in Sessions, Interrupt(s) \/ EndSession(s) \/ Cleanup(s)
          PROVE  TruthInv'
      BY <2>1, <2>9, NotRunTruth
    <2>10. QED
      BY <1>1, <2>2, <2>3, <2>4, <2>5, <2>6, <2>7, <2>8, <2>9 DEF Next
  <1>2. CASE UNCHANGED vars
    <2>1. UNCHANGED <<store, fields, cache, job, build>> /\ World
      BY <1>2, StillWorld, ShapeParts DEF vars
    <2>2. QED
      BY <2>1, WorldTruth
  <1>3. QED
    BY <1>1, <1>2

LEMMA InitialTruth == Init => TruthInv
  BY DEF Init, TruthInv, Entries, Honest, FieldValues, JobTruths, Idle

\* No entry, no value of the field cache and no file that a compile has read
\* is taken for another text than it was made from.
LEMMA TruthInvariance == Spec => [](ShapeInv /\ TruthInv)
  <1>1. Init => ShapeInv /\ TruthInv
    BY InitialShape, InitialTruth
  <1>2. ShapeInv /\ TruthInv /\ [Next]_vars => (ShapeInv /\ TruthInv)'
    BY ShapeStep, TruthStep
  <1>3. QED
    BY <1>1, <1>2, PTL DEF Spec

\* Whatever is remembered, stored or at work, an entry that stat alone would
\* prove unchanged was made from the text that is in the file now: the racy
\* window is long enough for every resolution of the time stamps up to it
\* (file-signature.ts:12-17).  Edits may come at any moment of a build and as
\* often as they like; only of a file that a cached field read, whose edit the
\* time stamp hid, nothing is said until it is edited again.
THEOREM WhatIsProvenIsCurrent == Spec => []ProvenIsCurrent
  <1>1. ShapeInv /\ TruthInv => ProvenIsCurrent
    <2> SUFFICES ASSUME ShapeInv, TruthInv, NEW d \in Docs, NEW e \in EntriesOf(d)
                 PROVE  /\ ProvesUnchanged(e.sig, state[d], e.readAt) => e.text = text[d]
                        /\ \A f \in Uses[e.text] \ hasty :
                              DependencyUnchanged(e, f, state[f]) => e.used[f] = text[f]
      BY DEF ProvenIsCurrent
    <2>1. Honest(d, e) /\ e # None /\ d \notin hasty
      BY ShapeParts, OthersAreTold, Files1 DEF EntriesOf, TruthInv, Entries
    <2>2. QED
      BY <2>1 DEF Honest, Vouches, ProvesUnchanged, DependencyUnchanged
  <1>2. QED
    BY <1>1, TruthInvariance, PTL

\* A build returns documents made with its own config from texts that their
\* files had since it began, those it reused and those it made
\* (Collector.validate), however the files are edited meanwhile; with the same
\* exception.
THEOREM ReturnedDocumentsAreCurrent == Spec => []DocumentsAreCurrent
  <1>1. ShapeInv /\ TruthInv => DocumentsAreCurrent
    <2> SUFFICES ASSUME ShapeInv, TruthInv, NEW s \in Sessions, NEW d \in Docs,
                        job[s][d].pc \in {"reused", "fresh"}
                 PROVE  LET e == job[s][d].entry
                        IN  /\ e.config = build[s].config
                            /\ e.text \in seen[s][d]
                            /\ \A f \in Uses[e.text] \ hasty : e.used[f] \in seen[s][f]
      BY DEF DocumentsAreCurrent
    <2>1. build[s] # None /\ JobShape(s, d)
      BY Running, ShapeParts
    <2>2. JobTruth(s, d, job[s][d])
      BY <2>1 DEF TruthInv, JobTruths
    <2>3. QED
      BY <2>1, <2>2 DEF JobShape, JobTruth, ReturnedIsSeen
  <1>2. QED
    BY <1>1, TruthInvariance, PTL

=============================================================================
