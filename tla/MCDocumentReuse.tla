-------------------------- MODULE MCDocumentReuse --------------------------
(* One session and one document, with a file of each kind, for             *)
(* DocumentReuse; the view below is for such an instance.                  *)
EXTENDS DocumentReuse

CONSTANTS pure, cached

MCUses == [t \in Texts |-> IF t = "a" THEN {pure} ELSE {cached}]

s == CHOOSE x \in Sessions : TRUE

\* Times matter by their distances only, and an entry by what stat can prove
\* with it now or could when the build looked: states never return.  Which of
\* two texts a dependency has is of no account, only whether it is the one it
\* has now, and not even that while an edit of it is hidden: after the edit
\* that ends this, apart from the builds, no state kept of it is its own.
\* What the build has looked at is of account until its document is done, and
\* an entry that nobody works with is looked at first when it is taken up.
Age(t) == IF now - t > RacyWindow THEN RacyWindow + 1 ELSE now - t
Done(j) == j.pc \in {"reused", "fresh", "failed"}
Looked(f) == /\ build[s] # None /\ Memo(s)[f] # None
             /\ \E d \in Docs : ~Done(job[s][d])
Told(f, isNow, wasThen, t) ==
    <<isNow, wasThen, (isNow \/ wasThen) /\ f \notin hasty /\ t = text[f]>>
Provable(e, d, atWork) ==
    IF e = None THEN None
    ELSE <<e.config, e.text, e.stored,
           ProvesUnchanged(e.sig, state[d], e.readAt),
           atWork /\ Looked(d) /\ ProvesUnchanged(e.sig, Memo(s)[d], e.readAt),
           [f \in Uses[e.text] |->
               Told(f, DependencyUnchanged(e, f, state[f]),
                    atWork /\ Looked(f) /\ DependencyUnchanged(e, f, Memo(s)[f]),
                    e.used[f])]>>
Current(used) ==
    [f \in Deps |-> IF used[f] = None THEN None ELSE f \in hasty \/ used[f] = text[f]]
Kept(v) ==
    IF v = None THEN None
    ELSE [f \in {g \in Cached : v.values[g] # None} |->
             Told(f, v.states[f] = state[f],
                  Looked(f) /\ v.states[f] = Memo(s)[f], v.values[f])]
BuildView ==
    IF build[s] = None THEN None
    ELSE <<build[s].config, build[s].dry,
           [f \in Files |->
               <<IsSettled(state[f].mtime, build[s].readAt), Looked(f),
                 Looked(f) /\ IsSettled(Memo(s)[f].mtime, build[s].readAt),
                 Looked(f) /\ Memo(s)[f] = state[f]>>]>>
JobView(d) ==
    LET j == job[s][d]
    IN  <<j.pc, j.fromStore, j.text, j.hit, Current(j.used), Provable(j.entry, d, TRUE),
          IF j.pc \in {"reused", "fresh"} THEN Current(j.entry.used) ELSE None>>
SeenOf(f) == IF f \in Docs THEN seen[s][f] ELSE seen[s][f] = {text[f]}

\* (vars = vars: states are evaluated in full before TLC stores them.)
MCView ==
    <<vars = vars, now % TimeStep, hasty, [d \in Docs |-> text[d]],
      [f \in Files |-> <<Age(state[f].mtime), SeenOf(f)>>],
      [k \in DOMAIN fields |-> Kept(fields[k])], BuildView, calm[s],
      [d \in Docs |->
          <<Provable(store[d], d, FALSE), Provable(cache[s][d], d, FALSE), JobView(d)>>]>>
=============================================================================
