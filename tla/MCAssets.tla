------------------------------ MODULE MCAssets ------------------------------
(* Two sessions of one project, one that builds and prunes the storage and    *)
(* one that develops and uploads too, two files and one that may not be used.  *)
EXTENDS Assets, TLC

CONSTANTS builder, developer, logo, photo, secret

MCSessions == {builder, developer}
MCSources == {logo, photo, secret}
MCAllowed == {logo, photo}
MCWants == {{logo}, {logo, photo}, {secret}}
MCMode == [p \in MCSessions |-> IF p = builder THEN "build" ELSE "dev"]
-----------------------------------------------------------------------------
\* Two things happen around the builds, one of which goes wrong.  At first
\* everything is of one text; the last build is the last thing to happen.  What
\* is published does not depend on edits after the copies, nor on the order two
\* sessions hash files in; the time counts when the folder is looked at; what a
\* session that is killed had hashed is lost.
MCInit == Init /\ \A s \in Sources : text[s] = text[logo]
Hashing(p) == At(p, "hash") /\ job[p].todo # {}
MCSteps ==
    /\ count.builds = MaxBuilds =>
           /\ wanted' = wanted
           /\ (\A p \in Sessions : job[p] = None) => UNCHANGED <<text, clock>>
    /\ content' # content =>
           \A p \in Sessions : Publishing(p) => job[p].pc \in {"copy", "copying", "uncopied"}
    /\ clock' # clock => \A p \in Sessions : Publishing(p) => job[p].pc \in {"pruning", "stat"}
    /\ \A p \in Sessions :
           Hashing(p) => \A q \in Sessions \ {p} : job'[q] # job[q] => Publishing(q)
    /\ \A p \in Sessions : session'[p] = NewSession => session[p] = NewSession \/ ~At(p, "hash")
    /\ count'["wrong"] + count'["edits"] <= 2
MCSpec == MCInit /\ [][Next]_vars
MCTexts == Permutations(Texts)
=============================================================================
