------------------------- MODULE MCIncrementalBuild -------------------------
(* Authors and a post that refers to one of them, a scope and a view.  The *)
(* text of an author is its name, the text of a post the name it refers    *)
(* to; a transformed post also holds the number of authors.                *)
EXTENDS IncrementalBuild

CONSTANTS authors, posts, ann, bob, post, main, scope, recent

MCSources == <<posts, authors>>
MCEmbedOrder == <<authors, posts>>
MCFiles == {ann, bob, post}
MCSourceOf == [f \in MCFiles |-> IF f = post THEN posts ELSE authors]
MCRefersTo == [s \in {authors, posts} |-> IF s = posts THEN authors ELSE None]
MCTargetOrder == <<main, scope>>

\* Data: a name, and what the transform added.
MCTexts == [name : {"a", "b"}, more : {0}]
MCDraft(data) == data.more = 2
MCHasTransform(c, s) == s = posts
MCCaches(c, s) == TRUE
MCCachesViews(c, v) == c = 1
MCTransformReads(c, data) == IF data.name = "a" THEN {authors} ELSE {}
MCTransformed(c, data, seen) ==
    IF DOMAIN seen = {} THEN data
    ELSE IF DOMAIN seen[authors] = {} THEN None
    ELSE [data EXCEPT !.more = Cardinality(DOMAIN seen[authors])]
\* The hook of the second project leaves out the authors called "b".
MCPrepared(c, s, data, all) ==
    IF c = 1 THEN data
    ELSE IF s = authors THEN (IF data.name = "b" THEN None ELSE data)
    ELSE [data EXCEPT !.more = @ + 1]
MCKeeps(c, t, s, data, all) == s = authors => data.name = "a"
MCRef(s, data) == data.name
MCKey(s, data) == data.name
MCUniq(s, data) == IF s = authors THEN data.name
                   ELSE IF data.more = 0 THEN "a" ELSE None
MCViewFrom(v) == {posts}
MCViewReads(c, v, data) == {authors}
MCRow(c, v, d, seen) == [post |-> d.data, by |-> seen[authors]]
MCRowKey(row) == row.post
MCPlugin(c, all) == all[posts]

MCInit == /\ Init
          /\ project = 1
          /\ text = [f \in Files |-> IF f = bob THEN None ELSE [name |-> "a", more |-> 0]]
\* A build works on what it read: an edit during its stages commutes with
\* them, until the end of the build tells whether something changed.
EditsBetweenStages ==
    build.pc \notin {"idle", "publish"} => UNCHANGED text /\ UNCHANGED project
MCSpec == MCInit /\ [][Next]_vars
=============================================================================
