---------------------------- MODULE ContentFiles ----------------------------
(* The globs of packages/core/src/engine/content-files.ts, and how the walk     *)
(* over a content folder uses them: a folder is read only when the names in it   *)
(* can still match, which its `stage' says, a set of places in the patterns.     *)
(*                                                                               *)
(* A glob is [files, folders], sets of alternatives; an alternative is the       *)
(* sequence of its segments [deep, names, literal]: `**', or the names a segment *)
(* matches, and whether it has no wildcard.                                      *)
EXTENDS Naturals, Sequences, FiniteSets

CONSTANT Hidden \* names with a dot in front, and node_modules

FileAlternatives(globs) == UNION {globs[i].files : i \in DOMAIN globs}

-----------------------------------------------------------------------------
(* The stages of include patterns (includeStage).                          *)

IsLast(place) == place[2] = Len(place[1])
Segment(place) == place[1][place[2]]
NextPlace(place) == <<place[1], place[2] + 1>>

\* `**' also stands for no folder at all: what follows is open too.
Open(places) ==
    places \cup {NextPlace(p) : p \in {q \in places : Segment(q).deep /\ ~IsLast(q)}}

Start(globs) == Open({<<a, 1>> : a \in FileAlternatives(globs)})
FileMatches(stage, name) ==
    \E p \in stage : IsLast(p) /\ (Segment(p).deep \/ name \in Segment(p).names)
After(stage, name) ==
    {p \in stage : ~Segment(p).deep /\ ~IsLast(p) /\ name \in Segment(p).names}
DeepForgotten(stage, name) == Open({NextPlace(p) : p \in After(stage, name)})  \* mutant
Enter(stage, name) ==
    Open({NextPlace(p) : p \in After(stage, name)} \cup {p \in stage : Segment(p).deep})
\* Behind a link only what follows a literal segment that names it.
Follow(stage, name) ==
    Open({NextPlace(p) : p \in {q \in After(stage, name) : Segment(q).literal}})

-----------------------------------------------------------------------------
(* Whole paths (pathSource), and the exclude patterns (excludeTests).      *)

\* A way to read `path' as the alternative: every name by a segment, in order,
\* none left out but a `**' before the end, none used twice but a `**'.
Ways(alternative, path) ==
    {way \in [DOMAIN path -> DOMAIN alternative] :
        /\ way[Len(path)] = Len(alternative)
        /\ \A i \in DOMAIN path :
               LET before == IF i = 1 THEN 0 ELSE way[i - 1]
                   segment == alternative[way[i]]
               IN  /\ segment.deep \/ path[i] \in segment.names
                   /\ before < way[i] \/ (before = way[i] /\ segment.deep)
                   /\ \A k \in (before + 1)..(way[i] - 1) : alternative[k].deep}
Matches(alternative, path) == Ways(alternative, path) # {}

\* `drafts/**' leaves out the folder as well.
WithoutDeep(alternatives) ==
    {SubSeq(a, 1, Len(a) - 1) : a \in {b \in alternatives : Len(b) > 1 /\ b[Len(b)].deep}}

ExcludesFile(globs, path) ==
    \E a \in FileAlternatives(globs) : Matches(a, path)
ExcludesFolder(globs, path) ==
    \E a \in FileAlternatives(globs) \cup WithoutDeep(FileAlternatives(globs))
             \cup UNION {globs[i].folders : i \in DOMAIN globs} : Matches(a, path)
=============================================================================
