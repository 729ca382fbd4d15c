------------------------------- MODULE Stages -------------------------------
(***************************************************************************)
(* What the stages of a build make of the validated documents: transforms, *)
(* prepare, scopes, references, uniqueness, views and the output plan      *)
(* (packages/core/src/engine/: transform.ts, relations.ts, constraints.ts, *)
(* scope.ts, derive.ts, codegen.ts, and prepare of engine.service.ts).     *)
(*                                                                         *)
(* The schemas and callbacks of a project are constant operators; their    *)
(* first argument is the project.  Whether a document shows an earlier one *)
(* or is made again is the subject of IncrementalBuild.                    *)
(*                                                                         *)
(* The documents of a source are a function on their files: they are in    *)
(* the order of locale and path, so it is not written down.  A hook that   *)
(* gives them another order, or one of them twice (engine.service.ts:539), *)
(* is left out, and so are references that embed nothing.                  *)
(***************************************************************************)
EXTENDS Naturals, Sequences, FiniteSets

CONSTANTS
    Sources,            \* the content of a project, in config order
    Files,              \* content files
    SourceOf,           \* the source of each file
    RefersTo,           \* the source that the references of a source name
    EmbedOrder,         \* project.embedOrder: a target before its referrers
    Required,           \* singletons a scope may not leave out
    Targets, Main,      \* the main output and the scopes
    Views,
    None

CONSTANTS
    Draft(_),                              \* of data
    HasTransform(_, _), TransformReads(_, _), Transformed(_, _, _),
    Prepared(_, _, _, _),
    Keeps(_, _, _, _, _),                  \* where of a scope
    Ref(_, _), Key(_, _),                  \* of a source and data
    Uniq(_, _),                            \* a unique value, in its bucket
    ViewFrom(_), ViewReads(_, _, _), Row(_, _, _, _), RowKey(_),
    Plugin(_, _)

Names == {Sources[i] : i \in DOMAIN Sources}

ASSUME Shape == /\ SourceOf \in [Files -> Names]
                /\ RefersTo \in [Names -> Names \cup {None}]
                /\ EmbedOrder \in Seq(Names)
                /\ Names = {EmbedOrder[i] : i \in DOMAIN EmbedOrder}
                /\ Required \subseteq Names
                /\ \A v \in Views : ViewFrom(v) \subseteq Names
                /\ Main \in Targets

-----------------------------------------------------------------------------
(* Documents.  `valid` is the data before the transform, `with` shows the  *)
(* document embedded in it and `target` is that document.  Two documents   *)
(* of a file differ in n when they are two objects.                        *)

NewDocument(f, data, n) == [file |-> f, data |-> data, valid |-> data, n |-> n,
                            with |-> None, target |-> None]

\* toExport: what callbacks and the output see of a document.
Shown(d) == [data |-> d.data, with |-> d.with]
AllShown(group) == [f \in DOMAIN group |-> Shown(group[f])]
Seen(groups, names) == [s \in names \cap Names |-> AllShown(groups[s])]

Only(group, files) == [f \in DOMAIN group \cap files |-> group[f]]

\* groupBySource, with the documents of the files that are there.
GroupBySource(kept) ==
    [s \in Names |->
        Only(kept, {f \in DOMAIN kept : SourceOf[f] = s /\ ~Draft(kept[f].data)})]

\* What the transform of a document gives: data, or None when it is left out.
TransformOf(c, d, groups) ==
    LET data == Transformed(c, d.data, Seen(groups, TransformReads(c, d.data)))
    IN  IF data = None \/ Draft(data) THEN None ELSE data

\* What the hook leaves of a document: data, or None when it drops it.
PreparedData(c, d, groups) == Prepared(c, SourceOf[d.file], d.data, Seen(groups, Names))

ScopeSources(c, t, groups) ==
    IF t = Main THEN groups
    ELSE [s \in Names |->
            Only(groups[s], {f \in DOMAIN groups[s] :
                Keeps(c, t, s, groups[s][f].data, Seen(groups, Names))})]
ScopeGood(c, t, groups) ==
    \A s \in Required :
        DOMAIN groups[s] # {} => DOMAIN ScopeSources(c, t, groups)[s] # {}

-----------------------------------------------------------------------------
(* References and uniqueness.                                              *)

Candidates(s, key, groups) ==
    {f \in DOMAIN groups[RefersTo[s]] : Key(RefersTo[s], groups[RefersTo[s]][f].data) = key}

\* The validated and the final data are both checked.
References(s, d) ==
    IF RefersTo[s] = None THEN {} ELSE {Ref(s, d.valid), Ref(s, d.data)} \ {None}
Resolves(s, groups) ==
    \A f \in DOMAIN groups[s] : \A key \in References(s, groups[s][f]) :
        Cardinality(Candidates(s, key, groups)) = 1

Embedded(s, d, groups) ==
    LET found == Candidates(s, Ref(s, d.data), groups)
        t == groups[RefersTo[s]][CHOOSE f \in found : TRUE]
    IN  IF Ref(s, d.data) = None \/ Cardinality(found) # 1 THEN d
        ELSE [d EXCEPT !.with = Shown(t), !.target = t]
Linked(s, groups) ==
    IF RefersTo[s] = None THEN groups[s]
    ELSE [f \in DOMAIN groups[s] |-> Embedded(s, groups[s][f], groups)]

\* A bucket is that of a source, of a locale of it, or of the project: a value
\* in the last conflicts with documents of every source.
NoConflict(groups) ==
    \A s, t \in Names : \A f \in DOMAIN groups[s], g \in DOMAIN groups[t] :
        f # g /\ Uniq(s, groups[s][f].data) # None
        => Uniq(s, groups[s][f].data) # Uniq(t, groups[t][g].data)

-----------------------------------------------------------------------------
(* Views.                                                                  *)

\* The sources a view is from, or reads while it looks at their documents.
ViewInputs(c, v, groups) ==
    ViewFrom(v) \cup UNION {ViewReads(c, v, groups[SourceOf[f]][f].data) :
                               f \in UNION {DOMAIN groups[s] : s \in ViewFrom(v)}}
RowOf(c, v, d, groups) == Row(c, v, Shown(d), Seen(groups, ViewReads(c, v, d.data)))
RowsOf(c, v, groups) ==
    LET row(f) == RowOf(c, v, groups[SourceOf[f]][f], groups)
    IN  [f \in {f \in UNION {DOMAIN groups[s] : s \in ViewFrom(v)} : row(f) # None} |-> row(f)]
\* An index needs a key of its own for every row.
ViewGood(rows) ==
    \A f, g \in DOMAIN rows : f # g => RowKey(rows[f]) # RowKey(rows[g])

-----------------------------------------------------------------------------
(* The files of an output: text, and the objects it is built from.         *)

File(inputs, text) == [inputs |-> inputs, text |-> text]

\* What the table of a getter is built from: the lookup values of the files.
KeyOf(d) == Key(SourceOf[d.file], d.data)
LookupInputs(group) == [f \in DOMAIN group |-> KeyOf(group[f])]
Entries(group) == LookupInputs(group)
\* Two documents that a getter cannot tell apart are an error.
Distinct(group) ==
    \A f, g \in DOMAIN group : f # g => KeyOf(group[f]) # KeyOf(group[g])

\* Per source a list, a getter and a module per document, a file per view,
\* what the plugins emit, and the index.
PathsOf(groups) ==
    ({"list", "getter"} \X Names) \cup ({"view"} \X Views)
    \cup ({"document"} \X UNION {DOMAIN groups[s] : s \in Names})
    \cup {<<"plugin", None>>, <<"index", None>>}

PlanFile(c, groups, derived, entries, path) ==
    CASE path[1] = "list" -> File(groups[path[2]], AllShown(groups[path[2]]))
      [] path[1] = "getter" -> File(<<entries[path[2]]>>, entries[path[2]])
      [] path[1] = "document" ->
            LET d == groups[SourceOf[path[2]]][path[2]] IN File(<<d>>, Shown(d))
      [] path[1] = "view" -> File(<<derived[path[2]]>>, derived[path[2]].rows)
      [] path[1] = "plugin" -> LET text == Plugin(c, Seen(groups, Names)) IN File(<<text>>, text)
      [] OTHER -> LET text == [s \in Names |-> {KeyOf(groups[s][f]) : f \in DOMAIN groups[s]}]
                  IN  File(<<text>>, text)
=============================================================================
