------------------------------ MODULE Project ------------------------------
(* The first half of a build: the config is loaded (ConfigLoader), then the    *)
(* files of its sources are looked for, as collector.service.ts does in        *)
(* `discover' with the walk of content-files.ts.  The sources are walked at    *)
(* once, a folder at a time, while the user edits the content; the output and  *)
(* the cache may lie in the content.                                           *)
(*                                                                             *)
(* The tree maps a real path to a node [kind, to]: a file, a folder, a folder  *)
(* that may not be entered ("locked"), or a link, with the real path it leads  *)
(* to in the end.  A program names a file by a path with links on it, and the  *)
(* system goes through them anew at every call.                                *)
EXTENDS ConfigLoader, ContentFiles

CONSTANTS
    Stem, Lower,   \* [names -> names]: without extension, in lower case
    TreeEdits,     \* what a user may do at once: from paths to nodes or None
    MaxTreeEdits, MaxListFailures, MaxDiscoveries

VARIABLES
    tree, treeEdits,
    discovery,   \* a walk over all sources, or None
    discovered,  \* what the last one found, or None
    listFailures, discoveries

content == <<tree, treeEdits>>
walking == <<discovery, discovered, listFailures, discoveries>>
vars == <<sources, loading, content, walking>>

DiscoverConcurrency == 4

KindIn(nodes, real) == IF real \in DOMAIN nodes THEN nodes[real].kind ELSE "none"
Folders == {"folder", "locked"}

\* Where the first k names of a path lead, for every k.
Route(nodes, path) ==
    LET real[k \in 0..Len(path)] ==
            IF k = 0 THEN <<>>
            ELSE LET next == Append(real[k - 1], path[k])
                 IN  IF KindIn(nodes, next) = "link" THEN nodes[next].to ELSE next
    IN  real
RealIn(nodes, path) == Route(nodes, path)[Len(path)]
KindAt(nodes, path) ==
    LET route == Route(nodes, path)
    IN  IF \A k \in 1..(Len(path) - 1) : KindIn(nodes, route[k]) = "folder"
        THEN KindIn(nodes, route[Len(path)]) ELSE "none"
Children(nodes, real) == {p \in DOMAIN nodes : Len(p) = Len(real) + 1 /\ IsPrefix(real, p)}

Source(i) == discovery.project.sources[i]
Walk(i) == discovery.walks[i]
LocalesOf(project, s) ==
    IF s.localized THEN project.localization.locales ELSE <<None>>
Locale(i) == LocalesOf(discovery.project, Source(i))[Walk(i).at]
BaseOf(s, locale) == IF locale = None THEN s.root ELSE Append(s.root, locale)
Base(i) == BaseOf(Source(i), Locale(i))

SetWalk(i, walk) ==
    /\ discovery' = [discovery EXCEPT !.walks[i] = walk]
    /\ UNCHANGED <<sources, loading, content, discovered, discoveries>>

-----------------------------------------------------------------------------
(* A discovery, and the order of its sources and locales.                  *)

\* `rootReal' is the real path of the base, once a link was followed.
NewWalk == [pc |-> "wait", at |-> 1, tasks |-> {}, rootReal |-> None,
            found |-> {}, files |-> {}, errors |-> {}]

BeginDiscovery ==
    /\ discovery = None /\ jobs["load"] = None
    /\ loaded # None /\ ~failed
    /\ discoveries < MaxDiscoveries
    /\ discoveries' = discoveries + 1
    /\ discovery' = [project |-> loaded.project,
                     walks |-> [i \in DOMAIN loaded.project.sources |-> NewWalk],
                     seen |-> {tree}]
    /\ discovered' = None
    /\ UNCHANGED <<sources, loading, content, listFailures>>

\* Missing folders and missing files of singletons are found out first.
BeginSource(i) ==
    LET s == Source(i)
        running == {k \in DOMAIN discovery.walks :
                        discovery.walks[k].pc \notin {"wait", "done"}}
        there == IF s.kind = "collection" THEN KindAt(tree, s.root) \in Folders
                 ELSE s.localized \/ KindAt(tree, s.filePath) = "file"
    IN  /\ Walk(i).pc = "wait"
        /\ Cardinality(running) < DiscoverConcurrency
        /\ SetWalk(i,
             IF ~there
             THEN [NewWalk EXCEPT !.pc = "done",
                       !.errors = IF s.kind = "collection" THEN {"source-missing"}
                                  ELSE IF s.optional THEN {} ELSE {"singleton-missing"}]
             ELSE IF s.filePath # None
             THEN [NewWalk EXCEPT !.pc = "done",
                       !.files = {[id |-> s.name, locale |-> None, rel |-> <<Last(s.filePath)>>]}]
             ELSE [NewWalk EXCEPT !.pc = "locale"])
        /\ UNCHANGED listFailures

\* A task of the walk: a folder to read, or a link to look at, to find the
\* target of and to enter, by its path below the base.  It knows its trail: how
\* deep the folder is that was entered by a link last (0: the base), its real
\* path, and the real folders that were passed before.
RootTask(i) ==
    [kind |-> "folder", rel |-> <<>>, matches |-> FALSE, stage |-> Start(Source(i).include),
     depth |-> 0, real |-> None, passed |-> {}, target |-> None]

\* Without a folder for a locale there is nothing to list.
BeginLocale(i) ==
    /\ Walk(i).pc = "locale"
    /\ SetWalk(i, [Walk(i) EXCEPT
           !.pc = "list", !.found = {}, !.rootReal = None,
           !.tasks = IF Locale(i) = None \/ KindAt(tree, Base(i)) \in Folders
                     THEN {RootTask(i)} ELSE {}])
    /\ UNCHANGED listFailures

-----------------------------------------------------------------------------
(* The walk (listContentFiles).                                            *)

Skipped(path) ==
    \E folder \in {discovery.project.outputDir} \cup discovery.project.cacheDirs :
        IsInside(path, folder)
IsOpen(i, rel) ==
    ~ExcludesFolder(Source(i).exclude, rel) /\ ~Skipped(Base(i) \o rel)

PathOf(i, t) == Base(i) \o t.rel

Entry(t, real) ==
    LET name == Last(real)
        kind == KindIn(tree, real)
    IN  [t EXCEPT !.kind = IF kind \in Folders THEN "folder" ELSE kind,
                  !.rel = Append(@, name), !.matches = FileMatches(t.stage, name),
                  !.stage = IF kind = "link" THEN Follow(t.stage, name)
                            ELSE Enter(t.stage, name)]

ReadFolder(i) ==
    \E t \in Walk(i).tasks :
        LET there == Children(tree, RealIn(tree, PathOf(i, t)))
            entries == {Entry(t, p) : p \in {q \in there : Last(q) \notin Hidden}}
            files == {e \in entries : /\ e.kind = "file" /\ e.matches
                                      /\ ~ExcludesFile(Source(i).exclude, e.rel)}
            folders == {e \in entries : e.kind = "folder" /\ e.stage # {} /\ IsOpen(i, e.rel)}
            links == {e \in entries : e.kind = "link" /\ (e.matches \/ e.stage # {})}
        IN  /\ t.kind = "folder"
            /\ KindAt(tree, PathOf(i, t)) = "folder"
            /\ SetWalk(i, [Walk(i) EXCEPT
                   !.tasks = (@ \ {t}) \cup folders \cup links,
                   !.found = @ \cup {e.rel : e \in files}])
            /\ UNCHANGED listFailures

FailedWalk(i) == [Walk(i) EXCEPT !.tasks = {}, !.found = {}, !.errors = @ \cup {"read-failed"}]

\* A folder that is gone or may not be read is left out, unless it is the root.
CannotRead(i) ==
    \E t \in Walk(i).tasks :
        /\ t.kind = "folder"
        /\ KindAt(tree, PathOf(i, t)) # "folder"
        /\ SetWalk(i, IF t.rel = <<>> THEN FailedWalk(i)
                      ELSE [Walk(i) EXCEPT !.tasks = @ \ {t}])
        /\ UNCHANGED listFailures

\* Too many open files, or the time limit: the listing of this folder fails.
ListingFails(i) ==
    /\ listFailures < MaxListFailures
    /\ listFailures' = listFailures + 1
    /\ Walk(i).tasks # {}
    /\ SetWalk(i, FailedWalk(i))

\* linkTarget
LookAtLink(i) ==
    \E t \in Walk(i).tasks :
        LET kind == KindAt(tree, PathOf(i, t))
            leads == kind \in Folders /\ t.stage # {} /\ IsOpen(i, t.rel)
            listed == kind = "file" /\ t.matches /\ ~ExcludesFile(Source(i).exclude, t.rel)
        IN  /\ t.kind = "link"
            /\ SetWalk(i, [Walk(i) EXCEPT
                   !.tasks = (@ \ {t}) \cup (IF leads THEN {[t EXCEPT !.kind = "target"]} ELSE {}),
                   !.found = @ \cup (IF listed THEN {t.rel} ELSE {})])
            /\ UNCHANGED listFailures

\* followLink asks for two real paths at once, and by now the link may be gone
\* or lead elsewhere: that of the link, ...
FindTarget(i) ==
    \E t \in Walk(i).tasks :
        LET path == PathOf(i, t)
            target == IF KindAt(tree, path) = "none" THEN None ELSE RealIn(tree, path)
        IN  /\ t.kind = "target"
            /\ SetWalk(i, [Walk(i) EXCEPT
                   !.tasks = (@ \ {t}) \cup {[t EXCEPT !.kind = "enter", !.target = target]}])
            /\ UNCHANGED listFailures

\* ... and that of the folder the trail begins in, which is asked for once.
FindRoot(i) ==
    /\ Walk(i).rootReal = None
    /\ \E t \in Walk(i).tasks : t.kind \in {"target", "enter"} /\ t.depth = 0
    /\ SetWalk(i, IF KindAt(tree, Base(i)) = "none" THEN FailedWalk(i)
                  ELSE [Walk(i) EXCEPT !.rootReal = RealIn(tree, Base(i))])
    /\ UNCHANGED listFailures

\* The real folders on the way to a link, and whether one of them is `target'.
Passed(i, t) ==
    LET base == IF t.depth = 0 THEN Walk(i).rootReal ELSE t.real
    IN  t.passed \cup {[from |-> base,
                        to |-> base \o SubSeq(t.rel, t.depth + 1, Len(t.rel) - 1)]}
IsOnPath(passed, target) ==
    \E part \in passed : IsInside(target, part.from) /\ IsInside(part.to, target)

\* What is read next is what the path of the link leads to then.
EnterLink(i) ==
    \E t \in Walk(i).tasks :
        LET passed == Passed(i, t)
            behind == [t EXCEPT !.kind = "folder", !.depth = Len(t.rel), !.real = t.target,
                                !.passed = passed, !.target = None]
        IN  /\ t.kind = "enter" /\ (t.depth = 0 => Walk(i).rootReal # None)
            /\ SetWalk(i, [Walk(i) EXCEPT
                   !.tasks = (@ \ {t}) \cup
                       (IF t.target = None \/ IsOnPath(passed, t.target) THEN {} ELSE {behind})])
            /\ UNCHANGED listFailures

-----------------------------------------------------------------------------
(* The documents of the files (discoverCollection, discoverSingleton).     *)

IdOf(rel) == [rel EXCEPT ![Len(rel)] = Stem[@]]
FoldedId(rel) == [k \in DOMAIN rel |-> Lower[IdOf(rel)[k]]]

\* Of files with one id one is kept, the first by path.
Documents(i) ==
    LET found == Walk(i).found
        first(id) == CHOOSE rel \in found : FoldedId(rel) = id
    IN  {[id |-> IdOf(first(id)), locale |-> Locale(i), rel |-> first(id)]
            : id \in {FoldedId(rel) : rel \in found}}
Duplicates(i) ==
    IF \E a, b \in Walk(i).found : a # b /\ FoldedId(a) = FoldedId(b)
    THEN {"duplicate-id"} ELSE {}

\* A singleton has one file for a locale, and needs one for the default.
SingletonFiles(i) ==
    IF Cardinality(Walk(i).found) = 1
    THEN {[id |-> Source(i).name, locale |-> Locale(i), rel |-> rel] : rel \in Walk(i).found}
    ELSE {}
SingletonErrors(i) ==
    IF Cardinality(Walk(i).found) > 1 THEN {"singleton-ambiguous"}
    ELSE IF /\ Walk(i).found = {} /\ ~Source(i).optional
            /\ Locale(i) = discovery.project.localization.default
    THEN {"singleton-missing"} ELSE {}

EndLocale(i) ==
    LET collection == Source(i).kind = "collection"
        last == Walk(i).at = Len(LocalesOf(discovery.project, Source(i)))
    IN  /\ Walk(i).pc = "list" /\ Walk(i).tasks = {}
        /\ SetWalk(i, [Walk(i) EXCEPT
               !.files = @ \cup (IF collection THEN Documents(i) ELSE SingletonFiles(i)),
               !.errors = @ \cup (IF collection THEN Duplicates(i) ELSE SingletonErrors(i)),
               !.found = {}, !.rootReal = None,
               !.pc = IF last THEN "done" ELSE "locale",
               !.at = IF last THEN 1 ELSE @ + 1])
        /\ UNCHANGED listFailures

EndDiscovery ==
    /\ discovery # None
    /\ \A i \in DOMAIN discovery.walks : Walk(i).pc = "done"
    /\ discovered' = [project |-> discovery.project, seen |-> discovery.seen,
                      errors |-> UNION {Walk(i).errors : i \in DOMAIN discovery.walks},
                      files |-> [i \in DOMAIN discovery.walks |-> Walk(i).files]]
    /\ discovery' = None
    /\ UNCHANGED <<sources, loading, content, listFailures, discoveries>>

Interrupt ==
    /\ discovery # None
    /\ discovery' = None
    /\ UNCHANGED <<sources, loading, content, discovered, listFailures, discoveries>>

-----------------------------------------------------------------------------
(* The user edits the content.                                             *)

\* What was in a folder goes with it.
EditTree ==
    \E edit \in TreeEdits :
        LET added == {p \in DOMAIN edit : edit[p] # None}
            isLost(p) == \E q \in DOMAIN edit :
                            IsInside(p, q) /\ ~(q \in added /\ edit[q].kind \in Folders)
            next == [p \in {q \in DOMAIN tree : ~isLost(q)} \cup added |->
                        IF p \in added THEN edit[p] ELSE tree[p]]
        IN  /\ treeEdits < MaxTreeEdits
            /\ next # tree
            /\ \A p \in added : KindIn(next, Dirname(p)) = "folder"
            /\ tree' = next
            /\ treeEdits' = treeEdits + 1
            /\ discovery' = IF discovery = None THEN None
                            ELSE [discovery EXCEPT !.seen = @ \cup {next}]
            /\ UNCHANGED <<sources, loading, discovered, listFailures, discoveries>>

-----------------------------------------------------------------------------

Init ==
    /\ LoaderInit
    /\ treeEdits = 0
    /\ discovery = None /\ discovered = None
    /\ listFailures = 0 /\ discoveries = 0

WalkNext(i) ==
    \/ BeginSource(i) \/ BeginLocale(i) \/ ReadFolder(i) \/ CannotRead(i)
    \/ ListingFails(i) \/ LookAtLink(i) \/ FindTarget(i) \/ FindRoot(i) \/ EnterLink(i)
    \/ EndLocale(i)

Next ==
    \/ discovery = None /\ BeginLoad /\ UNCHANGED <<content, walking>>
    \/ LoadNext /\ UNCHANGED <<content, walking>>
    \/ \E f \in Files : EditModule(f) /\ UNCHANGED <<content, walking>>
    \/ BeginDiscovery
    \/ discovery # None /\ \E i \in DOMAIN discovery.walks : WalkNext(i)
    \/ EndDiscovery
    \/ Interrupt
    \/ EditTree

Spec == Init /\ [][Next]_vars

-----------------------------------------------------------------------------
(* The properties.                                                         *)

\* What a project exports, the types it declares and the files it writes have
\* names of their own, the files also where case is not told apart: codegen.ts
\* never writes two things of one name for a project that resolve.ts accepted.
NamesAreUnique ==
    loaded # None =>
        LET emitted == Emitted(loaded.project)
            key(s) == IF s.space = "file" THEN <<s.space, s.name.words>>
                      ELSE <<s.space, s.name>>
        IN  IsInjective([k \in DOMAIN emitted |-> key(emitted[k])])

\* Sources that are embedded are linked before those that embed them.
EmbedsComeFirst ==
    loaded # None =>
        LET order == loaded.project.embedOrder
            all == Elements(loaded.project.sources)
        IN  /\ IsInjective(order) /\ Elements(order) = {s.name : s \in all}
            /\ \A s \in all : \A r \in Elements(s.references) :
                   r.embed => \E j, k \in DOMAIN order :
                       order[j] = r.collection /\ order[k] = s.name /\ j < k

\* The paths below a base, as deep as they are looked at here.
Below(nodes, base) ==
    LET at[depth \in 0..4] ==
            IF depth = 0 THEN {<<>>}
            ELSE UNION {{Append(rel, Last(p)) : p \in Children(nodes, RealIn(nodes, base \o rel))}
                           : rel \in at[depth - 1]}
    IN  UNION {at[depth] : depth \in 1..4}

\* The names of a path below the base of a source: a pattern names it, and no
\* folder on the way is hidden, left out or managed by Anhur.
IsWanted(project, s, base, rel) ==
    LET managed == {project.outputDir} \cup project.cacheDirs \cup Elements(project.scopeDirs)
        prefix(k) == SubSeq(rel, 1, k)
    IN  /\ \A k \in DOMAIN rel :
               /\ rel[k] \notin Hidden
               /\ \A folder \in managed : ~IsInside(base \o prefix(k), folder)
               /\ k < Len(rel) => ~ExcludesFolder(s.exclude, prefix(k))
        /\ ~ExcludesFile(s.exclude, rel)
        /\ \E a \in FileAlternatives(s.include) : Matches(a, rel)

\* The folders on the way that are links lead to no folder the way came through,
\* and a literal segment names each of them.
MayFollow(nodes, s, base, rel) ==
    LET route == Route(nodes, base \o rel)
        real(k) == route[Len(base) + k]
        links == {k \in 1..(Len(rel) - 1) : real(k) # Append(real(k - 1), rel[k])}
    IN  /\ \A k \in links : \A j \in 0..(k - 1) : real(k) # real(j)
        /\ \E a \in FileAlternatives(s.include) : \E read \in Ways(a, rel) :
               \A k \in links : ~a[read[k]].deep /\ a[read[k]].literal

IsNamed(nodes, project, s, base, rel) ==
    /\ KindAt(nodes, base \o rel) = "file"
    /\ IsWanted(project, s, base, rel) /\ MayFollow(nodes, s, base, rel)

\* A path leads through the same folders in all these trees.
IsSteady(trees, path) ==
    \A one, other \in trees :
        LET route == Route(one, path)
        IN  /\ Route(other, path) = route
            /\ \A k \in DOMAIN route : KindIn(one, route[k]) = KindIn(other, route[k])

\* A discovery without errors has every file that the patterns name whose path
\* was the same throughout.  It has no other than one with a name that is wanted
\* that was there at some time; when its path was the same throughout, one that
\* the patterns name: nothing Anhur generated, nothing left out, and nothing
\* again behind a link to a folder the walk is in.
DiscoveredIsThere ==
    discovered # None /\ discovered.errors = {} =>
        LET project == discovered.project
            seen == discovered.seen
        IN  \A i \in DOMAIN project.sources :
                LET s == project.sources[i]
                IN  s.filePath # None \/ \A locale \in Elements(LocalesOf(project, s)) :
                        LET base == BaseOf(s, locale)
                            found == {f.rel : f \in {d \in discovered.files[i] : d.locale = locale}}
                            named(rel) == \A nodes \in seen : IsNamed(nodes, project, s, base, rel)
                            steady(rel) == IsSteady(seen, base \o rel)
                        IN  /\ \A rel \in UNION {Below(nodes, base) : nodes \in seen} :
                                   steady(rel) /\ named(rel) => rel \in found
                            /\ \A rel \in found :
                                   /\ IsWanted(project, s, base, rel)
                                   /\ \E nodes \in seen : KindAt(nodes, base \o rel) = "file"
                                   /\ steady(rel) => named(rel)
=============================================================================
