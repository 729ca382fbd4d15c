------------------------------ MODULE Resolve ------------------------------
(* resolveProject of packages/core/src/engine/resolve.ts: what a config is    *)
(* turned into, and which configs are refused.  With it what codegen.ts       *)
(* exports for the project (planOutput), by the names it was given here.      *)
(*                                                                            *)
(* A name is its words and how they are written: [case, words].  A path is    *)
(* the sequence of its folders.  A field the config leaves out is None.  The  *)
(* checks of single values (a callback is a function, a number is whole) are  *)
(* one flag of an entry, `valid'.                                             *)
EXTENDS Naturals, Sequences, SequencesExt, FiniteSetsExt

CONSTANTS
    None,
    ProjectDir,     \* the folder of the config
    DefaultInclude, \* index.{md,mdx,yml,yaml,json}
    PluralForm,     \* [words -> words], the library pluralize
    NotIdentifiers  \* names that are no JavaScript identifiers

Or(value, default) == IF value = None THEN default ELSE value
Option(condition, sequence) == IF condition THEN sequence ELSE <<>>
Elements(sequence) == {sequence[i] : i \in DOMAIN sequence}

-----------------------------------------------------------------------------
(* Names (naming.ts).                                                      *)

Pascal(words) == [case |-> "pascal", words |-> words]
Camel(words) ==
    [case |-> IF Len(words) = 1 THEN "lower" ELSE "camel", words |-> words]
Plural(words) == [words EXCEPT ![Len(words)] = PluralForm[@]]
Get(name) ==
    [case |-> IF name.case = "pascal" THEN "camel" ELSE "lower",
     words |-> <<"get">> \o name.words]
With(name, word) ==
    [case |-> IF name.case = "pascal" THEN "pascal" ELSE "camel",
     words |-> Append(name.words, word)]
ListExportName(words) == Camel(<<"all">> \o Plural(words))
\* A name that is an identifier is kept as it is written.
Identifier(name) ==
    IF name.case = "hyphen" \/ name \in NotIdentifiers THEN Camel(name.words) ELSE name
ArrayTypeName(type) ==
    IF Plural(type.words) = type.words THEN With(type, "list")
    ELSE [type EXCEPT !.words = Plural(@)]
\* Words that are told apart by a capital only are one in a file name.
FileSafeName(name) ==
    [case |-> IF name.case = "camel" THEN "lower" ELSE "hyphen",
     words |-> name.words]

-----------------------------------------------------------------------------
(* The table of what is generated (SymbolTable).                           *)

Symbol(space, name) == [space |-> space, name |-> name]
Type(name) == <<Symbol("type", name)>>
\* An export comes with the file of its name.
Export(name) == <<Symbol("export", name), Symbol("file", name)>>

KeyAsWritten(s) == <<s.space, s.name>>                            \* mutant
SymbolKey(s) ==
    IF s.space = "file" THEN <<s.space, s.name.words>> ELSE <<s.space, s.name>>

NoCollision(symbols) ==
    /\ \A s \in Elements(symbols) :
           s.space \in {"export", "type"} => s.name \notin NotIdentifiers
    /\ \A i, j \in DOMAIN symbols :
           SymbolKey(symbols[i]) = SymbolKey(symbols[j]) => i = j

Reserved(config) ==
    <<Symbol("file", Camel(<<"index">>)), Symbol("file", Camel(<<"locales">>))>>
    \o Option(config.localization # None,
              <<Symbol("export", Camel(<<"locales">>)),
                Symbol("export", Camel(<<"default", "locale">>)),
                Symbol("type", Pascal(<<"locale">>))>>)

-----------------------------------------------------------------------------
(* Paths (paths.ts).                                                       *)

\* path.resolve(projectDir, path).
Absolute(path) ==
    LET ups == Cardinality({i \in DOMAIN path : path[i] = ".."})
    IN  SubSeq(ProjectDir, 1, Len(ProjectDir) - ups) \o SubSeq(path, ups + 1, Len(path))
Dirname(path) == SubSeq(path, 1, Len(path) - 1)
IsInside(child, parent) == IsPrefix(parent, child)
Overlaps(a, b) == IsInside(a, b) \/ IsInside(b, a)

-----------------------------------------------------------------------------
(* Localization and plugins.                                               *)

LocalizationOk(config) ==
    config.localization = None
    \/ LET l == config.localization
       IN  /\ l.locales # <<>> /\ IsInjective(l.locales)
           /\ l.default \in Elements(l.locales)

\* The plugins have names of their own, and one of them handles assets.
PluginsOk(config) ==
    /\ IsInjective([i \in DOMAIN config.plugins |-> config.plugins[i].name])
    /\ \A i, j \in DOMAIN config.plugins :
           config.plugins[i].assets # None /\ config.plugins[j].assets # None => i = j
    /\ \A p \in Elements(config.plugins) : p.assets # None => p.assets.base
PluginNames(config) == {p.name : p \in Elements(config.plugins)}
AssetHosts(config) == {p \in Elements(config.plugins) : p.assets # None}

-----------------------------------------------------------------------------
(* Collections and singletons.                                             *)

SchemaOk(config, e) ==
    /\ e.schema.good
    /\ e.schema.requires \subseteq PluginNames(config)

Localized(config, e) == config.localization # None /\ e.localized # FALSE
KnownKeys(rootKeys, keys) == rootKeys = {} \/ keys \subseteq rootKeys \cup {"id"}

CollectionOk(config, e) ==
    /\ e.directory # None
    /\ e.include # <<>>
    /\ e.localized = TRUE => config.localization # None
    /\ SchemaOk(config, e)
    /\ e.split \in {"light", "full", "list-only"}
    /\ KnownKeys(e.schema.rootKeys, Or(e.lookupBy, {}))

CollectionNames(e) ==
    [typeName |-> e.typeName,
     listName |-> Or(e.listName, ListExportName(e.name.words)),
     getterName |-> Or(e.getterName, Get(e.typeName)),
     arrayTypeName |-> Or(e.arrayTypeName, ArrayTypeName(e.typeName)),
     listItemTypeName |-> Or(e.listItemTypeName, With(e.typeName, "listitem")),
     idTypeName |-> With(e.typeName, "id"),
     slugTypeName |-> With(e.typeName, "slug")]

CollectionSymbols(source) ==
    LET names == source.names
    IN  Type(names.typeName) \o Type(names.listItemTypeName)
        \o Option(names.arrayTypeName # names.typeName, Type(names.arrayTypeName))
        \o Export(names.listName)
        \o Option(source.emitDocuments, Export(names.getterName))
        \o Option(source.emitIds, Type(names.idTypeName))
        \o Option(source.emitSlugs, Type(names.slugTypeName))
        \o <<Symbol("folder", source.documentsDir)>>

ResolvedCollection(config, e) ==
    [kind |-> "collection", name |-> e.name,
     localized |-> Localized(config, e),
     root |-> Absolute(e.directory), filePath |-> None, optional |-> FALSE,
     include |-> e.include, exclude |-> e.exclude,
     rootKeys |-> e.schema.rootKeys, references |-> e.schema.references,
     documentsDir |-> FileSafeName(e.name), names |-> CollectionNames(e),
     emitDocuments |-> e.split = "light", emitAll |-> FALSE,
     emitIds |-> e.emitIds, emitSlugs |-> e.emitSlugs]

\* A localized one has a folder, the other a file, and neither has both.
SingletonOk(config, e) ==
    /\ e.localized = TRUE => config.localization # None
    /\ IF Localized(config, e) THEN e.directory # None /\ e.filePath = None
                               ELSE e.directory = None /\ e.filePath # None
    /\ SchemaOk(config, e)
    /\ e.split \in {"light", "full", "list-only"}

SingletonNames(e) ==
    LET exportName == Or(e.exportName, Camel(e.name.words))
    IN  [typeName |-> e.typeName, exportName |-> exportName,
         getterName |-> Or(e.getterName, Get(e.typeName)),
         variantsName |-> Or(e.variantsName, With(exportName, "all"))]

SingletonSymbols(source) ==
    LET names == source.names
    IN  Type(names.typeName) \o Export(names.exportName)
        \o Option(source.emitAll, Export(names.variantsName))
        \o Option(source.emitDocuments, Export(names.getterName))
        \o <<Symbol("folder", source.documentsDir)>>

ResolvedSingleton(config, e) ==
    LET localized == Localized(config, e)
    IN  [kind |-> "singleton", name |-> e.name, localized |-> localized,
         root |-> IF localized THEN Absolute(e.directory)
                  ELSE Dirname(Absolute(e.filePath)),
         filePath |-> IF localized THEN None ELSE Absolute(e.filePath),
         optional |-> e.optional,
         include |-> IF e.include = <<>> THEN DefaultInclude ELSE e.include,
         exclude |-> <<>>,
         rootKeys |-> e.schema.rootKeys, references |-> e.schema.references,
         documentsDir |-> FileSafeName(e.name), names |-> SingletonNames(e),
         emitDocuments |-> e.split = "light",
         emitAll |-> localized /\ e.emitAll # FALSE,
         emitIds |-> FALSE, emitSlugs |-> FALSE]

SourceSymbols(s) ==
    IF s.kind = "collection" THEN CollectionSymbols(s) ELSE SingletonSymbols(s)
Sources(config) ==
    [i \in DOMAIN config.content |->
        IF config.content[i].type = "collection"
        THEN ResolvedCollection(config, config.content[i])
        ELSE ResolvedSingleton(config, config.content[i])]

-----------------------------------------------------------------------------
(* Views, indexes and groups.                                              *)

Collections(config) ==
    {s \in Elements(Sources(config)) : s.kind = "collection"}

DerivedOk(config, e) ==
    LET from == {s \in Collections(config) : s.name \in Elements(e.from)}
    IN  /\ e.from # <<>> /\ IsInjective(e.from)
        /\ Elements(e.from) = {s.name : s \in from}
        /\ e.type = "view" /\ Len(e.from) > 1 => e.select
        /\ e.type # "view" /\ e.key # None =>
               \A s \in from : s.rootKeys = {} \/ e.key \in s.rootKeys

\* Fallbacks keep the names of one entry apart, where it leaves them open or not.
Apart(name, others, fallback) == IF name \in others THEN fallback ELSE name

DerivedNames(e) ==
    LET words == e.name.words
        item == Or(e.listItemTypeName, e.typeName)
        group == Apart(Or(e.groupTypeName, With(e.typeName, "group")), {item},
                       With(Pascal(words), "group"))
        record == Apart(Or(e.recordTypeName, Pascal(words)), {item},
                        With(Pascal(words), "map"))
        array == IF e.type = "view"
                 THEN Apart(Or(e.arrayTypeName, Pascal(Plural(words))), {item},
                            With(Pascal(words), "list"))
                 ELSE Apart(Or(e.arrayTypeName, Pascal(words)), {item, group},
                            With(Pascal(words), "list"))
    IN  [exportName |-> Or(e.exportName, IF e.type = "view" THEN ListExportName(words)
                                         ELSE Identifier(e.name)),
         listItemTypeName |-> item, arrayTypeName |-> array,
         recordTypeName |-> record, keyTypeName |-> With(Pascal(words), "key"),
         groupTypeName |-> group]

DerivedSymbols(d) ==
    LET names == d.names
    IN  Export(names.exportName) \o Type(names.listItemTypeName)
        \o Option(d.kind # "index", Type(names.arrayTypeName))
        \o Option(d.kind = "index", Type(names.recordTypeName))
        \o Option(d.kind # "view", Type(names.keyTypeName))
        \o Option(d.kind = "group", Type(names.groupTypeName))

Derived(config) ==
    [i \in DOMAIN config.views |->
        LET e == config.views[i]
        IN  [kind |-> e.type, name |-> e.name, from |-> e.from,
             names |-> DerivedNames(e)]]

-----------------------------------------------------------------------------
(* References.                                                             *)

ReferencesOk(sources) ==
    \A s \in Elements(sources) : \A r \in Elements(s.references) :
        \E t \in Elements(sources) :
            t.name = r.collection /\ KnownKeys(t.rootKeys, {r.by})

NothingIsEmbedded(sources, r) == FALSE                             \* mutant
IsEmbedded(sources, r) == r.embed /\ \E s \in Elements(sources) : s.name = r.collection
ReferencesOf(sources, name) ==
    (CHOOSE s \in Elements(sources) : s.name = name).references

\* Depth first over what is embedded; a name met again on the way is a cycle.
EmbedOrder(sources) ==
    LET names == {s.name : s \in Elements(sources)}
        Walks == [order : Seq(names), cycle : BOOLEAN]
        visit[call \in Walks \X names \X Seq(names)] ==
            LET walk == call[1]
                name == call[2]
                trail == call[3]
                refs == ReferencesOf(sources, name)
                after[k \in 0..Len(refs)] ==
                    IF k = 0 THEN walk
                    ELSE IF IsEmbedded(sources, refs[k])
                    THEN visit[<<after[k - 1], refs[k].collection, Append(trail, name)>>]
                    ELSE after[k - 1]
            IN  IF name \in Elements(walk.order) THEN walk
                ELSE IF name \in Elements(trail) THEN [walk EXCEPT !.cycle = TRUE]
                ELSE [after[Len(refs)] EXCEPT !.order = Append(@, name)]
        all[k \in 0..Len(sources)] ==
            IF k = 0 THEN [order |-> <<>>, cycle |-> FALSE]
            ELSE visit[<<all[k - 1], sources[k].name, <<>>>>]
    IN  all[Len(sources)]

-----------------------------------------------------------------------------
(* Scopes and the folders of the project (checkPaths).                     *)

ScopesOk(config) ==
    /\ IsInjective([i \in DOMAIN config.scopes |-> config.scopes[i].name])
    /\ \A s \in Elements(config.scopes) :
           /\ s.outputDir # None
           /\ s.where \subseteq {e.name : e \in Elements(config.content)}

OutputDir(config) == Absolute(config.outputDir)
CacheDirs(config) ==
    IF config.cacheDir = None THEN {} ELSE {Absolute(config.cacheDir)}
ScopeDirs(config) ==
    [i \in DOMAIN config.scopes |-> Absolute(config.scopes[i].outputDir)]
AssetsDirs(config) ==
    {Absolute(p.assets.dir) : p \in {h \in AssetHosts(config) : h.assets.dir # None}}

\* No managed folder holds the project, the content or a singleton.
ManagedOk(sources, dir) ==
    /\ ~IsInside(ProjectDir, dir)
    /\ \A s \in sources :
           /\ Overlaps(dir, s.root) => IsInside(dir, s.root)
           /\ s.filePath # None => ~IsInside(s.filePath, dir)

\* No scope lies in content that would be read back, nor in another output.
ScopeDirsApart(config, sources) ==
    LET dirs == ScopeDirs(config)
    IN  \A i \in DOMAIN dirs :
            /\ \A s \in sources :
                   IsInside(dirs[i], s.root) => s.kind # "collection" /\ s.filePath # None
            /\ \A other \in {OutputDir(config)} \cup CacheDirs(config)
                            \cup AssetsDirs(config) \cup {dirs[j] : j \in 1..(i - 1)} :
                   ~Overlaps(dirs[i], other)

PathsOk(config, sources) ==
    /\ \A dir \in {OutputDir(config)} \cup CacheDirs(config)
                  \cup Elements(ScopeDirs(config)) : ManagedOk(sources, dir)
    /\ \A dir \in CacheDirs(config) : ~Overlaps(dir, OutputDir(config))
    /\ ScopeDirsApart(config, sources)

-----------------------------------------------------------------------------
(* The project (resolveProject).                                           *)

Symbols(config) ==
    LET sources == Sources(config)
        derived == Derived(config)
    IN  Reserved(config)
        \o FlattenSeq([i \in DOMAIN sources |-> SourceSymbols(sources[i])])
        \o FlattenSeq([i \in DOMAIN derived |-> DerivedSymbols(derived[i])])

EntriesOk(config) ==
    LET entries == config.content \o config.views
    IN  /\ config.content # <<>>
        /\ IsInjective([i \in DOMAIN entries |-> entries[i].name])
        /\ \A e \in Elements(entries) : e.valid
        /\ \A e \in Elements(config.content) :
               IF e.type = "collection" THEN CollectionOk(config, e)
               ELSE SingletonOk(config, e)

\* What a check reads of an entry is there only when the checks before it passed.
Accepted(config) ==
    /\ config.valid
    /\ LocalizationOk(config) /\ PluginsOk(config)
    /\ EntriesOk(config)
    /\ \A e \in Elements(config.views) : DerivedOk(config, e)
    /\ NoCollision(Symbols(config))
    /\ ReferencesOk(Sources(config))
    /\ ~EmbedOrder(Sources(config)).cycle
    /\ ScopesOk(config)
    /\ PathsOk(config, Elements(Sources(config)))

ResolveProject(config) ==
    [config |-> config, sources |-> Sources(config), derived |-> Derived(config),
     localization |-> config.localization,
     outputDir |-> OutputDir(config), cacheDirs |-> CacheDirs(config),
     scopeDirs |-> ScopeDirs(config),
     embedOrder |-> EmbedOrder(Sources(config)).order]

-----------------------------------------------------------------------------
(* What codegen.ts writes for a project: every exported name, every type    *)
(* and every file of the output.                                            *)

EmittedForCollection(s) ==
    LET n == s.names
    IN  Type(n.typeName) \o Type(n.listItemTypeName)
        \o Option(n.arrayTypeName # n.typeName, Type(n.arrayTypeName))
        \o Option(s.emitIds, Type(n.idTypeName))
        \o Option(s.emitSlugs, Type(n.slugTypeName))
        \o Export(n.listName)
        \o Option(s.emitDocuments,
                  <<Symbol("folder", s.documentsDir)>> \o Export(n.getterName))

EmittedForSingleton(s) ==
    LET n == s.names
    IN  Export(n.exportName) \o Type(n.typeName)
        \o Option(s.emitAll, Export(n.variantsName))
        \o Option(s.emitDocuments,
                  <<Symbol("folder", s.documentsDir)>> \o Export(n.getterName))

EmittedForDerived(d) ==
    LET n == d.names
    IN  Type(n.listItemTypeName)
        \o (CASE d.kind = "view" -> Type(n.arrayTypeName)
              [] d.kind = "index" -> Type(n.keyTypeName) \o Type(n.recordTypeName)
              [] d.kind = "group" -> Type(n.keyTypeName) \o Type(n.groupTypeName)
                                     \o Type(n.arrayTypeName))
        \o Export(n.exportName)

Emitted(project) ==
    LET emitted(s) == IF s.kind = "collection" THEN EmittedForCollection(s)
                      ELSE EmittedForSingleton(s)
    IN  Option(project.localization # None,
               <<Symbol("file", Camel(<<"locales">>)),
                 Symbol("export", Camel(<<"locales">>)),
                 Symbol("export", Camel(<<"default", "locale">>)),
                 Symbol("type", Pascal(<<"locale">>))>>)
        \o FlattenSeq([i \in DOMAIN project.sources |-> emitted(project.sources[i])])
        \o FlattenSeq([i \in DOMAIN project.derived |-> EmittedForDerived(project.derived[i])])
        \o <<Symbol("file", Camel(<<"index">>))>>
=============================================================================
