----------------------------- MODULE MCProject -----------------------------
(* Two sets of beginnings for Project.  In one a config with a helper, an     *)
(* installed package that becomes a workspace package, and a lockfile are     *)
(* edited, and the content too while it is walked.  In the other every config  *)
(* of a larger set is loaded once: sources, a singleton and a view whose names *)
(* can collide and that can embed each other.                                 *)
EXTENDS Project

CONSTANTS config, helper, package, workspace, extra, lock

MCProjectDir == <<"p">>

-----------------------------------------------------------------------------
(* Entries.                                                                *)

Name(word) == [case |-> "lower", words |-> <<word>>]
MCPluralForm == [w \in {"post", "posts", "news", "page", "settings"} |->
                    IF w = "post" THEN "posts" ELSE w]
MCNotIdentifiers == {Name("default")}

File(names) == [deep |-> FALSE, names |-> names, literal |-> FALSE]
Literal(name) == [deep |-> FALSE, names |-> {name}, literal |-> TRUE]
Deep == [deep |-> TRUE, names |-> {}, literal |-> FALSE]
Glob(alternatives) == [files |-> alternatives, folders |-> {}]
Markdown == File({"a.md", "A.md", "b.md"})
MCDefaultInclude == <<Glob({<<Literal("index.md")>>})>>

Schema == [good |-> TRUE, rootKeys |-> {"slug"}, references |-> <<>>, requires |-> {}]
Embeds(name) == [Schema EXCEPT
    !.references = <<[collection |-> Name(name), by |-> "slug", embed |-> TRUE]>>]

Entry0 == [name |-> None, typeName |-> None, directory |-> None, filePath |-> None,
    include |-> <<Glob({<<Markdown>>})>>, exclude |-> <<>>, localized |-> None,
    optional |-> FALSE, schema |-> Schema, split |-> "light", lookupBy |-> None,
    emitAll |-> None, emitIds |-> FALSE, emitSlugs |-> FALSE,
    listName |-> None, getterName |-> None, arrayTypeName |-> None,
    listItemTypeName |-> None, exportName |-> None, variantsName |-> None,
    valid |-> TRUE, type |-> "collection"]
Posts == [Entry0 EXCEPT !.name = Name("posts"), !.typeName = Pascal(<<"post">>),
                        !.directory = <<"content">>]
News == [Entry0 EXCEPT !.name = Name("news"), !.typeName = Pascal(<<"news">>),
                       !.directory = <<"news">>]
Settings == [Entry0 EXCEPT !.type = "singleton", !.name = Name("settings"),
    !.typeName = Pascal(<<"settings">>), !.directory = <<"settings">>, !.include = <<>>]
View == [type |-> "view", name |-> Name("page"), typeName |-> Pascal(<<"page">>),
    from |-> <<Name("posts")>>, select |-> TRUE, key |-> None, valid |-> TRUE,
    exportName |-> None, listItemTypeName |-> None, arrayTypeName |-> None,
    recordTypeName |-> None, groupTypeName |-> None]

Config0 == [valid |-> TRUE, localization |-> None, content |-> <<Posts>>, views |-> <<>>,
    scopes |-> <<>>, plugins |-> <<[name |-> "p", assets |-> None, setup |-> TRUE]>>,
    outputDir |-> <<"content", "gen">>, cacheDir |-> <<"cache">>]
Both == [locales |-> <<"en", "de">>, default |-> "en"]

-----------------------------------------------------------------------------
(* The config that is edited.                                              *)

\* "**/*.md", "guides/*.md" without "drafts/"; the folder guides is a link.
Walked == [Posts EXCEPT
    !.include = <<Glob({<<Deep, Markdown>>}), Glob({<<Literal("guides"), Markdown>>}),
                  Glob({<<Literal("posts"), Deep, Literal("up"), Literal("posts"), Markdown>>})>>,
    !.exclude = <<[files |-> {}, folders |-> {<<Literal("drafts")>>}]>>]
Scoped == [Config0 EXCEPT !.content = <<Walked>>,
    !.scopes = <<[name |-> "s", outputDir |-> <<"content", "scope">>, where |-> {}]>>]
Localized0 == [Config0 EXCEPT !.localization = Both,
    !.content = <<[Posts EXCEPT !.include = <<Glob({<<Deep>>})>>],
                  [Settings EXCEPT !.directory = <<"content">>]>>]

Text(imports, value) ==
    [imports |-> imports, good |-> TRUE, value |-> value, config |-> None]
MCFiles == {config, helper, package, workspace, extra, lock}
MCFirst ==
    [f \in MCFiles |->
        CASE f = config -> Text(<<"helper", "package">>, 1)
          [] f = helper -> IF helper \in Appearing THEN None ELSE Text(<<>>, 1)
          [] OTHER -> Text(<<>>, 1)]
MCTexts ==
    [f \in MCFiles |->
        CASE f = config -> <<Text(<<"package">>, 2), None>>
          [] f = helper -> <<Text(<<"package">>, 2), Text(<<>>, 3)>>
          [] f = workspace -> <<Text(<<"extra">>, 2), [Text(<<>>, 3) EXCEPT !.good = FALSE]>>
          [] OTHER -> <<Text(<<>>, 2)>>]
MCCandidates(spec, lockfile) ==
    IF spec = "helper" THEN <<helper>>
    ELSE IF spec = "extra" THEN <<extra>>
    ELSE IF lockfile.value = 1 THEN <<package>> ELSE <<workspace>>
MCConfigOf(texts) ==
    LET value(f) == IF f \in DOMAIN texts THEN texts[f].value ELSE 0
    IN  IF texts[config].config # None THEN texts[config].config
        ELSE CASE value(workspace) = 2 ->
                     [Config0 EXCEPT !.plugins = <<[@[1] EXCEPT !.setup = FALSE]>>]
               [] value(helper) = 2 -> Scoped
               [] value(helper) = 3 -> [Config0 EXCEPT !.content = <<Walked>>]
               [] value(config) = 2 -> Localized0
               [] OTHER -> [Config0 EXCEPT !.content = <<Walked>>]

-----------------------------------------------------------------------------
(* The content, with what Anhur and a plugin wrote there.                  *)

Folder == [kind |-> "folder", to |-> None]
Content == [kind |-> "file", to |-> None]
Link(path) == [kind |-> "link", to |-> path]
In(path) == <<"p", "content">> \o path
MCTree ==
    (<<"p">> :> Folder) @@ (<<"p", "shared">> :> Folder)
    @@ (<<"p", "shared", "a.md">> :> Content)
    @@ (In(<<>>) :> Folder) @@ (In(<<"posts">>) :> Folder)
    @@ (In(<<"posts", "a.md">>) :> Content) @@ (In(<<"posts", "up">>) :> Link(In(<<>>)))
    @@ (In(<<"gen">>) :> Folder) @@ (In(<<"gen", "b.md">>) :> Content)
    @@ (In(<<"scope">>) :> Folder) @@ (In(<<"scope", "b.md">>) :> Content)
    @@ (In(<<"drafts">>) :> Folder) @@ (In(<<"drafts", "b.md">>) :> Content)
    @@ (In(<<"guides">>) :> Link(<<"p", "shared">>))
    @@ (In(<<"en">>) :> Folder) @@ (In(<<"en", "index.md">>) :> Content)
    @@ (In(<<"de">>) :> Link(In(<<"en">>)))
MCTreeEdits ==
    {In(<<>>) :> None,
     In(<<"posts">>) :> [kind |-> "locked", to |-> None],
     In(<<"posts", "A.md">>) :> Content,
     (In(<<"guides">>) :> Folder) @@ (In(<<"guides", "b.md">>) :> Content),
     \* Links come to lead to folders the walk is in.
     In(<<"guides">>) :> Link(In(<<>>)),
     In(<<"posts">>) :> Link(In(<<>>)),
     (<<"p", "shared">> :> Link(In(<<"posts">>))) @@ (In(<<"guides">>) :> Link(In(<<"posts">>))),
     (In(<<>>) :> Link(<<"p", "shared">>))}
MCStem == [n \in {"a.md", "A.md", "b.md", "index.md"} |->
    CASE n = "a.md" -> "a" [] n = "A.md" -> "A" [] n = "b.md" -> "b" [] OTHER -> "index"]
MCLower == [n \in {"a", "A", "b", "index", "posts", "guides", "drafts", "gen", "scope", "up", "de"} |->
    IF n = "A" THEN "a" ELSE n]

-----------------------------------------------------------------------------
(* Configs that are loaded once.                                           *)

PostsEntries ==
    {[Posts EXCEPT !.split = IF more THEN "light" ELSE "full",
                   !.emitIds = more, !.emitSlugs = more,
                   !.listName = list, !.typeName = type, !.schema = schema]
        : more \in BOOLEAN,
          list \in {None, Name("index"), [case |-> "lower", words |-> <<"get", "post">>]},
          type \in {Pascal(<<"post">>), Pascal(<<"news">>)},
          schema \in {Schema, Embeds("news")}}
Seconds ==
    {[News EXCEPT !.schema = schema, !.arrayTypeName = array]
        : schema \in {Schema, Embeds("posts")},
          array \in {None, Pascal(<<"news">>), Pascal(<<"post", "id">>)}}
    \cup {[Settings EXCEPT !.localized = localized, !.emitAll = all, !.exportName = export,
               !.directory = IF localized = FALSE THEN None ELSE @,
               !.filePath = IF localized = FALSE THEN <<"a.md">> ELSE None]
        : localized \in {None, FALSE}, all \in {None, FALSE},
          export \in {None, Name("default"), Camel(<<"all", "page">>)}}
Thirds ==
    {<<>>} \cup
    {<<[View EXCEPT !.type = type, !.exportName = names[1], !.typeName = Pascal(names[2])]>>
        : type \in {"view", "index", "group"},
          names \in {<<None, <<"page">>>>,
                     <<[case |-> "lower", words |-> <<"settings", "all">>], <<"page", "key">>>>}}
    \cup {<<[View EXCEPT !.type = "index", !.name = Pascal(<<"settings">>)]>>}
Configs ==
    {[Config0 EXCEPT !.content = <<first, second>>, !.views = views, !.localization = l]
        : first \in PostsEntries, second \in Seconds, views \in Thirds, l \in {None, Both}}
    \cup
    {[Config0 EXCEPT !.outputDir = output, !.cacheDir = cache,
                     !.scopes = <<[name |-> "s", outputDir |-> scope, where |-> {}]>>]
        : output \in {<<"out">>, <<"content", "gen">>, <<"..", "p">>},
          cache \in {None, <<"out", "cache">>, <<"cache">>},
          scope \in {<<"out", "s">>, <<"content", "s">>, <<"s">>}}
    \cup
    {[Config0 EXCEPT !.plugins = <<[@[1] EXCEPT !.assets = [base |-> TRUE, dir |-> dir]]>>]
        : dir \in {<<"assets">>, <<"content", "gen", "a">>, <<"content", "a">>, <<"..">>}}

Edited ==
    /\ Init
    /\ disk = MCFirst
    /\ tree = MCTree
Once ==
    /\ version = [f \in Files |-> IF f = lock THEN MaxEdits ELSE 0]
    /\ \E c \in Configs : disk = [MCFirst EXCEPT ![config] = [Text(<<>>, 1) EXCEPT !.config = c]]
    /\ records = <<>> /\ resolvedWith = None /\ jobs = [a \in Actors |-> None]
    /\ loaded = None /\ failed = FALSE /\ inspects = MaxInspects /\ edited = FALSE
    /\ tree = <<>> /\ treeEdits = MaxTreeEdits
    /\ discovery = None /\ discovered = None
    /\ listFailures = MaxListFailures /\ discoveries = MaxDiscoveries
\* The config is edited while it is loaded, the content while it is walked: a
\* walk does not depend on how its project was loaded, and a session goes on
\* after it as before it.  A walk with a listing that failed has an error, whatever
\* is edited.
MCEdits ==
    /\ disk' # disk \/ jobs' # jobs => discovery = None
    /\ discovery = None /\ discovery' # None =>
           inspects = 0 /\ FoldFunction(+, 0, version) < MaxEdits
    /\ tree' # tree => discovery # None /\ listFailures = 0
    /\ listFailures' # listFailures => treeEdits = 0
    /\ discovered = None
MCInit == Edited \/ Once
MCSpec == MCInit /\ [][Next]_vars
=============================================================================
