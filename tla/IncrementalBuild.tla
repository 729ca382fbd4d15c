-------------------------- MODULE IncrementalBuild --------------------------
(***************************************************************************)
(* The builds of one session (runBuild and planTarget of                   *)
(* packages/core/src/engine/engine.service.ts) and what its stages         *)
(* remember from one build to the next: BuildMemory, TransformMemory,      *)
(* RelationMemory, UniqueMemory, DeriveMemory and PlanMemory.              *)
(*                                                                         *)
(* A document is an immutable object, and memory is keyed by objects.      *)
(* Objects are records here: two that are equal in every part are one.     *)
(* The code may hold two such objects apart and then does more again,      *)
(* never less.  Callbacks are functions of what they are given, as the     *)
(* transform cache asks.  Content is edited at any time; a build sees      *)
(* what it read (DocumentReuse says how).                                  *)
(***************************************************************************)
EXTENDS Stages

CONSTANTS
    Texts, Projects,
    TargetOrder,   \* the main output, then the scopes
    CachesTransforms(_, _),   \* of a project and a source: transformCache
    CachesViews(_, _),        \* of a project and a view: generate.cache
    MaxEvents      \* bound

ASSUME TargetsInOrder ==
    /\ TargetOrder \in Seq(Targets) /\ Len(TargetOrder) > 0
    /\ Targets = {TargetOrder[i] : i \in DOMAIN TargetOrder}
    /\ \A i, j \in DOMAIN TargetOrder : TargetOrder[i] = TargetOrder[j] => i = j
    /\ TargetOrder[1] = Main
\* What a build reads.
ASSUME NoneIsNone == None \notin [project : Projects, text : [Files -> Texts \cup {None}]]

VARIABLES
    project, text,
    events,    \* edits, restarts and failures so far (bounded)
    made,      \* how many objects were made of each file
    cached,    \* the validated documents of the session (documentCache)
    memory,    \* BuildMemory, and the PlanMemory of every target
    build,     \* the running build, or NoBuild
    writer,    \* the revision that the writer last wrote of each target
    output,    \* the files of every target
    calm       \* history: nothing changed since the last build was good

env == <<project, text, events>>
vars == <<env, made, cached, memory, build, writer, output, calm>>

NoBuild == [pc |-> "idle"]
Running == build.pc # "idle"
Taken == [project |-> build.project, text |-> build.text]
Fresh == INSTANCE FreshBuild WITH taken <- IF Running THEN Taken ELSE None

-----------------------------------------------------------------------------
(* What is remembered: maps that begin empty.                              *)

Put(map, key, value) == [k \in DOMAIN map \cup {key} |-> IF k = key THEN value ELSE map[k]]
Forget(map, key) == Only(map, DOMAIN map \ {key})

\* `passed' holds the groups that were free of conflicts last, if any.
NewTarget == [groups |-> <<>>, passed |-> {}, derived |-> <<>>,
              files |-> <<>>, values |-> <<>>, revision |-> 0]
NewMemory == [project |-> None, transforms |-> <<>>, prepared |-> <<>>,
              targets |-> [t \in Targets |-> NewTarget]]

Happens == events < MaxEvents /\ events' = events + 1

Edit(f) ==
    /\ Happens
    /\ \E x \in (Texts \cup {None}) \ {text[f]} : text' = [text EXCEPT ![f] = x]
    /\ calm' = FALSE
    /\ UNCHANGED <<project, made, cached, memory, build, writer, output>>

Reconfigure ==
    /\ Happens
    /\ project' \in Projects \ {project}
    /\ calm' = FALSE
    /\ UNCHANGED <<text, made, cached, memory, build, writer, output>>

-----------------------------------------------------------------------------
(* Validation and transforms.                                              *)

\* The memory of one loaded project.
MemoryFor(c) == IF memory.project = c THEN memory
                ELSE [NewMemory EXCEPT !.project = c]

IsCurrentByDocument(d, groups) ==                                 \* mutant
    /\ d.file \in DOMAIN memory.transforms
    /\ memory.transforms[d.file].of = d
\* A record of the document, and every source it read has the same documents.
IsCurrent(d, groups) ==
    /\ d.file \in DOMAIN memory.transforms
    /\ memory.transforms[d.file].of = d
    /\ LET reads == memory.transforms[d.file].reads
       IN  \A s \in DOMAIN reads : reads[s] = groups[s]

\* The document of a file is the same object while the file is unchanged.
Unchanged(f) == /\ f \in DOMAIN cached
                /\ cached[f].project = project
                /\ cached[f].document.data = text[f]
Document(f) == IF Unchanged(f) THEN cached[f].document
               ELSE NewDocument(f, text[f], made[f] + 1)
NotForgotten ==                                                   \* mutant
    [f \in {f \in Files : text[f] # None} \cup DOMAIN cached |->
        IF text[f] = None THEN cached[f].document ELSE Document(f)]
Documents == [f \in {f \in Files : text[f] # None} |-> Document(f)]

Validate ==
    LET kept == Documents
        groups == GroupBySource(kept)
        known(d) == /\ memory.project = project
                    /\ CachesTransforms(project, SourceOf[d.file])
                    /\ IsCurrent(d, groups)
        changing == {f \in DOMAIN kept : /\ f \in DOMAIN groups[SourceOf[f]]
                                         /\ HasTransform(project, SourceOf[f])}
    IN  /\ ~Running
        /\ made' = [f \in Files |->
              IF f \in DOMAIN kept /\ kept[f].n > made[f] THEN kept[f].n ELSE made[f]]
        /\ cached' = [f \in DOMAIN kept |-> [project |-> project, document |-> kept[f]]]
        /\ memory' = MemoryFor(project)
        /\ build' = [pc |-> "transform", at |-> 1, failed |-> FALSE,
                     project |-> project, text |-> text,
                     groups |-> groups,
                     pending |-> {f \in changing : ~known(kept[f])},
                     finals |-> [f \in DOMAIN kept |->
                        IF f \in changing /\ known(kept[f])
                        THEN memory.transforms[f].final ELSE kept[f]],
                     sets |-> <<>>, plans |-> <<>>]
        /\ UNCHANGED <<env, writer, output, calm>>

\* The sources take their turn in config order; eight documents of one at once.
Turn(f) ==
    /\ build.pc = "transform"
    /\ f \in build.pending
    /\ \A g \in build.pending : \E i, j \in DOMAIN Sources :
          i <= j /\ Sources[i] = SourceOf[f] /\ Sources[j] = SourceOf[g]

\* A run that gives the same data again keeps the document it had; a document
\* that is left out has no data.
Final(d, data) ==
    LET last == memory.transforms[d.file]
    IN  IF data = None THEN [d EXCEPT !.data = None]
        ELSE IF /\ d.file \in DOMAIN memory.transforms
                /\ last.of = d /\ last.final.data = data
             THEN last.final
             ELSE [d EXCEPT !.data = data, !.n = made[d.file] + 1]

TransformDocument(f) ==
    /\ Turn(f)
    /\ LET d == cached[f].document
           final == Final(d, TransformOf(build.project, d, build.groups))
       IN  /\ memory' = [memory EXCEPT !.transforms = Put(@, f,
                 [of |-> d, final |-> final,
                  reads |-> [s \in TransformReads(build.project, d.data) |-> build.groups[s]]])]
           /\ made' = [made EXCEPT ![f] = IF final.n <= @ THEN @ ELSE final.n]
           /\ build' = [build EXCEPT !.pending = @ \ {f}, !.finals[f] = final]
    /\ UNCHANGED <<env, cached, writer, output, calm>>

\* The others go on, and are remembered.
TransformFails(f) ==
    /\ Turn(f)
    /\ Happens
    /\ build' = [build EXCEPT !.pending = @ \ {f}, !.failed = TRUE]
    /\ UNCHANGED <<project, text, made, cached, memory, writer, output, calm>>

-----------------------------------------------------------------------------
(* prepare, and the documents that each scope keeps.                       *)

AlwaysAnew(d, data) == [d EXCEPT !.data = data, !.n = made[d.file] + 1] \* mutant
\* A new document only when the data is new.
PreparedDocument(d, data) ==
    LET known == memory.prepared[d.file]
    IN  IF /\ d.file \in DOMAIN memory.prepared
           /\ known.of = d /\ known.document.data = data
        THEN known.document
        ELSE IF d.data = data THEN d
        ELSE [d EXCEPT !.data = data, !.n = made[d.file] + 1]

AfterTransforms == [s \in Names |->
    [f \in {f \in DOMAIN build.groups[s] : build.finals[f].data # None} |-> build.finals[f]]]

Prepare ==
    /\ build.pc = "transform" /\ build.pending = {} /\ ~build.failed
    /\ LET given == AfterTransforms
           c == build.project
           data(s, f) == PreparedData(c, given[s][f], given)
           after == [s \in Names |->
               [f \in {f \in DOMAIN given[s] : data(s, f) # None} |->
                   PreparedDocument(given[s][f], data(s, f))]]
           changed == {f \in Files : /\ f \in DOMAIN after[SourceOf[f]]
                                     /\ after[SourceOf[f]][f] # given[SourceOf[f]][f]}
       IN  /\ memory' = [memory EXCEPT !.prepared =
                 [f \in DOMAIN @ \cup changed |->
                     IF f \in changed
                     THEN [of |-> given[SourceOf[f]][f], document |-> after[SourceOf[f]][f]]
                     ELSE @[f]]]
           /\ made' = [f \in Files |->
                 IF f \in changed /\ after[SourceOf[f]][f].n > made[f]
                 THEN made[f] + 1 ELSE made[f]]
           /\ build' = [build EXCEPT
                 !.pc = IF \A t \in Targets : ScopeGood(c, t, after)
                        THEN "link" ELSE "refused",
                 !.sets = [t \in Targets |-> ScopeSources(c, t, after)]]
    /\ UNCHANGED <<env, cached, writer, output, calm>>

-----------------------------------------------------------------------------
(* planTarget: references, uniqueness, views, then the plugins and the     *)
(* plan, for the main output and for every scope.                          *)

Target == TargetOrder[build.at]
Remembered == memory.targets[Target]

\* The documents of the source and of the one it refers to are the same ones.
SameGroup(known, s, groups) ==
    /\ s \in DOMAIN known
    /\ known[s].documents = groups[s] /\ known[s].targets = groups[RefersTo[s]]

LinkSource(done, s) ==
    LET linked == Linked(s, done.groups)
        good == Resolves(s, done.groups)
    IN  IF RefersTo[s] = None THEN done
        ELSE IF SameGroup(done.known, s, done.groups)
             THEN [done EXCEPT !.groups[s] = done.known[s].result]
             ELSE [groups |-> [done.groups EXCEPT ![s] = linked],
                   good |-> done.good /\ good,
                   known |-> IF good
                             THEN Put(done.known, s, [documents |-> done.groups[s],
                                                      targets |-> done.groups[RefersTo[s]],
                                                      result |-> linked])
                             ELSE Forget(done.known, s)]

LinkAll(groups) ==
    LET done[i \in 0..Len(EmbedOrder)] ==
            IF i = 0 THEN [groups |-> groups, good |-> TRUE, known |-> Remembered.groups]
            ELSE LinkSource(done[i - 1], EmbedOrder[i])
    IN  done[Len(EmbedOrder)]

\* A view is resolved again when a source it used has other documents, or
\* when it asks for that.
SameInputs(v, groups) ==
    /\ v \in DOMAIN Remembered.derived
    /\ LET inputs == Remembered.derived[v].inputs
       IN  \A s \in DOMAIN inputs : inputs[s] = groups[s]
Derive(v, groups) ==
    IF CachesViews(build.project, v) /\ SameInputs(v, groups)
    THEN Remembered.derived[v]
    ELSE [inputs |-> [s \in ViewInputs(build.project, v, groups) |-> groups[s]],
          rows |-> RowsOf(build.project, v, groups)]

LinkTarget ==
    /\ build.pc = "link"
    /\ LET m == Remembered
           linked == LinkAll(build.sets[Target])
           passes == linked.groups \in m.passed \/ NoConflict(linked.groups)
           good == linked.good /\ passes
           derived == [v \in Views |-> Derive(v, linked.groups)]
           shown == {v \in Views : ViewGood(derived[v].rows)}
           views == [v \in DOMAIN m.derived \cup shown |->
                        IF v \in shown THEN derived[v] ELSE m.derived[v]]
       IN  /\ memory' = [memory EXCEPT !.targets[Target] =
                 [m EXCEPT !.groups = linked.known,
                           !.passed = IF passes THEN {linked.groups} ELSE {},
                           !.derived = IF good THEN views ELSE m.derived]]
           /\ build' = [build EXCEPT
                 !.sets[Target] = linked.groups,
                 !.pc = IF good /\ shown = Views THEN "plan" ELSE "refused"]
    /\ UNCHANGED <<env, made, cached, writer, output, calm>>

\* What the memory holds for a key, while the inputs are the same objects.
SameObjects(known, key, inputs) == key \in DOMAIN known /\ known[key].inputs = inputs
KeptText(known, key, file) ==
    IF SameObjects(known, key, file.inputs) THEN known[key].text ELSE file.text

\* The result of a view that is not kept is another object in every build.
IsAnew(p) == p[1] = "view" /\ ~CachesViews(build.project, p[2])

SameRevision == Remembered.revision                               \* mutant
NewRevision == CHOOSE r \in 0..2 : r \notin {Remembered.revision, writer[Target]}

PlanTarget ==
    /\ build.pc = "plan"
    /\ LET groups == build.sets[Target]
           m == Remembered
           tables == [s \in Names |-> File(LookupInputs(groups[s]), Entries(groups[s]))]
           entries == [s \in Names |-> KeptText(m.values, s, tables[s])]
           good == {s \in Names : \/ SameObjects(m.values, s, tables[s].inputs)
                                  \/ Distinct(groups[s])}
           file == [p \in PathsOf(groups) |->
                       PlanFile(build.project, groups, m.derived, entries, p)]
           hash(p) == IF IsAnew(p) THEN file[p].text ELSE KeptText(m.files, p, file[p])
           changed == \/ DOMAIN m.files # PathsOf(groups)
                      \/ \E p \in PathsOf(groups) : IsAnew(p)
                      \/ \E p \in DOMAIN m.files : m.files[p].inputs # file[p].inputs
           revision == IF changed THEN NewRevision ELSE m.revision
           last == build.at = Len(TargetOrder)
       IN  /\ memory' = [memory EXCEPT !.targets[Target] =
                 [m EXCEPT !.files = [p \in PathsOf(groups) |-> File(file[p].inputs, hash(p))],
                           !.values = [s \in DOMAIN m.values \cup good |->
                               IF s \in good THEN File(tables[s].inputs, entries[s])
                               ELSE m.values[s]],
                           !.revision = revision]]
           /\ build' = [build EXCEPT
                 !.plans = Put(@, Target, [revision |-> revision,
                     files |-> [p \in PathsOf(groups) |->
                                   [hash |-> hash(p), text |-> file[p].text]]]),
                 !.at = IF last THEN 1 ELSE @ + 1,
                 !.pc = IF good # Names THEN "refused"
                        ELSE IF last THEN "publish" ELSE "link"]
    /\ UNCHANGED <<env, made, cached, writer, output, calm>>

-----------------------------------------------------------------------------
(* Publication and its failures.                                           *)

\* The writer leaves a revision it wrote, and files whose hash it recorded.
Publish ==
    /\ build.pc = "publish"
    /\ LET plan == build.plans[Target]
           last == build.at = Len(TargetOrder)
       IN  /\ output' = [output EXCEPT ![Target] =
                 IF writer[Target] = plan.revision THEN @
                 ELSE [p \in DOMAIN plan.files |->
                          IF p \in DOMAIN @ /\ @[p] = plan.files[p].hash THEN @[p]
                          ELSE plan.files[p].text]]
           /\ writer' = [writer EXCEPT ![Target] = plan.revision]
           /\ build' = IF last THEN NoBuild ELSE [build EXCEPT !.at = @ + 1]
           /\ calm' = IF last THEN build.project = project /\ build.text = text ELSE calm
    /\ UNCHANGED <<env, made, cached, memory>>

\* A loader, a transform, a hook, a plugin or the writer fails, the build
\* is a dry run or is interrupted, where it waits for something; or a stage
\* found a problem.
Fail ==
    /\ Running /\ build.pc # "link"
    /\ build' = NoBuild
    /\ calm' = FALSE
    /\ IF build.pc = "refused" \/ build.failed THEN UNCHANGED events ELSE Happens
    /\ UNCHANGED <<project, text, made, cached, memory, writer, output>>

\* Another session begins with nothing but the output.
Restart ==
    /\ ~Running
    /\ Happens
    /\ cached' = <<>>
    /\ memory' = NewMemory
    /\ writer' = [t \in Targets |-> None]
    /\ calm' = FALSE
    /\ UNCHANGED <<project, text, made, build, output>>

-----------------------------------------------------------------------------
Init ==
    /\ project \in Projects
    /\ text \in [Files -> Texts \cup {None}]
    /\ events = 0
    /\ made = [f \in Files |-> 0]
    /\ cached = <<>>
    /\ memory = NewMemory
    /\ build = NoBuild
    /\ writer = [t \in Targets |-> None]
    /\ output = [t \in Targets |-> <<>>]
    /\ calm = FALSE

Next ==
    \/ \E f \in Files : Edit(f) \/ TransformDocument(f) \/ TransformFails(f)
    \/ Reconfigure \/ Validate \/ Prepare \/ LinkTarget \/ PlanTarget
    \/ Publish \/ Fail \/ Restart

Spec == Init /\ [][Next]_vars
-----------------------------------------------------------------------------
\* Whatever is remembered, by whatever builds before: what a build writes
\* to the main output and to each scope is what a build from nothing would,
\* and content with a problem never gets that far (engine.service.ts:398,
\* "A rebuild redoes work only for the files that changed").
WritesWhatAFreshBuildWould == Fresh!Spec

\* A build that is refused has a problem in the content it read: nothing
\* remembered of documents that are gone or changed can refuse it.
RefusedForAReason ==
    build.pc = "refused" => \E t \in Targets : ~Fresh!Good(Taken, t)

\* While nothing changed since a build that succeeded, the files of every
\* target are what a build from nothing would write: a plan at the revision
\* that was written has the same text (codegen.ts:62-67).
OutputIsCurrent ==
    calm => \A t \in Targets :
                output[t] = Fresh!Output([project |-> project, text |-> text], t)

\* When nothing changed since a good build, the next one runs no transform
\* but those that ask for it, and what it plans for a target is what is there,
\* file by file.  When no view asks to be resolved again, the plan is at the
\* revision that was written, so nothing is even compared.
UnchangedIsNotRedone ==
    Running /\ calm =>
        /\ \A f \in build.pending : ~CachesTransforms(build.project, SourceOf[f])
        /\ \A t \in Targets \cap DOMAIN build.plans :
              /\ DOMAIN build.plans[t].files = DOMAIN output[t]
              /\ \A p \in DOMAIN output[t] : build.plans[t].files[p].hash = output[t][p]
              /\ (\A v \in Views : CachesViews(build.project, v))
                 => build.plans[t].revision = writer[t]
=============================================================================
