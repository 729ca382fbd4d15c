---------------------------- MODULE ConfigLoader ----------------------------
(* The loader of the config, packages/core/src/engine/config-loader.service.ts: *)
(* what a session remembers of the modules a config is made from, and when a    *)
(* project is loaded again.  `load' and `inspect' collect the sources with the  *)
(* same memory and can overlap; the user edits the modules at any time.         *)
(*                                                                              *)
(* A text is [imports, good, value]: where it imports from, whether it can be   *)
(* run, and what it adds to the config.  Every edit gives a file a new text.    *)
EXTENDS Resolve

CONSTANTS
    Files,             \* modules, entry files of installed packages, the lockfile
    Config, Lock,      \* the config file and the lockfile
    Installed,         \* entry files of installed packages
    Texts,             \* [Files -> sequence of the texts a file gets, None: deleted]
    Candidates(_, _),  \* files an import is looked for at, with this lockfile
    ConfigOf(_),       \* the config that the texts of the modules make
    MaxModules,        \* MAX_CONFIG_MODULES
    Appearing,         \* files a user may create that were not there
    MaxEdits, MaxInspects

VARIABLES
    disk,         \* [Files -> text or None]
    version,      \* [Files -> Nat], how often a file was edited
    records,      \* the modules a session remembers
    resolvedWith, \* the lockfile they were resolved with
    jobs,         \* [Actors -> what `load' or `inspect' is doing, or None]
    loaded,       \* the last project that was loaded, or None
    failed,       \* the last load failed
    inspects,
    edited        \* since the load began

loading == <<records, resolvedWith, jobs, loaded, failed, inspects>>
sources == <<disk, version, edited>>

Actors == {"load", "inspect"}

ASSUME ConfigFiles ==
    /\ {Config, Lock} \cup Installed \cup Appearing \subseteq Files
    /\ MaxModules \in Nat \ {0} /\ MaxEdits \in Nat /\ MaxInspects \in Nat

-----------------------------------------------------------------------------
(* Where imports lead (readImports).                                       *)

LeadsTo(spec, texts) ==
    LET there == SelectSeq(Candidates(spec, texts[Lock]), LAMBDA f : texts[f] # None)
    IN  IF there = <<>> THEN None ELSE Head(there)
\* Imports that lead nowhere are left out.
Imported(text, texts) ==
    SelectSeq([i \in DOMAIN text.imports |-> LeadsTo(text.imports[i], texts)],
              LAMBDA f : f # None)

ReadRecord(file, follow) ==
    LET text == disk[file]
        imported == IF follow /\ text # None THEN Imported(text, disk) ELSE <<>>
    IN  [follow |-> follow, text |-> text,
         local |-> SelectSeq(imported, LAMBDA f : f \notin Installed),
         installed |-> SelectSeq(imported, LAMBDA f : f \in Installed)]

\* The record of a text that was settled when it was read, and the same since,
\* is taken as it is; of one that was not, it is read again.
RecordOf(file, follow) ==
    IF file \in DOMAIN records /\ records[file].text = disk[file]
       /\ disk[file] # None /\ records[file].follow = follow
    THEN {records[file], ReadRecord(file, follow)}
    ELSE {ReadRecord(file, follow)}

-----------------------------------------------------------------------------
(* collectSources.                                                         *)

Lockfile == disk[Lock]
NewJob(lock) ==
    [pc |-> "collect", seen |-> <<>>, installed |-> <<>>, queue |-> <<Config>>,
     lock |-> lock, complete |-> TRUE, fingerprint |-> None, project |-> None]

KeepRecords(lock) == records                                      \* mutant
\* Another lockfile can change where an import leads.
RecordsFor(lock) == IF resolvedWith = lock THEN records ELSE <<>>

Begin(a) ==
    /\ jobs[a] = None
    /\ IF disk[Config] = None
       THEN /\ failed' = (failed \/ a = "load")
            /\ UNCHANGED <<records, resolvedWith, jobs>>
       ELSE /\ jobs' = [jobs EXCEPT ![a] = NewJob(Lockfile)]
            /\ records' = RecordsFor(Lockfile)
            /\ resolvedWith' = Lockfile
            /\ UNCHANGED failed
    /\ UNCHANGED loaded

BeginLoad ==
    /\ Begin("load")
    /\ edited' = FALSE
    /\ UNCHANGED <<disk, version, inspects>>

BeginInspect ==
    /\ inspects < MaxInspects
    /\ inspects' = inspects + 1
    /\ Begin("inspect")
    /\ UNCHANGED sources

\* The next module in the queue, and the installed packages it imports.
ReadModule(a) ==
    LET j == jobs[a]
        file == Head(j.queue)
    IN  /\ j # None /\ j.pc = "collect" /\ j.queue # <<>>
        /\ IF file \in DOMAIN j.seen
           THEN /\ jobs' = [jobs EXCEPT ![a].queue = Tail(@)]
                /\ UNCHANGED records
           ELSE IF Cardinality(DOMAIN j.seen) >= MaxModules
           THEN /\ jobs' = [jobs EXCEPT ![a].queue = <<>>, ![a].complete = FALSE]
                /\ UNCHANGED records
           ELSE \E record \in RecordOf(file, TRUE) :
                  LET packages == {f \in Elements(record.installed) :
                                       f \notin DOMAIN j.installed}
                  IN  \E entry \in [packages -> UNION {RecordOf(f, FALSE) : f \in packages}] :
                        /\ \A f \in packages : entry[f] \in RecordOf(f, FALSE)
                        /\ records' = (file :> record) @@ entry @@ records
                        /\ jobs' = [jobs EXCEPT
                              ![a].queue = Tail(@) \o record.local,
                              ![a].seen = (file :> record.text) @@ @,
                              ![a].installed = [f \in packages |-> entry[f].text] @@ @]
        /\ UNCHANGED <<resolvedWith, loaded, failed, inspects, sources>>

Fingerprint(j) == [seen |-> j.seen, installed |-> j.installed, lock |-> j.lock]

\* Modules that are no longer reached are forgotten.  A project of the same
\* sources is not loaded again.
Collected(a) ==
    LET j == jobs[a]
        fingerprint == Fingerprint(j)
    IN  /\ j # None /\ j.pc = "collect" /\ j.queue = <<>>
        /\ records' = Restrict(records, DOMAIN records
                                        \cap (DOMAIN j.seen \cup DOMAIN j.installed))
        /\ IF a = "inspect" \/ (loaded # None /\ loaded.fingerprint = fingerprint)
           THEN /\ jobs' = [jobs EXCEPT ![a] = None]
                /\ failed' = (failed /\ a = "inspect")
           ELSE /\ jobs' = [jobs EXCEPT ![a].pc = "import",
                                        ![a].fingerprint = fingerprint]
                /\ UNCHANGED failed
        /\ UNCHANGED <<resolvedWith, loaded, inspects, sources>>

-----------------------------------------------------------------------------
(* importConfig, resolveProject and runSetup.                              *)

\* The modules the config is run from.
Modules ==
    LET from[steps \in 0..Cardinality(Files)] ==
            IF steps = 0 THEN {Config}
            ELSE from[steps - 1] \cup
                 UNION {Elements(Imported(disk[f], disk)) : f \in from[steps - 1]}
    IN  from[Cardinality(Files)]
\* A module that is not there, or cannot be run, fails the import.
Runs(file) ==
    /\ disk[file] # None /\ disk[file].good
    /\ \A i \in DOMAIN disk[file].imports : LeadsTo(disk[file].imports[i], disk) # None

ImportConfig ==
    LET j == jobs["load"]
        runs == disk[Config] # None /\ \A f \in Modules : Runs(f)
        written == ConfigOf([f \in Modules |-> disk[f]])
    IN  /\ j # None /\ j.pc = "import"
        /\ IF runs /\ Accepted(written)
           THEN /\ jobs' = [jobs EXCEPT !["load"].pc = "setup",
                    !["load"].project = [resolved |-> ResolveProject(written),
                                         texts |-> [f \in Modules |-> disk[f]]]]
                /\ UNCHANGED failed
           ELSE /\ jobs' = [jobs EXCEPT !["load"] = None]
                /\ failed' = TRUE
        /\ UNCHANGED <<records, resolvedWith, loaded, inspects, sources>>

\* A plugin can refuse the project: for its options, or, when it handles assets,
\* for a folder that is not apart from the others.
SetupOk(project, p) ==
    /\ p.setup
    /\ p.assets # None =>
           LET dir == Absolute(p.assets.dir)
           IN  /\ ~IsInside(ProjectDir, dir)
               /\ ~Overlaps(dir, OutputDir(project.config))
               /\ \A s \in Elements(project.sources) : ~Overlaps(dir, s.root)

RunSetup ==
    LET j == jobs["load"]
    IN  /\ j # None /\ j.pc = "setup"
        /\ jobs' = [jobs EXCEPT !["load"] = None]
        /\ IF \A p \in Elements(j.project.resolved.config.plugins) : SetupOk(j.project.resolved, p)
           THEN /\ loaded' = [fingerprint |-> j.fingerprint,
                              files |-> DOMAIN j.seen \cup {Lock},
                              complete |-> j.complete, project |-> j.project.resolved,
                              texts |-> j.project.texts]
                /\ failed' = FALSE
           ELSE failed' = TRUE /\ UNCHANGED loaded
        /\ UNCHANGED <<records, resolvedWith, inspects, sources>>

-----------------------------------------------------------------------------
(* The user edits the modules.                                             *)

EditModule(f) ==
    /\ FoldFunction(+, 0, version) < MaxEdits
    /\ version[f] < Len(Texts[f])
    /\ Texts[f][version[f] + 1] # disk[f]
    /\ disk[f] = None => f \in Appearing
    /\ disk' = [disk EXCEPT ![f] = Texts[f][version[f] + 1]]
    /\ version' = [version EXCEPT ![f] = @ + 1]
    /\ edited' = TRUE
    /\ UNCHANGED loading

LoaderInit ==
    /\ version = [f \in Files |-> 0]
    /\ records = <<>> /\ resolvedWith = None
    /\ jobs = [a \in Actors |-> None]
    /\ loaded = None /\ failed = FALSE
    /\ inspects = 0 /\ edited = FALSE

LoadNext ==
    \/ BeginInspect
    \/ \E a \in Actors : ReadModule(a) \/ Collected(a)
    \/ ImportConfig \/ RunSetup

-----------------------------------------------------------------------------
(* A load ends with a project, and no file of the config changed since it     *)
(* began: the project is the one the files make.  What a session remembers    *)
(* of the modules, another lockfile, or an inspection in between does not     *)
(* make it keep an old one.                                                   *)
LoadedIsCurrent ==
    jobs["load"] = None /\ ~edited /\ ~failed /\ loaded # None /\ loaded.complete
    => loaded.texts = [f \in Modules |-> disk[f]]

(* "Config file plus every local module it imports"                          *)
(* (config-loader.service.ts:88), which a watch session looks at: what the    *)
(* config was made from, but for installed packages.                          *)
FilesAreKnown ==
    loaded # None /\ loaded.complete /\ ~edited /\ ~failed /\ jobs["load"] = None
    => DOMAIN loaded.texts \ Installed \subseteq loaded.files
=============================================================================
