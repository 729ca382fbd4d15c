------------------------------ MODULE Release ------------------------------
(***************************************************************************)
(* The release script (scripts/release.ts): the packages of the monorepo   *)
(* carry one version and are published one by one, dependencies first.     *)
(*                                                                         *)
(* A command is a list of steps.  Any step can fail and the process can be *)
(* interrupted between two of them: the command is over, what it did stays *)
(* done, and the operator may run a command again.  Between commands the   *)
(* operator edits the working tree.  npm may take a version and lose the   *)
(* answer, and show a version some time after it took it.                  *)
(***************************************************************************)
EXTENDS Integers, Sequences

CONSTANTS
    Order,       \* PUBLISH_ORDER, a sequence of packages
    Cli,         \* the package with a command line
    Deps,        \* the publishable packages each package depends on
    Versions,
    Faults,      \* what can be wrong with a tree, by the step that finds it
    MaxFailures, \* bound
    Nothing

Packages == {Order[i] : i \in DOMAIN Order}
\* "shebang": the command line is built for Bun, which the script repairs.
Contents == {"good", "shebang"} \cup Faults

Steps == {"set", "install", "load", "lock", "quality", "build", "gate", "publish"}

\* A command that runs: the steps left, the package the first of them is at, the
\* version `version' sets, and the versions that were loaded.
Run == [todo : Seq(Steps) \ {<<>>}, at : DOMAIN Order,
        target : Versions \cup {Nothing},
        loaded : [Packages -> Versions \cup {Nothing}]]

\* What npm keeps of a version.
Published == [content : Contents, pin : Versions]

ASSUME Shape == /\ Order \in Seq(Packages)
                /\ Cli \in Packages
                /\ Deps \in [Packages -> SUBSET Packages]
                /\ Faults \subseteq {"tests", "source", "dist", "packed"}
                /\ MaxFailures \in Nat
                /\ Nothing \notin Run /\ Nothing \notin Published

\* "Publish order: dependents after dependencies" (release.ts:43).
ASSUME DependenciesFirst ==
    \A i \in DOMAIN Order : Deps[Order[i]] \subseteq {Order[j] : j \in 1..(i - 1)}

VARIABLES
    version,   \* of each package.json
    lockfile,  \* of each workspace entry in bun.lock
    source,    \* what the working tree is like
    dist,      \* what each package was built from
    npm,       \* what npm has of each version of each package
    visible,   \* the versions `npm view` finds
    run,       \* the command that runs
    failures   \* how many commands were interrupted

tree == <<version, lockfile, source, dist>>
releaseVars == <<tree, npm, visible, run, failures>>

Plan == [sync_check |-> <<"load", "lock">>,
         verify  |-> <<"load", "lock", "build", "load", "gate">>,
         prepare |-> <<"load", "lock", "quality", "build", "load", "gate">>,
         publish |-> <<"load", "lock", "quality", "build", "load", "gate",
                       "publish">>]

-----------------------------------------------------------------------------
(* Where a command is.                                                     *)

At(step) == run # Nothing /\ run.todo # <<>> /\ Head(run.todo) = step
Current == Order[run.at]

NextStep == IF Tail(run.todo) = <<>> THEN Nothing
            ELSE [run EXCEPT !.todo = Tail(@), !.at = 1]
NextPackage == IF run.at = Len(Order) THEN NextStep
               ELSE [run EXCEPT !.at = @ + 1]

\* assertSyncedVersions.
Synced(v) == \A p, q \in Packages : v[p] = v[q]

Start(command) ==
    /\ run = Nothing
    /\ run' = [todo |-> Plan[command], at |-> 1, target |-> Nothing,
               loaded |-> [p \in Packages |-> Nothing]]
    /\ UNCHANGED <<tree, npm, visible, failures>>

StartVersion(v) ==
    /\ run = Nothing
    /\ run' = [todo |-> <<"set", "install">>, at |-> 1, target |-> v,
               loaded |-> [p \in Packages |-> Nothing]]
    /\ UNCHANGED <<tree, npm, visible, failures>>

\* The command is interrupted, or a step fails that could have succeeded.
Interrupt ==
    /\ run # Nothing
    /\ failures < MaxFailures
    /\ failures' = failures + 1
    /\ run' = Nothing
    /\ UNCHANGED <<tree, npm, visible>>

-----------------------------------------------------------------------------
(* The steps.                                                              *)

SetVersion ==
    /\ At("set")
    /\ version' = [version EXCEPT ![Current] = run.target]
    /\ run' = NextPackage
    /\ UNCHANGED <<lockfile, source, dist, npm, visible, failures>>

Install ==
    /\ At("install")
    /\ lockfile' = version
    /\ run' = NextStep
    /\ UNCHANGED <<version, source, dist, npm, visible, failures>>

Load ==
    /\ At("load")
    /\ Synced(version)
    /\ run' = IF NextStep = Nothing THEN Nothing
              ELSE [NextStep EXCEPT !.loaded = version]
    /\ UNCHANGED <<tree, npm, visible, failures>>

CheckLock ==
    /\ At("lock")
    /\ \A p \in Packages : lockfile[p] = run.loaded[Order[1]]
    /\ run' = NextStep
    /\ UNCHANGED <<tree, npm, visible, failures>>

QualityGates ==
    /\ At("quality")
    /\ source # "tests"
    /\ run' = NextStep
    /\ UNCHANGED <<tree, npm, visible, failures>>

BuildPackage ==
    /\ At("build")
    /\ dist' = [dist EXCEPT ![Current] =
                   IF source = "shebang" /\ Current # Cli THEN "good" ELSE source]
    /\ run' = NextPackage
    /\ UNCHANGED <<version, lockfile, source, npm, visible, failures>>

\* ensureCliNodeShebang.
WithNode(p) == IF p = Cli /\ dist[p] = "shebang" THEN "good" ELSE dist[p]

SourceOk(p) == source # "source"
DistUnchecked(p) == dist[p] # Nothing                             \* mutant
DistOk(p) == dist[p] \notin {Nothing, "dist"}
\* The tarball is packed from a staged copy, its pins from the overlay.
PackedOk(p) == dist[p] # "packed"

Gate ==
    /\ At("gate")
    /\ SourceOk(Current) /\ DistOk(Current) /\ PackedOk(Current)
    /\ dist' = [dist EXCEPT ![Current] = WithNode(Current)]
    /\ run' = NextPackage
    /\ UNCHANGED <<version, lockfile, source, npm, visible, failures>>

DependentsFirst == Order[Len(Order) + 1 - run.at]                 \* mutant
NextToPublish == Current

\* What is published: a staged copy whose package.json pins the publishable
\* dependencies to the version of the package.
Staged(p) == [content |-> WithNode(p), pin |-> run.loaded[p]]

NeverThere(p, v) == FALSE                                         \* mutant
IsPublished(p, v) == <<p, v>> \in visible

SkipPublished ==
    /\ At("publish")
    /\ IsPublished(NextToPublish, run.loaded[NextToPublish])
    /\ run' = NextPackage
    /\ UNCHANGED <<tree, npm, visible, failures>>

\* npm refuses a version it has: the command fails.
Publish(answered) ==
    LET p == NextToPublish
        v == run.loaded[p]
    IN  /\ At("publish")
        /\ ~IsPublished(p, v)
        /\ npm[p][v] = Nothing
        /\ dist[p] # Nothing
        /\ npm' = [npm EXCEPT ![p][v] = Staged(p)]
        /\ dist' = [dist EXCEPT ![p] = WithNode(p)]
        /\ answered \/ failures < MaxFailures
        /\ run' = IF answered THEN NextPackage ELSE Nothing
        /\ failures' = IF answered THEN failures ELSE failures + 1
        /\ UNCHANGED <<version, lockfile, source, visible>>

-----------------------------------------------------------------------------
(* npm and the operator.                                                   *)

Appear(p, v) ==
    /\ npm[p][v] # Nothing
    /\ <<p, v>> \notin visible
    /\ visible' = visible \cup {<<p, v>>}
    /\ UNCHANGED <<tree, npm, run, failures>>

\* The operator touches the tree between commands only.
EditSource ==
    /\ run = Nothing
    /\ source' \in Contents \ {source}
    /\ UNCHANGED <<version, lockfile, dist, npm, visible, run, failures>>

ReleaseInit ==
    /\ \E v \in Versions : /\ version = [p \in Packages |-> v]
                           /\ lockfile = version
    /\ source = "good"
    /\ dist = [p \in Packages |-> Nothing]
    /\ npm = [p \in Packages |-> [v \in Versions |-> Nothing]]
    /\ visible = {}
    /\ run = Nothing
    /\ failures = 0

Succeeds ==
    \/ SetVersion \/ Install \/ Load \/ CheckLock \/ QualityGates
    \/ BuildPackage \/ Gate \/ SkipPublished \/ Publish(TRUE)

\* A check of the step refuses, or npm has a version it does not show yet.
Throw ==
    /\ run # Nothing
    /\ ~ENABLED Succeeds
    /\ run' = Nothing
    /\ UNCHANGED <<tree, npm, visible, failures>>

Operator ==
    \/ \E command \in DOMAIN Plan : Start(command)
    \/ \E v \in Versions : StartVersion(v)
    \/ EditSource

ReleaseNext ==
    \/ Succeeds \/ Publish(FALSE) \/ Throw \/ Interrupt \/ Operator
    \/ \E p \in Packages, v \in Versions : Appear(p, v)

\* The operator does not give up, a step ends, npm shows what it took.
ReleaseFairness ==
    /\ SF_releaseVars(Start("publish"))
    /\ WF_releaseVars(Succeeds \/ Throw)
    /\ \A p \in Packages, v \in Versions : WF_releaseVars(Appear(p, v))

ReleaseSpec == ReleaseInit /\ [][ReleaseNext]_releaseVars
FairRelease == ReleaseSpec /\ ReleaseFairness

-----------------------------------------------------------------------------
ReleaseTypeOK ==
    /\ version \in [Packages -> Versions]
    /\ lockfile \in [Packages -> Versions]
    /\ source \in Contents
    /\ dist \in [Packages -> Contents \cup {Nothing}]
    /\ npm \in [Packages -> [Versions -> Published \cup {Nothing}]]
    /\ visible \subseteq Packages \X Versions
    /\ run = Nothing \/ run \in Run
    /\ failures \in 0..MaxFailures

\* Whatever fails and wherever a release stops: what is on npm can be
\* installed, the versions it pins are there (release.ts:43, "Publish order:
\* dependents after dependencies").
PinsAreOnNpm ==
    \A p \in Packages, v \in Versions :
        npm[p][v] # Nothing =>
            \A d \in Deps[p] : npm[d][npm[p][v].pin] # Nothing

\* Nothing is published that a gate would refuse, or a command line that
\* Node cannot run, also by a run that resumes another after an edit
\* (release.ts:20-22, "so an invalid package cannot be published").
InvalidIsNotPublished ==
    \A p \in Packages, v \in Versions :
        npm[p][v] # Nothing => npm[p][v].content = "good"

\* A release that failed can be resumed: once the tree is right and stays
\* so, publishing again gets every package of the version on npm
\* (release.ts:16, "so a failed run can be resumed").
Right(v) == /\ source \in {"good", "shebang"}
            /\ \A p \in Packages : version[p] = v /\ lockfile[p] = v
ReleaseCompletes ==
    \A v \in Versions :
        <>[]Right(v) => <>(\A p \in Packages : npm[p][v] # Nothing)
=============================================================================
