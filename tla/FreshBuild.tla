----------------------------- MODULE FreshBuild -----------------------------
(***************************************************************************)
(* What a session of builds promises, as if nothing were remembered: every *)
(* build reads the content as it is when it begins, and writes to each     *)
(* target exactly what the stages make of it; content with a problem, and  *)
(* a build that fails or is interrupted before it writes, leaves every     *)
(* output as it was.  IncrementalBuild implements it.                      *)
(***************************************************************************)
EXTENDS Stages

CONSTANTS Texts, Projects

VARIABLES
    project,   \* the config
    text,      \* the content files: what they hold, or None
    taken,     \* what the running build read, or None
    output     \* the files of every target

vars == <<project, text, taken, output>>

-----------------------------------------------------------------------------
(* The output of a target, from nothing.                                   *)

Valid(b) == GroupBySource([f \in {f \in Files : b.text[f] # None} |->
                              NewDocument(f, b.text[f], 0)])

\* A group after its transforms, without what they leave out.
Transform(c, groups) ==
    [s \in Names |->
        IF ~HasTransform(c, s) THEN groups[s]
        ELSE [f \in {f \in DOMAIN groups[s] : TransformOf(c, groups[s][f], groups) # None} |->
                 [groups[s][f] EXCEPT !.data = TransformOf(c, groups[s][f], groups)]]]

Prepare(c, groups) ==
    [s \in Names |->
        [f \in {f \in DOMAIN groups[s] : PreparedData(c, groups[s][f], groups) # None} |->
            [groups[s][f] EXCEPT !.data = PreparedData(c, groups[s][f], groups)]]]

Left(b) == Prepare(b.project, Transform(b.project, Valid(b)))

\* Every source, a target before its referrers.
LinkSource(done, s) ==
    [groups |-> [done.groups EXCEPT ![s] = Linked(s, done.groups)],
     good |-> done.good /\ Resolves(s, done.groups)]
Link(groups) ==
    LET done[i \in 0..Len(EmbedOrder)] ==
            IF i = 0 THEN [groups |-> groups, good |-> TRUE]
            ELSE LinkSource(done[i - 1], EmbedOrder[i])
    IN  done[Len(EmbedOrder)]

Good(b, t) ==
    LET linked == Link(ScopeSources(b.project, t, Left(b)))
    IN  /\ ScopeGood(b.project, t, Left(b))
        /\ linked.good
        /\ NoConflict(linked.groups)
        /\ \A v \in Views : ViewGood(RowsOf(b.project, v, linked.groups))
        /\ \A s \in Names : Distinct(linked.groups[s])

Output(b, t) ==
    LET groups == Link(ScopeSources(b.project, t, Left(b))).groups
        derived == [v \in Views |-> [rows |-> RowsOf(b.project, v, groups)]]
        entries == [s \in Names |-> Entries(groups[s])]
    IN  [p \in PathsOf(groups) |->
            PlanFile(b.project, groups, derived, entries, p).text]

-----------------------------------------------------------------------------
Init ==
    /\ project \in Projects
    /\ text \in [Files -> Texts \cup {None}]
    /\ taken = None
    /\ output = [t \in Targets |-> <<>>]

Edit == /\ \/ \E f \in Files, x \in Texts \cup {None} : text' = [text EXCEPT ![f] = x]
           \/ UNCHANGED text
        /\ project' \in Projects
        /\ UNCHANGED <<taken, output>>

Begin == /\ taken = None
         /\ taken' = [project |-> project, text |-> text]
         /\ UNCHANGED <<project, text, output>>

\* Written in full or not at all: OutputWriter says what a crash leaves.
Publish(t) == /\ taken # None
              /\ \A u \in Targets : Good(taken, u)
              /\ output' = [output EXCEPT ![t] = Output(taken, t)]
              /\ taken' \in {taken, None}
              /\ UNCHANGED <<project, text>>

End == /\ taken # None
       /\ taken' = None
       /\ UNCHANGED <<project, text, output>>

Next == Edit \/ Begin \/ End \/ \E t \in Targets : Publish(t)

Spec == Init /\ [][Next]_vars
=============================================================================
