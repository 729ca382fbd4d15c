----------------------- MODULE IncrementalBuildProofs -----------------------
(***************************************************************************)
(* A session of builds that remember what earlier builds made implements   *)
(* builds that remember nothing, for every project, content and set of     *)
(* targets, and whatever is edited, fails or is restarted in between.      *)
(***************************************************************************)
EXTENDS IncrementalBuild, FiniteSetTheorems, FunctionTheorems, TLAPS

-----------------------------------------------------------------------------
(* Induction, for a set of numbers.                                        *)

\* A set that has 0 and, up to n, the successor of every number it has holds
\* all numbers up to n: else adding one would map what it has below a number
\* it lacks into less.
LEMMA UpTo ==
    ASSUME NEW n \in Nat, NEW S, 0 \in S,
           \A i \in 0..(n - 1) : i \in S => i + 1 \in S
    PROVE  \A i \in 0..n : i \in S
  <1> SUFFICES ASSUME NEW m \in 0..n, m \notin S PROVE FALSE
    OBVIOUS
  <1> DEFINE T == {i \in 0..m : i \in S}
             U == T \ {0}
             f == [i \in T |-> i + 1]
  <1>1. IsFiniteSet(T) /\ Cardinality(T) \in Nat
    <2>1. IsFiniteSet(0..m)
      BY FS_Interval
    <2>2. T \in SUBSET (0..m)
      OBVIOUS
    <2>3. QED
      BY <2>1, <2>2, FS_Subset, FS_CardinalityType
  <1>2. IsFiniteSet(U) /\ Cardinality(U) = Cardinality(T) - 1
    <2>1. 0 \in T
      OBVIOUS
    <2> HIDE DEF T
    <2>2. QED
      BY <1>1, <2>1, FS_RemoveElement
  <1>3. f \in [T -> U]
    OBVIOUS
  <1>4. \A i, j \in T : f[i] = f[j] => i = j
    OBVIOUS
  <1> HIDE DEF T, U, f
  <1>5. QED
    BY <1>1, <1>2, <1>3, <1>4, FS_PigeonHole

LEMMA EmbedLength == Len(EmbedOrder) \in Nat
  BY Shape

\* The documents of all sources after the first n sources were linked.
FreshLinks(groups, n, h) ==
    h = [i \in 0..n |-> IF i = 0 THEN [groups |-> groups, good |-> TRUE]
                        ELSE Fresh!LinkSource(h[i - 1], EmbedOrder[i])]
LinkedSoFar(groups, n, h) ==
    h = [i \in 0..n |->
            IF i = 0 THEN [groups |-> groups, good |-> TRUE, known |-> Remembered.groups]
            ELSE LinkSource(h[i - 1], EmbedOrder[i])]

LEMMA FreshLinksExist ==
    ASSUME NEW groups
    PROVE  \E h : /\ FreshLinks(groups, Len(EmbedOrder), h)
                  /\ Fresh!Link(groups) = h[Len(EmbedOrder)]
  <1> DEFINE N == Len(EmbedOrder)
             S == {n \in 0..N : \E h : FreshLinks(groups, n, h)}
  <1>1. 0 \in S
    <2>1. FreshLinks(groups, 0, [i \in 0..0 |-> [groups |-> groups, good |-> TRUE]])
      BY DEF FreshLinks
    <2>2. QED
      BY <2>1, EmbedLength
  <1>2. ASSUME NEW n \in 0..(N - 1), n \in S PROVE n + 1 \in S
    <2>1. PICK g : FreshLinks(groups, n, g)
      BY <1>2
    <2> DEFINE h == [i \in 0..(n + 1) |->
                        IF i \in 0..n THEN g[i] ELSE Fresh!LinkSource(g[n], EmbedOrder[i])]
    <2>2. FreshLinks(groups, n + 1, h)
      <3> DEFINE value(i) == IF i = 0 THEN [groups |-> groups, good |-> TRUE]
                             ELSE Fresh!LinkSource(h[i - 1], EmbedOrder[i])
      <3>1. n \in Nat
        BY EmbedLength
      <3>2. ASSUME NEW i \in 0..(n + 1) PROVE h[i] = value(i)
        <4>1. CASE i = n + 1
          <5>1. h[n] = g[n] /\ h[n + 1] = Fresh!LinkSource(g[n], EmbedOrder[n + 1])
            BY <3>1
          <5>2. n + 1 # 0 /\ n + 1 - 1 = n
            BY <3>1
          <5> HIDE DEF h
          <5>3. QED
            BY <4>1, <5>1, <5>2
        <4>2. CASE i = 0
          BY <2>1, <3>1, <4>2 DEF FreshLinks
        <4>3. CASE i \in 1..n
          <5>1. h[i] = g[i] /\ h[i - 1] = g[i - 1] /\ i # 0
            BY <3>1, <4>3
          <5>2. g[i] = Fresh!LinkSource(g[i - 1], EmbedOrder[i])
            <6>1. i \in 0..n /\ i # 0
              BY <3>1, <4>3
            <6>2. g = [j \in 0..n |-> IF j = 0 THEN [groups |-> groups, good |-> TRUE]
                                      ELSE Fresh!LinkSource(g[j - 1], EmbedOrder[j])]
              BY <2>1 DEF FreshLinks
            <6>3. QED
              BY <6>1, <6>2, Zenon
          <5> HIDE DEF h
          <5>3. QED
            BY <5>1, <5>2
        <4>4. QED
          BY <3>1, <4>1, <4>2, <4>3
      <3>3. h = [i \in 0..(n + 1) |-> h[i]]
        BY <3>1
      <3> HIDE DEF h
      <3>4. h = [i \in 0..(n + 1) |-> value(i)]
        BY <3>2, <3>3
      <3>5. QED
        BY <3>4 DEF FreshLinks
    <2>3. QED
      BY <2>2, EmbedLength
  <1>3. N \in S
    <2> HIDE DEF S
    <2>1. N \in Nat /\ N \in 0..N
      BY EmbedLength
    <2>2. \A i \in 0..(N - 1) : i \in S => i + 1 \in S
      BY <1>2
    <2> HIDE DEF N
    <2>3. QED
      BY <1>1, <2>1, <2>2, UpTo
  <1>4. \E h : h = [i \in 0..N |-> IF i = 0 THEN [groups |-> groups, good |-> TRUE]
                                   ELSE Fresh!LinkSource(h[i - 1], EmbedOrder[i])]
    BY <1>3 DEF FreshLinks
  <1>5. QED
    BY <1>4, Zenon DEF Fresh!Link, FreshLinks

LEMMA LinksExist ==
    ASSUME NEW groups
    PROVE  \E h : /\ LinkedSoFar(groups, Len(EmbedOrder), h)
                  /\ LinkAll(groups) = h[Len(EmbedOrder)]
  <1> DEFINE N == Len(EmbedOrder)
             first == [groups |-> groups, good |-> TRUE, known |-> Remembered.groups]
             S == {n \in 0..N : \E h : LinkedSoFar(groups, n, h)}
  <1>1. 0 \in S
    <2>1. LinkedSoFar(groups, 0, [i \in 0..0 |-> first])
      BY DEF LinkedSoFar
    <2>2. QED
      BY <2>1, EmbedLength
  <1>2. ASSUME NEW n \in 0..(N - 1), n \in S PROVE n + 1 \in S
    <2>1. PICK g : LinkedSoFar(groups, n, g)
      BY <1>2
    <2> DEFINE h == [i \in 0..(n + 1) |->
                        IF i \in 0..n THEN g[i] ELSE LinkSource(g[n], EmbedOrder[i])]
    <2>2. LinkedSoFar(groups, n + 1, h)
      <3> DEFINE value(i) == IF i = 0 THEN first
                             ELSE LinkSource(h[i - 1], EmbedOrder[i])
      <3>1. n \in Nat
        BY EmbedLength
      <3>2. ASSUME NEW i \in 0..(n + 1) PROVE h[i] = value(i)
        <4>1. CASE i = n + 1
          <5>1. h[n] = g[n] /\ h[n + 1] = LinkSource(g[n], EmbedOrder[n + 1])
            BY <3>1
          <5>2. n + 1 # 0 /\ n + 1 - 1 = n
            BY <3>1
          <5> HIDE DEF h
          <5>3. QED
            BY <4>1, <5>1, <5>2
        <4>2. CASE i = 0
          BY <2>1, <3>1, <4>2 DEF LinkedSoFar
        <4>3. CASE i \in 1..n
          <5>1. h[i] = g[i] /\ h[i - 1] = g[i - 1] /\ i # 0
            BY <3>1, <4>3
          <5>2. g[i] = LinkSource(g[i - 1], EmbedOrder[i])
            <6>1. i \in 0..n /\ i # 0
              BY <3>1, <4>3
            <6>2. g = [j \in 0..n |-> IF j = 0 THEN [groups |-> groups, good |-> TRUE, known |-> Remembered.groups]
                                      ELSE LinkSource(g[j - 1], EmbedOrder[j])]
              BY <2>1 DEF LinkedSoFar
            <6>3. QED
              BY <6>1, <6>2, Zenon
          <5> HIDE DEF h
          <5>3. QED
            BY <5>1, <5>2
        <4>4. QED
          BY <3>1, <4>1, <4>2, <4>3
      <3>3. h = [i \in 0..(n + 1) |-> h[i]]
        BY <3>1
      <3> HIDE DEF h
      <3>4. h = [i \in 0..(n + 1) |-> value(i)]
        BY <3>2, <3>3
      <3>5. QED
        BY <3>4 DEF LinkedSoFar
    <2>3. QED
      BY <2>2, EmbedLength
  <1>3. N \in S
    <2> HIDE DEF S
    <2>1. N \in Nat /\ N \in 0..N
      BY EmbedLength
    <2>2. \A i \in 0..(N - 1) : i \in S => i + 1 \in S
      BY <1>2
    <2> HIDE DEF N
    <2>3. QED
      BY <1>1, <2>1, <2>2, UpTo
  <1>4. \E h : h = [i \in 0..N |-> IF i = 0 THEN first
                                   ELSE LinkSource(h[i - 1], EmbedOrder[i])]
    BY <1>3 DEF LinkedSoFar
  <1>5. QED
    BY <1>4, Zenon DEF LinkAll, LinkedSoFar

-----------------------------------------------------------------------------
(* Documents, and groups of them that show the same.                       *)

IsDocument(d) ==
    d = [file |-> d.file, data |-> d.data, valid |-> d.valid, n |-> d.n,
         with |-> d.with, target |-> d.target]
IsGroup(s, group) ==
    /\ group = [f \in DOMAIN group |-> group[f]]
    /\ DOMAIN group \subseteq {f \in Files : SourceOf[f] = s}
    /\ \A f \in DOMAIN group : IsDocument(group[f]) /\ group[f].file = f
AreGroups(groups) ==
    /\ groups = [s \in Names |-> groups[s]]
    /\ \A s \in Names : IsGroup(s, groups[s])

\* All that the stages see of a document: not which object it is.
Like(d, e) == /\ d.file = e.file /\ d.data = e.data
              /\ d.valid = e.valid /\ d.with = e.with
AlikeGroup(group, other) ==
    /\ DOMAIN group = DOMAIN other
    /\ \A f \in DOMAIN group : Like(group[f], other[f])
Alike(groups, others) == \A s \in Names : AlikeGroup(groups[s], others[s])

LEMMA AlikeShown ==
    ASSUME NEW group, NEW other, AlikeGroup(group, other)
    PROVE  AllShown(group) = AllShown(other)
  BY DEF AlikeGroup, Like, AllShown, Shown

\* What callbacks are given is the same for groups that are alike.
LEMMA AlikeSeen ==
    ASSUME NEW groups, NEW others, Alike(groups, others), NEW names
    PROVE  Seen(groups, names) = Seen(others, names)
  BY AlikeShown DEF Alike, Seen

\* What a transform and the hook make of alike documents among alike groups.
LEMMA AlikeData ==
    ASSUME NEW groups, NEW others, Alike(groups, others),
           NEW c, NEW d, NEW e, Like(d, e)
    PROVE  /\ TransformOf(c, d, groups) = TransformOf(c, e, others)
           /\ PreparedData(c, d, groups) = PreparedData(c, e, others)
  <1>1. d.data = e.data /\ d.file = e.file
    BY DEF Like
  <1>2. \A names : Seen(groups, names) = Seen(others, names)
    BY AlikeSeen
  <1>3. TransformOf(c, d, groups) = TransformOf(c, e, others)
    BY <1>1, <1>2 DEF TransformOf
  <1>4. PreparedData(c, d, groups) = PreparedData(c, e, others)
    BY <1>1, <1>2 DEF PreparedData
  <1>5. QED
    BY <1>3, <1>4

LEMMA OnlyFacts ==
    ASSUME NEW s, NEW group, IsGroup(s, group), NEW files
    PROVE  /\ IsGroup(s, Only(group, files))
           /\ DOMAIN Only(group, files) = DOMAIN group \cap files
           /\ \A f \in DOMAIN group \cap files : Only(group, files)[f] = group[f]
  BY DEF Only, IsGroup

LEMMA ScopesAreGroups ==
    ASSUME NEW groups, AreGroups(groups), NEW c, NEW t
    PROVE  AreGroups(ScopeSources(c, t, groups))
  BY OnlyFacts DEF ScopeSources, AreGroups

\* A scope keeps the same documents of groups that are alike.
LEMMA AlikeScopes ==
    ASSUME NEW groups, NEW others, AreGroups(groups), AreGroups(others),
           Alike(groups, others), NEW c, NEW t
    PROVE  /\ Alike(ScopeSources(c, t, groups), ScopeSources(c, t, others))
           /\ ScopeGood(c, t, groups) = ScopeGood(c, t, others)
  <1> DEFINE kept(g, s) == {f \in DOMAIN g[s] : Keeps(c, t, s, g[s][f].data, Seen(g, Names))}
  <1>1. ASSUME NEW s \in Names PROVE kept(groups, s) = kept(others, s)
    <2>1. Seen(groups, Names) = Seen(others, Names)
      BY AlikeSeen
    <2>2. DOMAIN groups[s] = DOMAIN others[s]
      BY DEF Alike, AlikeGroup
    <2>3. \A f \in DOMAIN groups[s] : groups[s][f].data = others[s][f].data
      BY DEF Alike, AlikeGroup, Like
    <2>4. QED
      BY <2>1, <2>2, <2>3
  <1>2. Alike(ScopeSources(c, t, groups), ScopeSources(c, t, others))
    <2>1. CASE t = Main
      BY <2>1 DEF ScopeSources
    <2>2. CASE t # Main
      <3> SUFFICES ASSUME NEW s \in Names
                   PROVE  AlikeGroup(ScopeSources(c, t, groups)[s], ScopeSources(c, t, others)[s])
        BY DEF Alike
      <3>1. /\ ScopeSources(c, t, groups)[s] = Only(groups[s], kept(groups, s))
            /\ ScopeSources(c, t, others)[s] = Only(others[s], kept(others, s))
        BY <2>2 DEF ScopeSources
      <3> HIDE DEF kept
      <3>2. IsGroup(s, groups[s]) /\ IsGroup(s, others[s]) /\ AlikeGroup(groups[s], others[s])
        BY DEF AreGroups, Alike
      <3>3. \A files : AlikeGroup(Only(groups[s], files), Only(others[s], files))
        BY <3>2 DEF AlikeGroup, Only
      <3>4. QED
        BY <1>1, <3>1, <3>3
    <2>3. QED
      BY <2>1, <2>2
  <1>3. \A s \in Names : /\ DOMAIN groups[s] = DOMAIN others[s]
                         /\ DOMAIN ScopeSources(c, t, groups)[s]
                              = DOMAIN ScopeSources(c, t, others)[s]
    BY <1>2 DEF Alike, AlikeGroup
  <1>4. ScopeGood(c, t, groups) = ScopeGood(c, t, others)
    BY <1>3, Shape DEF ScopeGood
  <1>5. QED
    BY <1>2, <1>4

-----------------------------------------------------------------------------
(* References and uniqueness.                                              *)

LEMMA TargetSource ==
    ASSUME NEW s \in Names, RefersTo[s] # None
    PROVE  RefersTo[s] \in Names
  BY Shape

LEMMA AlikeCandidates ==
    ASSUME NEW groups, NEW others, Alike(groups, others),
           NEW s \in Names, RefersTo[s] # None, NEW key
    PROVE  Candidates(s, key, groups) = Candidates(s, key, others)
  <1>1. AlikeGroup(groups[RefersTo[s]], others[RefersTo[s]])
    BY TargetSource DEF Alike
  <1>2. QED
    BY <1>1 DEF Candidates, AlikeGroup, Like

\* References resolve, or do not, in groups that are alike.
LEMMA AlikeResolves ==
    ASSUME NEW groups, NEW others, Alike(groups, others), NEW s \in Names
    PROVE  Resolves(s, groups) = Resolves(s, others)
  <1>1. CASE RefersTo[s] = None
    BY <1>1 DEF Resolves, References
  <1>2. CASE RefersTo[s] # None
    <2>1. \A key : Candidates(s, key, groups) = Candidates(s, key, others)
      BY <1>2, AlikeCandidates
    <2>2. AlikeGroup(groups[s], others[s])
      BY DEF Alike
    <2>3. \A f \in DOMAIN groups[s] : References(s, groups[s][f]) = References(s, others[s][f])
      BY <2>2 DEF AlikeGroup, Like, References
    <2>4. DOMAIN groups[s] = DOMAIN others[s]
      BY <2>2 DEF AlikeGroup
    <2>5. QED
      BY <2>1, <2>3, <2>4 DEF Resolves
  <1>3. QED
    BY <1>1, <1>2

LEMMA AlikeEmbedded ==
    ASSUME NEW groups, NEW others, Alike(groups, others),
           NEW s \in Names, RefersTo[s] # None,
           NEW d, NEW e, Like(d, e), IsDocument(d), IsDocument(e)
    PROVE  Like(Embedded(s, d, groups), Embedded(s, e, others))
  <1> DEFINE found == Candidates(s, Ref(s, d.data), groups)
             x == CHOOSE f \in found : TRUE
  <1>1. d.data = e.data
    BY DEF Like
  <1>2. Candidates(s, Ref(s, e.data), others) = found
    BY <1>1, AlikeCandidates
  <1>3. CASE Ref(s, d.data) = None \/ Cardinality(found) # 1
    BY <1>1, <1>2, <1>3 DEF Embedded
  <1>4. CASE ~(Ref(s, d.data) = None \/ Cardinality(found) # 1)
    <2>1. found # {}
      BY <1>4, FS_EmptySet
    <2>2. x \in found
      BY <2>1
    <2>3. x \in DOMAIN groups[RefersTo[s]]
      BY <2>2 DEF Candidates
    <2>4. Like(groups[RefersTo[s]][x], others[RefersTo[s]][x])
      BY <2>3, TargetSource DEF Alike, AlikeGroup
    <2>5. Shown(groups[RefersTo[s]][x]) = Shown(others[RefersTo[s]][x])
      BY <2>4 DEF Like, Shown
    <2>6. /\ Embedded(s, d, groups) = [d EXCEPT !.with = Shown(groups[RefersTo[s]][x]),
                                                !.target = groups[RefersTo[s]][x]]
          /\ Embedded(s, e, others) = [e EXCEPT !.with = Shown(others[RefersTo[s]][x]),
                                                !.target = others[RefersTo[s]][x]]
      <3> HIDE DEF found
      <3>1. QED
        BY <1>1, <1>2, <1>4 DEF Embedded, found
    <2> HIDE DEF x, found
    <2>7. QED
      BY <2>5, <2>6 DEF Like, IsDocument
  <1>5. QED
    BY <1>3, <1>4

LEMMA EmbeddedFacts ==
    ASSUME NEW groups, NEW s, NEW d, IsDocument(d)
    PROVE  /\ IsDocument(Embedded(s, d, groups))
           /\ Embedded(s, d, groups).file = d.file
  BY DEF IsDocument, Embedded

LEMMA LinkedFacts ==
    ASSUME NEW groups, AreGroups(groups), NEW s \in Names
    PROVE  IsGroup(s, Linked(s, groups))
  <1>1. IsGroup(s, groups[s])
    BY DEF AreGroups
  <1>2. CASE RefersTo[s] = None
    BY <1>1, <1>2 DEF Linked
  <1>3. CASE RefersTo[s] # None
    <2>1. \A f \in DOMAIN groups[s] :
             /\ IsDocument(Embedded(s, groups[s][f], groups))
             /\ Embedded(s, groups[s][f], groups).file = f
      BY <1>1, EmbeddedFacts DEF IsGroup
    <2>2. Linked(s, groups) = [f \in DOMAIN groups[s] |-> Embedded(s, groups[s][f], groups)]
      BY <1>3 DEF Linked
    <2>3. DOMAIN groups[s] \subseteq {f \in Files : SourceOf[f] = s}
      BY <1>1 DEF IsGroup
    <2>4. QED
      BY <2>1, <2>2, <2>3 DEF IsGroup
  <1>4. QED
    BY <1>2, <1>3

LEMMA AlikeLinked ==
    ASSUME NEW groups, NEW others, AreGroups(groups), AreGroups(others),
           Alike(groups, others), NEW s \in Names
    PROVE  AlikeGroup(Linked(s, groups), Linked(s, others))
  <1>1. AlikeGroup(groups[s], others[s]) /\ IsGroup(s, groups[s]) /\ IsGroup(s, others[s])
    BY DEF Alike, AreGroups
  <1>2. CASE RefersTo[s] = None
    BY <1>1, <1>2 DEF Linked
  <1>3. CASE RefersTo[s] # None
    <2>1. \A f \in DOMAIN groups[s] :
             Like(Embedded(s, groups[s][f], groups), Embedded(s, others[s][f], others))
      BY <1>1, <1>3, AlikeEmbedded DEF AlikeGroup, IsGroup
    <2>2. /\ Linked(s, groups) = [f \in DOMAIN groups[s] |-> Embedded(s, groups[s][f], groups)]
          /\ Linked(s, others) = [f \in DOMAIN others[s] |-> Embedded(s, others[s][f], others)]
      BY <1>3 DEF Linked
    <2>3. DOMAIN groups[s] = DOMAIN others[s]
      BY <1>1 DEF AlikeGroup
    <2>4. QED
      BY <2>1, <2>2, <2>3 DEF AlikeGroup
  <1>4. QED
    BY <1>2, <1>3

\* What linking a source depends on: its documents, and those of its target.
Pair(s, documents, targets) ==
    [x \in {s, RefersTo[s]} |-> IF x = s THEN documents ELSE targets]

LEMMA PairLinks ==
    ASSUME NEW groups, NEW s \in Names, RefersTo[s] # None
    PROVE  LET pair == Pair(s, groups[s], groups[RefersTo[s]])
           IN  /\ Linked(s, pair) = Linked(s, groups)
               /\ Resolves(s, pair) = Resolves(s, groups)
  <1> DEFINE pair == Pair(s, groups[s], groups[RefersTo[s]])
  <1>1. pair[s] = groups[s] /\ pair[RefersTo[s]] = groups[RefersTo[s]]
    BY DEF Pair
  <1> HIDE DEF pair
  <1>2. \A key : Candidates(s, key, pair) = Candidates(s, key, groups)
    BY <1>1 DEF Candidates
  <1>3. ASSUME NEW d PROVE Embedded(s, d, pair) = Embedded(s, d, groups)
    <2>1. Candidates(s, Ref(s, d.data), pair) = Candidates(s, Ref(s, d.data), groups)
      BY <1>2
    <2> DEFINE among(found, group) ==
                 IF Ref(s, d.data) = None \/ Cardinality(found) # 1 THEN d
                 ELSE [d EXCEPT !.with = Shown(group[CHOOSE f \in found : TRUE]),
                                !.target = group[CHOOSE f \in found : TRUE]]
    <2>2. \A g : Embedded(s, d, g) = among(Candidates(s, Ref(s, d.data), g), g[RefersTo[s]])
      BY DEF Embedded
    <2> HIDE DEF among
    <2>3. QED
      BY <1>1, <2>1, <2>2
  <1>4. Linked(s, pair) = Linked(s, groups)
    BY <1>1, <1>3 DEF Linked
  <1>5. Resolves(s, pair) = Resolves(s, groups)
    BY <1>1, <1>2 DEF Resolves
  <1>6. QED
    BY <1>4, <1>5 DEF pair

LEMMA AlikeConflicts ==
    ASSUME NEW groups, NEW others, Alike(groups, others)
    PROVE  NoConflict(groups) = NoConflict(others)
  <1>1. \A s \in Names : /\ DOMAIN groups[s] = DOMAIN others[s]
                         /\ \A f \in DOMAIN groups[s] : groups[s][f].data = others[s][f].data
    BY DEF Alike, AlikeGroup, Like
  <1>2. QED
    BY <1>1 DEF NoConflict

-----------------------------------------------------------------------------
(* Views.                                                                  *)

ViewFiles(v, groups) == UNION {DOMAIN groups[s] : s \in ViewFrom(v)}

LEMMA ViewDocuments ==
    ASSUME NEW groups, NEW v \in Views, \A s \in ViewFrom(v) : IsGroup(s, groups[s])
    PROVE  \A f \in ViewFiles(v, groups) :
              SourceOf[f] \in ViewFrom(v) /\ f \in DOMAIN groups[SourceOf[f]]
  BY DEF ViewFiles, IsGroup

\* A view shows the same of groups that are alike.
LEMMA AlikeRows ==
    ASSUME NEW groups, NEW others, AreGroups(groups), AreGroups(others),
           Alike(groups, others), NEW c, NEW v \in Views
    PROVE  RowsOf(c, v, groups) = RowsOf(c, v, others)
  <1> DEFINE row(g, f) == RowOf(c, v, g[SourceOf[f]][f], g)
  <1>1. ViewFrom(v) \subseteq Names
    BY Shape
  <1>2. ViewFiles(v, groups) = ViewFiles(v, others)
    BY <1>1 DEF ViewFiles, Alike, AlikeGroup
  <1>3. \A f \in ViewFiles(v, groups) :
           Like(groups[SourceOf[f]][f], others[SourceOf[f]][f])
    <2>1. \A s \in ViewFrom(v) : IsGroup(s, groups[s])
      BY <1>1 DEF AreGroups
    <2>2. QED
      BY <1>1, <2>1, ViewDocuments DEF Alike, AlikeGroup
  <1>4. \A names : Seen(groups, names) = Seen(others, names)
    BY AlikeSeen
  <1>5. \A f \in ViewFiles(v, groups) : row(groups, f) = row(others, f)
    BY <1>3, <1>4 DEF RowOf, Like, Shown
  <1>6. \A g : RowsOf(c, v, g) = [f \in {f \in ViewFiles(v, g) : row(g, f) # None} |-> row(g, f)]
    BY DEF RowsOf, ViewFiles
  <1> HIDE DEF row
  <1>7. {f \in ViewFiles(v, groups) : row(groups, f) # None}
           = {f \in ViewFiles(v, others) : row(others, f) # None}
    BY <1>2, <1>5
  <1>8. QED
    BY <1>2, <1>5, <1>6, <1>7

\* A view is made of the groups it takes as inputs, and of no other.
LEMMA InputsMakeTheView ==
    ASSUME NEW groups, NEW others, NEW c, NEW v \in Views,
           \A s \in ViewFrom(v) : IsGroup(s, groups[s]),
           \A s \in ViewInputs(c, v, groups) : others[s] = groups[s]
    PROVE  /\ ViewInputs(c, v, others) = ViewInputs(c, v, groups)
           /\ RowsOf(c, v, others) = RowsOf(c, v, groups)
  <1> DEFINE row(g, f) == RowOf(c, v, g[SourceOf[f]][f], g)
             reads(g, f) == ViewReads(c, v, g[SourceOf[f]][f].data)
  <1>1. \A g : ViewInputs(c, v, g)
                 = ViewFrom(v) \cup UNION {reads(g, f) : f \in ViewFiles(v, g)}
    BY DEF ViewInputs, ViewFiles
  <1>2. \A g : RowsOf(c, v, g) = [f \in {f \in ViewFiles(v, g) : row(g, f) # None} |-> row(g, f)]
    BY DEF RowsOf, ViewFiles
  <1>3. \A s \in ViewFrom(v) : others[s] = groups[s]
    BY <1>1
  <1>4. ViewFiles(v, others) = ViewFiles(v, groups)
    BY <1>3 DEF ViewFiles
  <1>5. \A f \in ViewFiles(v, groups) : others[SourceOf[f]] = groups[SourceOf[f]]
    BY <1>3, ViewDocuments
  <1>6. \A f \in ViewFiles(v, groups) : reads(others, f) = reads(groups, f)
    BY <1>5
  <1>7. ASSUME NEW f \in ViewFiles(v, groups) PROVE row(others, f) = row(groups, f)
    <2> DEFINE d == groups[SourceOf[f]][f]
    <2>1. \A s \in ViewReads(c, v, d.data) : others[s] = groups[s]
      BY <1>1
    <2>2. Seen(others, ViewReads(c, v, d.data)) = Seen(groups, ViewReads(c, v, d.data))
      BY <2>1 DEF Seen
    <2>3. row(others, f) = RowOf(c, v, d, others) /\ row(groups, f) = RowOf(c, v, d, groups)
      BY <1>5
    <2> HIDE DEF d, row
    <2>4. QED
      BY <2>2, <2>3 DEF RowOf
  <1> HIDE DEF row, reads
  <1>8. ViewInputs(c, v, others) = ViewInputs(c, v, groups)
    BY <1>1, <1>4, <1>6
  <1>9. RowsOf(c, v, others) = RowsOf(c, v, groups)
    <2>1. {f \in ViewFiles(v, others) : row(others, f) # None}
             = {f \in ViewFiles(v, groups) : row(groups, f) # None}
      BY <1>4, <1>7
    <2>2. QED
      BY <1>2, <1>4, <1>7, <2>1
  <1>10. QED
    BY <1>8, <1>9

\* A view that is resolved anew.
Derived(c, v, groups) ==
    [inputs |-> [s \in ViewInputs(c, v, groups) |-> groups[s]],
     rows |-> RowsOf(c, v, groups)]
IsDerived(c, v, view) ==
    /\ view = [inputs |-> view.inputs, rows |-> view.rows]
    /\ view.inputs = [s \in ViewInputs(c, v, view.inputs) |-> view.inputs[s]]
    /\ view.rows = RowsOf(c, v, view.inputs)

LEMMA DerivedFacts ==
    ASSUME NEW groups, AreGroups(groups), NEW c, NEW v \in Views
    PROVE  IsDerived(c, v, Derived(c, v, groups))
  <1> DEFINE inputs == [s \in ViewInputs(c, v, groups) |-> groups[s]]
  <1>1. \A s \in ViewFrom(v) : IsGroup(s, groups[s])
    BY Shape DEF AreGroups
  <1>2. \A s \in ViewInputs(c, v, groups) : inputs[s] = groups[s]
    OBVIOUS
  <1>3. Derived(c, v, groups).inputs = inputs
        /\ Derived(c, v, groups).rows = RowsOf(c, v, groups)
        /\ Derived(c, v, groups) = [inputs |-> inputs, rows |-> RowsOf(c, v, groups)]
    BY DEF Derived
  <1>4. inputs = [s \in ViewInputs(c, v, groups) |-> inputs[s]]
    BY <1>2
  <1> HIDE DEF inputs
  <1>5. /\ ViewInputs(c, v, inputs) = ViewInputs(c, v, groups)
        /\ RowsOf(c, v, inputs) = RowsOf(c, v, groups)
    BY <1>1, <1>2, InputsMakeTheView
  <1>6. QED
    BY <1>3, <1>4, <1>5 DEF IsDerived

\* A view whose inputs are still there is the view that would be made anew.
LEMMA DerivedAgain ==
    ASSUME NEW groups, AreGroups(groups), NEW c, NEW v \in Views,
           NEW view, IsDerived(c, v, view),
           \A s \in DOMAIN view.inputs : view.inputs[s] = groups[s]
    PROVE  view = Derived(c, v, groups)
  <1>1. DOMAIN view.inputs = ViewInputs(c, v, view.inputs)
    BY DEF IsDerived
  <1>2. \A s \in ViewFrom(v) : s \in ViewInputs(c, v, view.inputs)
    BY DEF ViewInputs
  <1>3. \A s \in ViewFrom(v) : IsGroup(s, view.inputs[s])
    BY <1>1, <1>2, Shape DEF AreGroups
  <1>4. \A s \in ViewInputs(c, v, view.inputs) : groups[s] = view.inputs[s]
    BY <1>1
  <1>5. /\ ViewInputs(c, v, groups) = ViewInputs(c, v, view.inputs)
        /\ RowsOf(c, v, groups) = RowsOf(c, v, view.inputs)
    BY <1>3, <1>4, InputsMakeTheView
  <1>6. view.inputs = [s \in ViewInputs(c, v, groups) |-> groups[s]]
    <2>1. view.inputs = [s \in ViewInputs(c, v, view.inputs) |-> view.inputs[s]]
      BY DEF IsDerived
    <2>2. QED
      BY <1>4, <1>5, <2>1
  <1>7. QED
    BY <1>5, <1>6 DEF Derived, IsDerived

-----------------------------------------------------------------------------
(* The plan of a target.                                                   *)

\* A file that is planned with nothing remembered.
FileOf(c, groups, p) ==
    PlanFile(c, groups, [v \in Views |-> Derived(c, v, groups)],
             [s \in Names |-> Entries(groups[s])], p)

\* The text of a file is made of its inputs.
TextOf(p, inputs) ==
    CASE p[1] = "list" -> AllShown(inputs)
      [] p[1] = "document" -> Shown(inputs[1])
      [] p[1] = "view" -> inputs[1].rows
      [] OTHER -> inputs[1]

LEMMA FileText ==
    ASSUME NEW c, NEW groups, NEW derived, NEW entries, NEW p
    PROVE  LET file == PlanFile(c, groups, derived, entries, p)
           IN  file = File(file.inputs, TextOf(p, file.inputs))
  <1>1. CASE p[1] = "list"
    BY <1>1 DEF PlanFile, TextOf, File
  <1>2. CASE p[1] = "getter"
    BY <1>2 DEF PlanFile, TextOf, File
  <1>3. CASE p[1] = "document"
    BY <1>3 DEF PlanFile, TextOf, File
  <1>4. CASE p[1] = "view"
    BY <1>4 DEF PlanFile, TextOf, File
  <1>5. CASE p[1] = "plugin"
    BY <1>5 DEF PlanFile, TextOf, File
  <1>6. CASE p[1] \notin {"list", "getter", "document", "view", "plugin"}
    BY <1>6 DEF PlanFile, TextOf, File
  <1>7. QED
    BY <1>1, <1>2, <1>3, <1>4, <1>5, <1>6

LEMMA PathKinds ==
    ASSUME NEW groups, AreGroups(groups), NEW p \in PathsOf(groups)
    PROVE  \/ p[1] \in {"list", "getter"} /\ p[2] \in Names
           \/ p[1] = "view" /\ p[2] \in Views
           \/ /\ p[1] = "document"
              /\ SourceOf[p[2]] \in Names /\ p[2] \in DOMAIN groups[SourceOf[p[2]]]
           \/ p[1] \in {"plugin", "index"}
  BY DEF PathsOf, AreGroups, IsGroup

LEMMA AlikePaths ==
    ASSUME NEW groups, NEW others, Alike(groups, others)
    PROVE  PathsOf(groups) = PathsOf(others)
  <1>1. UNION {DOMAIN groups[s] : s \in Names} = UNION {DOMAIN others[s] : s \in Names}
    BY DEF Alike, AlikeGroup
  <1>2. QED
    BY <1>1 DEF PathsOf

LEMMA AlikeEntries ==
    ASSUME NEW groups, NEW others, Alike(groups, others), NEW s \in Names
    PROVE  /\ Entries(groups[s]) = Entries(others[s])
           /\ Distinct(groups[s]) = Distinct(others[s])
  <1>1. AlikeGroup(groups[s], others[s])
    BY DEF Alike
  <1>2. /\ DOMAIN groups[s] = DOMAIN others[s]
        /\ \A f \in DOMAIN groups[s] : KeyOf(groups[s][f]) = KeyOf(others[s][f])
    BY <1>1 DEF AlikeGroup, Like, KeyOf
  <1>3. QED
    BY <1>2 DEF Entries, LookupInputs, Distinct

\* The files of groups that are alike have the same text, whatever objects
\* they are built from.
LEMMA AlikeFiles ==
    ASSUME NEW groups, NEW others, AreGroups(groups), AreGroups(others),
           Alike(groups, others), NEW c, NEW p \in PathsOf(groups)
    PROVE  FileOf(c, groups, p).text = FileOf(c, others, p).text
  <1>1. CASE p[1] = "list" /\ p[2] \in Names
    <2>1. AllShown(groups[p[2]]) = AllShown(others[p[2]])
      BY <1>1, AlikeShown DEF Alike
    <2>2. QED
      BY <1>1, <2>1 DEF FileOf, PlanFile, File
  <1>2. CASE p[1] = "getter" /\ p[2] \in Names
    <2>1. Entries(groups[p[2]]) = Entries(others[p[2]])
      BY <1>2, AlikeEntries
    <2>2. QED
      BY <1>2, <2>1 DEF FileOf, PlanFile, File
  <1>3. CASE p[1] = "view" /\ p[2] \in Views
    <2>1. RowsOf(c, p[2], groups) = RowsOf(c, p[2], others)
      BY <1>3, AlikeRows
    <2>2. QED
      BY <1>3, <2>1 DEF FileOf, PlanFile, File, Derived
  <1>4. CASE p[1] = "document" /\ SourceOf[p[2]] \in Names
               /\ p[2] \in DOMAIN groups[SourceOf[p[2]]]
    <2>1. Like(groups[SourceOf[p[2]]][p[2]], others[SourceOf[p[2]]][p[2]])
      BY <1>4 DEF Alike, AlikeGroup
    <2>2. Shown(groups[SourceOf[p[2]]][p[2]]) = Shown(others[SourceOf[p[2]]][p[2]])
      BY <2>1 DEF Like, Shown
    <2>3. QED
      BY <1>4, <2>2 DEF FileOf, PlanFile, File
  <1>5. CASE p[1] = "plugin"
    <2>1. Seen(groups, Names) = Seen(others, Names)
      BY AlikeSeen
    <2>2. QED
      BY <1>5, <2>1 DEF FileOf, PlanFile, File
  <1>6. CASE p[1] = "index"
    <2> DEFINE keys(g) == [s \in Names |-> {KeyOf(g[s][f]) : f \in DOMAIN g[s]}]
    <2>1. \A s \in Names :
             /\ DOMAIN groups[s] = DOMAIN others[s]
             /\ \A f \in DOMAIN groups[s] : KeyOf(groups[s][f]) = KeyOf(others[s][f])
      BY DEF Alike, AlikeGroup, Like, KeyOf
    <2>2. keys(groups) = keys(others)
      BY <2>1
    <2>3. \A g : FileOf(c, g, p).text = keys(g)
      BY <1>6 DEF FileOf, PlanFile, File
    <2> HIDE DEF keys
    <2>4. QED
      BY <2>2, <2>3
  <1>7. QED
    BY <1>1, <1>2, <1>3, <1>4, <1>5, <1>6, PathKinds

-----------------------------------------------------------------------------
(* A build from nothing.                                                   *)

\* FreshBuild has the same stages.
LEMMA SameNames == Fresh!Names = Names
  BY DEF Fresh!Names, Names

LEMMA SameCardinality == \A S : Fresh!Cardinality(S) = Cardinality(S)
  BY Zenon DEF Fresh!Cardinality, Cardinality

LEMMA SameDocuments ==
    /\ \A f, data, n : Fresh!NewDocument(f, data, n) = NewDocument(f, data, n)
    /\ \A kept : Fresh!GroupBySource(kept) = GroupBySource(kept)
  BY SameNames DEF Fresh!NewDocument, NewDocument, Fresh!GroupBySource, GroupBySource,
     Fresh!Only, Only

LEMMA SameSeen ==
    \A groups, names : Fresh!Seen(groups, names) = Seen(groups, names)
  BY SameNames DEF Fresh!Seen, Seen, Fresh!AllShown, AllShown, Fresh!Shown, Shown

LEMMA SameData ==
    \A c, d, groups :
        /\ Fresh!TransformOf(c, d, groups) = TransformOf(c, d, groups)
        /\ Fresh!PreparedData(c, d, groups) = PreparedData(c, d, groups)
  BY SameNames, SameSeen DEF Fresh!TransformOf, TransformOf, Fresh!PreparedData, PreparedData

LEMMA SameScopes ==
    \A c, t, groups :
        /\ Fresh!ScopeSources(c, t, groups) = ScopeSources(c, t, groups)
        /\ Fresh!ScopeGood(c, t, groups) = ScopeGood(c, t, groups)
  <1>1. ASSUME NEW c, NEW t, NEW groups
        PROVE  Fresh!ScopeSources(c, t, groups) = ScopeSources(c, t, groups)
    <2>1. Fresh!Seen(groups, Names) = Seen(groups, Names)
      BY SameSeen
    <2>2. \A group, files : Fresh!Only(group, files) = Only(group, files)
      BY DEF Fresh!Only, Only
    <2>3. QED
      BY SameNames, <2>1, <2>2 DEF Fresh!ScopeSources, ScopeSources
  <1>2. ASSUME NEW c, NEW t, NEW groups
        PROVE  Fresh!ScopeGood(c, t, groups) = ScopeGood(c, t, groups)
    BY <1>1 DEF Fresh!ScopeGood, ScopeGood
  <1>3. QED
    BY <1>1, <1>2

LEMMA SameLinks ==
    \A s, groups :
        /\ Fresh!Linked(s, groups) = Linked(s, groups)
        /\ Fresh!Resolves(s, groups) = Resolves(s, groups)
  <1>1. \A s, key, groups : Fresh!Candidates(s, key, groups) = Candidates(s, key, groups)
    BY DEF Fresh!Candidates, Candidates
  <1>2. \A s, d : Fresh!References(s, d) = References(s, d)
    BY DEF Fresh!References, References
  <1>3. ASSUME NEW s, NEW d, NEW groups
        PROVE  Fresh!Embedded(s, d, groups) = Embedded(s, d, groups)
    <2> DEFINE with(shown, t) == [d EXCEPT !.with = shown, !.target = t]
               found == Candidates(s, Ref(s, d.data), groups)
               t == groups[RefersTo[s]][CHOOSE f \in found : TRUE]
    <2>1. Embedded(s, d, groups) = IF Ref(s, d.data) = None \/ Cardinality(found) # 1 THEN d
                                   ELSE with(Shown(t), t)
      BY DEF Embedded
    <2>2. Fresh!Candidates(s, Ref(s, d.data), groups) = found
      BY <1>1
    <2>3. Fresh!Embedded(s, d, groups) =
             LET found2 == Fresh!Candidates(s, Ref(s, d.data), groups)
                 t2 == groups[RefersTo[s]][CHOOSE f \in found2 : TRUE]
             IN  IF Ref(s, d.data) = None \/ Fresh!Cardinality(found2) # 1 THEN d
                 ELSE with(Fresh!Shown(t2), t2)
      BY DEF Fresh!Embedded
    <2> HIDE DEF with, found
    <2>4. Fresh!Embedded(s, d, groups) =
             IF Ref(s, d.data) = None \/ Fresh!Cardinality(found) # 1 THEN d
             ELSE with(Fresh!Shown(t), t)
      BY <2>2, <2>3
    <2>5. Fresh!Shown(t) = Shown(t) /\ Fresh!Cardinality(found) = Cardinality(found)
      BY SameCardinality DEF Fresh!Shown, Shown
    <2> HIDE DEF t
    <2>6. QED
      BY <2>1, <2>4, <2>5
  <1>4. \A s, groups : Fresh!Linked(s, groups) = Linked(s, groups)
    BY <1>3 DEF Fresh!Linked, Linked
  <1>5. ASSUME NEW s, NEW groups PROVE Fresh!Resolves(s, groups) = Resolves(s, groups)
    <2>1. Fresh!Resolves(s, groups) <=> Resolves(s, groups)
      BY <1>1, <1>2, SameCardinality DEF Fresh!Resolves, Resolves
    <2>2. QED
      BY <2>1 DEF Fresh!Resolves, Resolves
  <1>6. QED
    BY <1>4, <1>5

LEMMA SameConflicts ==
    \A groups : Fresh!NoConflict(groups) = NoConflict(groups)
  BY SameNames DEF Fresh!NoConflict, NoConflict

LEMMA SameViews ==
    /\ \A c, v, groups : Fresh!RowsOf(c, v, groups) = RowsOf(c, v, groups)
    /\ \A rows : Fresh!ViewGood(rows) = ViewGood(rows)
  BY SameSeen DEF Fresh!RowsOf, RowsOf, Fresh!RowOf, RowOf, Fresh!Shown, Shown,
     Fresh!ViewGood, ViewGood

LEMMA SamePlans ==
    /\ \A groups : Fresh!PathsOf(groups) = PathsOf(groups)
    /\ \A group : /\ Fresh!Entries(group) = Entries(group)
                  /\ Fresh!Distinct(group) = Distinct(group)
    /\ \A c, groups, derived, entries, p :
          Fresh!PlanFile(c, groups, derived, entries, p)
            = PlanFile(c, groups, derived, entries, p)
  <1>1. \A group : Fresh!AllShown(group) = AllShown(group)
    BY DEF Fresh!AllShown, AllShown, Fresh!Shown, Shown
  <1>2. \A d : Fresh!KeyOf(d) = KeyOf(d) /\ Fresh!Shown(d) = Shown(d)
    BY DEF Fresh!KeyOf, KeyOf, Fresh!Shown, Shown
  <1>3. \A x, y : Fresh!File(x, y) = File(x, y)
    BY DEF Fresh!File, File
  <1>4. \A groups : Fresh!PathsOf(groups) = PathsOf(groups)
    BY SameNames DEF Fresh!PathsOf, PathsOf
  <1>5. \A group : /\ Fresh!Entries(group) = Entries(group)
                  /\ Fresh!Distinct(group) = Distinct(group)
    BY <1>2 DEF Fresh!Entries, Entries, Fresh!LookupInputs, LookupInputs,
       Fresh!Distinct, Distinct
  <1>6. ASSUME NEW c, NEW groups, NEW derived, NEW entries, NEW p
        PROVE  Fresh!PlanFile(c, groups, derived, entries, p)
                 = PlanFile(c, groups, derived, entries, p)
    BY SameNames, SameSeen, <1>1, <1>2, <1>3 DEF Fresh!PlanFile, PlanFile
  <1>7. QED
    BY <1>4, <1>5, <1>6

\* What is left of a build's documents in a target, and linked.
FreshSet(b, t) == ScopeSources(b.project, t, Fresh!Left(b))
FreshGroups(b, t) == Fresh!Link(FreshSet(b, t)).groups

LEMMA FreshFiles ==
    ASSUME NEW b, NEW t, AreGroups(FreshGroups(b, t))
    PROVE  Fresh!Output(b, t) = [p \in PathsOf(FreshGroups(b, t)) |->
                                    FileOf(b.project, FreshGroups(b, t), p).text]
  <1> DEFINE c == b.project
             groups == FreshGroups(b, t)
             derived == [v \in Views |-> [rows |-> RowsOf(c, v, groups)]]
             entries == [s \in Names |-> Entries(groups[s])]
  <1>1. Fresh!Output(b, t) =
           [p \in PathsOf(groups) |-> PlanFile(c, groups, derived, entries, p).text]
    BY SameNames, SameScopes, SameViews, SamePlans DEF Fresh!Output, FreshGroups, FreshSet
  <1>2. ASSUME NEW p \in PathsOf(groups)
        PROVE  PlanFile(c, groups, derived, entries, p).text = FileOf(c, groups, p).text
    <2>1. CASE p[1] = "view" /\ p[2] \in Views
      <3>1. derived[p[2]].rows = RowsOf(c, p[2], groups)
        BY <2>1
      <3>2. Derived(c, p[2], groups).rows = RowsOf(c, p[2], groups)
        BY DEF Derived
      <3> HIDE DEF derived, groups, entries, c
      <3>3. QED
        BY <2>1, <3>1, <3>2 DEF FileOf, PlanFile, File
    <2>2. CASE p[1] # "view"
      <3> HIDE DEF groups, c
      <3>1. QED
        BY <2>2 DEF FileOf, PlanFile, File
    <2>3. QED
      <3> HIDE DEF groups
      <3>1. AreGroups(groups)
        BY DEF groups
      <3>2. QED
        BY <2>1, <2>2, <3>1, PathKinds
  <1> HIDE DEF groups, derived, entries
  <1>3. QED
    BY <1>1, <1>2 DEF groups

-----------------------------------------------------------------------------
(* All sources linked, a target before its referrers.                      *)

EmbedSource(i) == EmbedOrder[i]
LEMMA EmbedSources == \A i \in 1..Len(EmbedOrder) : EmbedSource(i) \in Names
  BY Shape DEF EmbedSource

IsDone(done) == /\ done = [groups |-> done.groups, good |-> done.good]
                /\ AreGroups(done.groups) /\ done.good \in BOOLEAN

LEMMA NothingDone ==
    ASSUME NEW groups, AreGroups(groups)
    PROVE  IsDone([groups |-> groups, good |-> TRUE])
  BY DEF IsDone

LEMMA FreshStepFacts ==
    ASSUME NEW done, IsDone(done), NEW s \in Names
    PROVE  LET next == Fresh!LinkSource(done, s)
           IN  /\ IsDone(next)
               /\ next.groups = [done.groups EXCEPT ![s] = Linked(s, done.groups)]
               /\ next.good = (done.good /\ Resolves(s, done.groups))
  <1> DEFINE next == Fresh!LinkSource(done, s)
  <1>1. /\ next = [groups |-> [done.groups EXCEPT ![s] = Linked(s, done.groups)],
                   good |-> done.good /\ Resolves(s, done.groups)]
    BY SameLinks DEF Fresh!LinkSource
  <1>2. IsGroup(s, Linked(s, done.groups))
    BY LinkedFacts DEF IsDone
  <1>3. done.groups = [x \in Names |-> done.groups[x]]
        /\ \A x \in Names : IsGroup(x, done.groups[x])
    BY DEF IsDone, AreGroups
  <1>4. AreGroups([done.groups EXCEPT ![s] = Linked(s, done.groups)])
    BY <1>2, <1>3 DEF AreGroups
  <1> HIDE DEF next
  <1>5. next.groups = [done.groups EXCEPT ![s] = Linked(s, done.groups)]
        /\ next.good = (done.good /\ Resolves(s, done.groups))
    BY <1>1
  <1>6. next = [groups |-> next.groups, good |-> next.good]
    BY <1>1, <1>5
  <1>7. IsDone(next)
    BY <1>4, <1>5, <1>6 DEF IsDone
  <1>8. QED
    BY <1>5, <1>7 DEF next

\* The steps of linking, one source at a time.
LEMMA FreshLinkSteps ==
    ASSUME NEW groups
    PROVE  \E h : /\ h[0] = [groups |-> groups, good |-> TRUE]
                  /\ \A i \in 1..Len(EmbedOrder) :
                        h[i] = Fresh!LinkSource(h[i - 1], EmbedSource(i))
                  /\ Fresh!Link(groups) = h[Len(EmbedOrder)]
  <1>1. PICK h : /\ FreshLinks(groups, Len(EmbedOrder), h)
                 /\ Fresh!Link(groups) = h[Len(EmbedOrder)]
    BY FreshLinksExist
  <1>2. h[0] = [groups |-> groups, good |-> TRUE]
    BY <1>1, EmbedLength DEF FreshLinks
  <1>3. ASSUME NEW i \in 1..Len(EmbedOrder)
        PROVE  h[i] = Fresh!LinkSource(h[i - 1], EmbedSource(i))
    <2>1. i \in 0..Len(EmbedOrder) /\ i # 0
      BY EmbedLength
    <2>2. h = [j \in 0..Len(EmbedOrder) |-> IF j = 0 THEN [groups |-> groups, good |-> TRUE]
                                            ELSE Fresh!LinkSource(h[j - 1], EmbedOrder[j])]
      BY <1>1 DEF FreshLinks
    <2>3. h[i] = Fresh!LinkSource(h[i - 1], EmbedOrder[i])
      BY <2>1, <2>2, Zenon
    <2>4. QED
      BY <2>3 DEF EmbedSource
  <1>4. QED
    BY <1>1, <1>2, <1>3

LEMMA FreshLinkFacts ==
    ASSUME NEW groups, AreGroups(groups)
    PROVE  IsDone(Fresh!Link(groups))
  <1> DEFINE N == Len(EmbedOrder)
  <1>1. PICK h : /\ h[0] = [groups |-> groups, good |-> TRUE]
                 /\ \A i \in 1..N : h[i] = Fresh!LinkSource(h[i - 1], EmbedSource(i))
                 /\ Fresh!Link(groups) = h[N]
    BY FreshLinkSteps
  <1> DEFINE S == {i \in 0..N : IsDone(h[i])}
  <1>2. N \in Nat
    BY EmbedLength
  <1> HIDE DEF N
  <1>3. 0 \in S
    BY <1>1, <1>2, NothingDone
  <1>4. ASSUME NEW i \in 0..(N - 1), i \in S PROVE i + 1 \in S
    <2>1. i + 1 \in 1..N /\ (i + 1) - 1 = i
      BY <1>2
    <2>2. EmbedSource(i + 1) \in Names
      BY <2>1, EmbedSources DEF N
    <2>3. IsDone(Fresh!LinkSource(h[i], EmbedSource(i + 1)))
      BY <1>4, <2>2, FreshStepFacts
    <2>4. h[i + 1] = Fresh!LinkSource(h[i], EmbedSource(i + 1))
      BY <1>1, <2>1
    <2>5. QED
      BY <1>2, <2>1, <2>3, <2>4
  <1> HIDE DEF S
  <1>5. N \in S
    BY <1>2, <1>3, <1>4, UpTo
  <1>6. QED
    BY <1>1, <1>5 DEF S

\* Groups that are alike stay so, and have the same problems.
LEMMA AlikeLinks ==
    ASSUME NEW groups, NEW others, AreGroups(groups), AreGroups(others),
           Alike(groups, others)
    PROVE  /\ Alike(Fresh!Link(groups).groups, Fresh!Link(others).groups)
           /\ Fresh!Link(groups).good = Fresh!Link(others).good
  <1> DEFINE N == Len(EmbedOrder)
  <1>1. PICK h : /\ h[0] = [groups |-> groups, good |-> TRUE]
                 /\ \A i \in 1..N : h[i] = Fresh!LinkSource(h[i - 1], EmbedSource(i))
                 /\ Fresh!Link(groups) = h[N]
    BY FreshLinkSteps
  <1>2. PICK k : /\ k[0] = [groups |-> others, good |-> TRUE]
                 /\ \A i \in 1..N : k[i] = Fresh!LinkSource(k[i - 1], EmbedSource(i))
                 /\ Fresh!Link(others) = k[N]
    BY FreshLinkSteps
  <1> DEFINE same(i) == /\ IsDone(h[i]) /\ IsDone(k[i])
                        /\ Alike(h[i].groups, k[i].groups)
                        /\ h[i].good = k[i].good
             S == {i \in 0..N : same(i)}
  <1>3. N \in Nat
    BY EmbedLength
  <1> HIDE DEF N
  <1>4. 0 \in S
    <2>1. IsDone(h[0]) /\ IsDone(k[0])
      BY <1>1, <1>2, NothingDone
    <2>2. h[0].groups = groups /\ k[0].groups = others /\ h[0].good = k[0].good
      BY <1>1, <1>2
    <2>3. same(0)
      BY <2>1, <2>2
    <2> HIDE DEF same
    <2>4. QED
      BY <1>3, <2>3
  <1>5. ASSUME NEW i \in 0..(N - 1), i \in S PROVE i + 1 \in S
    <2> DEFINE s == EmbedSource(i + 1)
               a == h[i]
               b == k[i]
    <2>1. i + 1 \in 1..N /\ (i + 1) - 1 = i
      BY <1>3
    <2>2. s \in Names
      BY <2>1, EmbedSources DEF N
    <2>3. h[i + 1] = Fresh!LinkSource(a, s) /\ k[i + 1] = Fresh!LinkSource(b, s)
      BY <1>1, <1>2, <2>1
    <2>4. IsDone(a) /\ IsDone(b) /\ Alike(a.groups, b.groups) /\ a.good = b.good
      BY <1>5
    <2> HIDE DEF s, a, b
    <2>5. /\ IsDone(h[i + 1])
          /\ h[i + 1].groups = [a.groups EXCEPT ![s] = Linked(s, a.groups)]
          /\ h[i + 1].good = (a.good /\ Resolves(s, a.groups))
      BY <2>2, <2>3, <2>4, FreshStepFacts
    <2>6. /\ IsDone(k[i + 1])
          /\ k[i + 1].groups = [b.groups EXCEPT ![s] = Linked(s, b.groups)]
          /\ k[i + 1].good = (b.good /\ Resolves(s, b.groups))
      BY <2>2, <2>3, <2>4, FreshStepFacts
    <2>7. AreGroups(a.groups) /\ AreGroups(b.groups)
      BY <2>4 DEF IsDone
    <2>8. AlikeGroup(Linked(s, a.groups), Linked(s, b.groups))
      BY <2>2, <2>4, <2>7, AlikeLinked
    <2>9. Resolves(s, a.groups) = Resolves(s, b.groups)
      BY <2>2, <2>4, AlikeResolves
    <2>10. Alike(h[i + 1].groups, k[i + 1].groups)
      BY <2>4, <2>5, <2>6, <2>7, <2>8 DEF Alike, AreGroups
    <2>11. same(i + 1)
      BY <2>4, <2>5, <2>6, <2>9, <2>10
    <2> HIDE DEF same
    <2>12. QED
      BY <1>3, <2>1, <2>11
  <1> HIDE DEF S
  <1>6. N \in S
    BY <1>3, <1>4, <1>5, UpTo
  <1>7. QED
    BY <1>1, <1>2, <1>6 DEF S

-----------------------------------------------------------------------------
(* Linking with what is remembered.                                        *)

\* A remembered group resolved, and is what linking it gives.
IsKnown(known) ==
    \A s \in DOMAIN known :
        LET pair == Pair(s, known[s].documents, known[s].targets)
        IN  /\ s \in Names /\ RefersTo[s] # None
            /\ known[s].result = Linked(s, pair)
            /\ Resolves(s, pair) = TRUE

LEMMA ForgetFacts ==
    ASSUME NEW map, NEW key
    PROVE  /\ DOMAIN Forget(map, key) = DOMAIN map \ {key}
           /\ \A k \in DOMAIN map \ {key} : Forget(map, key)[k] = map[k]
  BY DEF Forget, Only

LEMMA NoTarget ==
    ASSUME NEW groups, NEW s, RefersTo[s] = None
    PROVE  Linked(s, groups) = groups[s] /\ Resolves(s, groups) = TRUE
  <1>1. Resolves(s, groups)
    BY DEF Resolves, References
  <1>2. QED
    BY <1>1 DEF Linked, Resolves

LEMMA LinkStep ==
    ASSUME NEW done, done = [groups |-> done.groups, good |-> done.good, known |-> done.known],
           AreGroups(done.groups), done.good \in BOOLEAN, IsKnown(done.known),
           NEW s \in Names
    PROVE  LET next == LinkSource(done, s)
           IN  /\ next = [groups |-> next.groups, good |-> next.good, known |-> next.known]
               /\ next.groups = [done.groups EXCEPT ![s] = Linked(s, done.groups)]
               /\ next.good = (done.good /\ Resolves(s, done.groups))
               /\ IsKnown(next.known)
  <1> DEFINE next == LinkSource(done, s)
             linked == Linked(s, done.groups)
             good == Resolves(s, done.groups)
             pair == Pair(s, done.groups[s], done.groups[RefersTo[s]])
  <1>1. done.groups = [x \in Names |-> done.groups[x]]
    BY DEF AreGroups
  <1>2. CASE RefersTo[s] = None
    <2>1. linked = done.groups[s] /\ good = TRUE
      BY <1>2, NoTarget
    <2>2. next = done
      BY <1>2 DEF LinkSource
    <2> HIDE DEF next, linked, good
    <2>3. done.groups = [done.groups EXCEPT ![s] = linked]
      BY <1>1, <2>1
    <2>4. QED
      BY <2>1, <2>2, <2>3 DEF next, linked, good
  <1>3. CASE RefersTo[s] # None /\ SameGroup(done.known, s, done.groups)
    <2>1. /\ s \in DOMAIN done.known
          /\ done.known[s].documents = done.groups[s]
          /\ done.known[s].targets = done.groups[RefersTo[s]]
      BY <1>3 DEF SameGroup
    <2>2. done.known[s].result = Linked(s, pair) /\ Resolves(s, pair) = TRUE
      BY <2>1 DEF IsKnown
    <2>3. done.known[s].result = linked /\ good = TRUE
      BY <1>3, <2>2, PairLinks
    <2>4. next = [done EXCEPT !.groups = [done.groups EXCEPT ![s] = done.known[s].result]]
      BY <1>3 DEF LinkSource
    <2> HIDE DEF next, linked, good
    <2>5. QED
      BY <2>3, <2>4 DEF next, linked, good
  <1>4. CASE RefersTo[s] # None /\ ~SameGroup(done.known, s, done.groups)
    <2> DEFINE record == [documents |-> done.groups[s], targets |-> done.groups[RefersTo[s]],
                          result |-> linked]
               known == IF good THEN Put(done.known, s, record) ELSE Forget(done.known, s)
    <2>1. next = [groups |-> [done.groups EXCEPT ![s] = linked],
                  good |-> done.good /\ good, known |-> known]
      BY <1>4, Zenon DEF LinkSource
    <2>2. record.documents = done.groups[s] /\ record.targets = done.groups[RefersTo[s]]
          /\ record.result = linked
      OBVIOUS
    <2>3. Linked(s, pair) = linked /\ Resolves(s, pair) = good
      BY <1>4, PairLinks
    <2>4. good \in BOOLEAN
      BY DEF Resolves
    <2> HIDE DEF record, linked, good, next, known
    <2>5. CASE good
      <3>1. known = Put(done.known, s, record)
        BY <2>5 DEF known
      <3>2. /\ DOMAIN known = DOMAIN done.known \cup {s}
            /\ known[s] = record
            /\ \A k \in DOMAIN done.known : k # s => known[k] = done.known[k]
        BY <3>1 DEF Put
      <3>3. IsKnown(known)
        BY <1>4, <2>2, <2>3, <2>4, <2>5, <3>2 DEF IsKnown
      <3>4. QED
        BY <2>1, <3>3 DEF next, linked, good
    <2>6. CASE ~good
      <3>1. known = Forget(done.known, s)
        BY <2>6 DEF known
      <3>2. /\ DOMAIN known = DOMAIN done.known \ {s}
            /\ \A k \in DOMAIN done.known \ {s} : known[k] = done.known[k]
        BY <3>1, ForgetFacts
      <3>3. IsKnown(known)
        BY <3>2 DEF IsKnown
      <3>4. QED
        BY <2>1, <3>3 DEF next, linked, good
    <2>7. QED
      BY <2>5, <2>6
  <1>5. QED
    BY <1>2, <1>3, <1>4

LEMMA LinkAllSteps ==
    ASSUME NEW groups
    PROVE  \E h : /\ h[0] = [groups |-> groups, good |-> TRUE, known |-> Remembered.groups]
                  /\ \A i \in 1..Len(EmbedOrder) :
                        h[i] = LinkSource(h[i - 1], EmbedSource(i))
                  /\ LinkAll(groups) = h[Len(EmbedOrder)]
  <1>1. PICK h : /\ LinkedSoFar(groups, Len(EmbedOrder), h)
                 /\ LinkAll(groups) = h[Len(EmbedOrder)]
    BY LinksExist
  <1> DEFINE first == [groups |-> groups, good |-> TRUE, known |-> Remembered.groups]
  <1>2. h = [j \in 0..Len(EmbedOrder) |-> IF j = 0 THEN first
                                          ELSE LinkSource(h[j - 1], EmbedOrder[j])]
    BY <1>1 DEF LinkedSoFar
  <1>3. h[0] = first
    <2>1. 0 \in 0..Len(EmbedOrder)
      BY EmbedLength
    <2> HIDE DEF first
    <2>2. QED
      BY <1>2, <2>1, Zenon
  <1>4. ASSUME NEW i \in 1..Len(EmbedOrder)
        PROVE  h[i] = LinkSource(h[i - 1], EmbedSource(i))
    <2>1. i \in 0..Len(EmbedOrder) /\ i # 0
      BY EmbedLength
    <2>2. h[i] = LinkSource(h[i - 1], EmbedOrder[i])
      BY <1>2, <2>1, Zenon
    <2>3. QED
      BY <2>2 DEF EmbedSource
  <1>5. QED
    BY <1>1, <1>3, <1>4

\* With what is remembered, linking gives the very groups it gives from nothing.
LEMMA LinkAllFacts ==
    ASSUME NEW groups, AreGroups(groups), IsKnown(Remembered.groups)
    PROVE  /\ LinkAll(groups).groups = Fresh!Link(groups).groups
           /\ LinkAll(groups).good = Fresh!Link(groups).good
           /\ IsKnown(LinkAll(groups).known)
  <1> DEFINE N == Len(EmbedOrder)
  <1>1. PICK h : /\ h[0] = [groups |-> groups, good |-> TRUE]
                 /\ \A i \in 1..N : h[i] = Fresh!LinkSource(h[i - 1], EmbedSource(i))
                 /\ Fresh!Link(groups) = h[N]
    BY FreshLinkSteps
  <1>2. PICK k : /\ k[0] = [groups |-> groups, good |-> TRUE, known |-> Remembered.groups]
                 /\ \A i \in 1..N : k[i] = LinkSource(k[i - 1], EmbedSource(i))
                 /\ LinkAll(groups) = k[N]
    BY LinkAllSteps
  <1> DEFINE same(i) ==
                /\ IsDone(h[i])
                /\ k[i] = [groups |-> k[i].groups, good |-> k[i].good, known |-> k[i].known]
                /\ k[i].groups = h[i].groups /\ k[i].good = h[i].good
                /\ IsKnown(k[i].known)
             S == {i \in 0..N : same(i)}
  <1>3. N \in Nat
    BY EmbedLength
  <1> HIDE DEF N
  <1>4. 0 \in S
    <2>1. IsDone(h[0])
      BY <1>1, NothingDone
    <2>2. h[0].groups = groups /\ h[0].good = TRUE
      BY <1>1
    <2>3. k[0].groups = groups /\ k[0].good = TRUE /\ k[0].known = Remembered.groups
      BY <1>2
    <2>4. same(0)
      BY <1>2, <2>1, <2>2, <2>3
    <2> HIDE DEF same
    <2>5. QED
      BY <1>3, <2>4
  <1>5. ASSUME NEW i \in 0..(N - 1), i \in S PROVE i + 1 \in S
    <2> DEFINE s == EmbedSource(i + 1)
               a == h[i]
               b == k[i]
    <2>1. i + 1 \in 1..N /\ (i + 1) - 1 = i
      BY <1>3
    <2>2. s \in Names
      BY <2>1, EmbedSources DEF N
    <2>3. h[i + 1] = Fresh!LinkSource(a, s) /\ k[i + 1] = LinkSource(b, s)
      BY <1>1, <1>2, <2>1
    <2>4. /\ IsDone(a)
          /\ b = [groups |-> b.groups, good |-> b.good, known |-> b.known]
          /\ b.groups = a.groups /\ b.good = a.good
          /\ IsKnown(b.known)
      BY <1>5
    <2> HIDE DEF s, a, b
    <2>5. AreGroups(b.groups) /\ b.good \in BOOLEAN
      BY <2>4 DEF IsDone
    <2>6. /\ IsDone(h[i + 1])
          /\ h[i + 1].groups = [a.groups EXCEPT ![s] = Linked(s, a.groups)]
          /\ h[i + 1].good = (a.good /\ Resolves(s, a.groups))
      BY <2>2, <2>3, <2>4, FreshStepFacts
    <2>7. /\ k[i + 1] = [groups |-> k[i + 1].groups, good |-> k[i + 1].good,
                         known |-> k[i + 1].known]
          /\ k[i + 1].groups = [b.groups EXCEPT ![s] = Linked(s, b.groups)]
          /\ k[i + 1].good = (b.good /\ Resolves(s, b.groups))
          /\ IsKnown(k[i + 1].known)
      BY <2>2, <2>3, <2>4, <2>5, LinkStep
    <2>8. same(i + 1)
      BY <2>4, <2>6, <2>7
    <2> HIDE DEF same
    <2>9. QED
      BY <1>3, <2>1, <2>8
  <1> HIDE DEF S
  <1>6. N \in S
    BY <1>3, <1>4, <1>5, UpTo
  <1>7. QED
    BY <1>1, <1>2, <1>6 DEF S

-----------------------------------------------------------------------------
(* The documents that are left after validation, transforms and the hook.  *)

AreDocuments(kept) ==
    /\ DOMAIN kept \subseteq Files
    /\ \A f \in DOMAIN kept : /\ IsDocument(kept[f]) /\ kept[f].file = f
                              /\ kept[f].data # None
\* Every document has data.
HaveData(groups) == \A s \in Names : \A f \in DOMAIN groups[s] : groups[s][f].data # None

LEMMA GroupsFacts ==
    ASSUME NEW kept, AreDocuments(kept)
    PROVE  AreGroups(GroupBySource(kept)) /\ HaveData(GroupBySource(kept))
  BY DEF AreDocuments, AreGroups, IsGroup, HaveData, GroupBySource, Only

LEMMA AlikeDocuments ==
    ASSUME NEW kept, NEW other, AlikeGroup(kept, other)
    PROVE  Alike(GroupBySource(kept), GroupBySource(other))
  BY DEF AlikeGroup, Like, Alike, GroupBySource, Only

LEMMA AlikeTransitive ==
    ASSUME NEW a, NEW b, NEW d, Alike(a, b), Alike(b, d)
    PROVE  Alike(a, d)
  BY DEF Alike, AlikeGroup, Like

\* The documents that get data, each with its data.
WithData(groups, data) ==
    [s \in Names |->
        [f \in {f \in DOMAIN groups[s] : data[s][f] # None} |->
            [groups[s][f] EXCEPT !.data = data[s][f]]]]
IsWithData(after, groups, data) ==
    /\ after = [s \in Names |-> after[s]]
    /\ \A s \in Names :
          /\ after[s] = [f \in DOMAIN after[s] |-> after[s][f]]
          /\ DOMAIN after[s] = {f \in DOMAIN groups[s] : data[s][f] # None}
          /\ \A f \in DOMAIN after[s] :
                /\ IsDocument(after[s][f])
                /\ after[s][f].file = groups[s][f].file
                /\ after[s][f].valid = groups[s][f].valid
                /\ after[s][f].with = groups[s][f].with
                /\ after[s][f].data = data[s][f]

LEMMA WithDataFacts ==
    ASSUME NEW groups, AreGroups(groups), NEW data
    PROVE  IsWithData(WithData(groups, data), groups, data)
  <1>1. \A s \in Names : \A f \in DOMAIN groups[s] : IsDocument(groups[s][f])
    BY DEF AreGroups, IsGroup
  <1>2. ASSUME NEW d, IsDocument(d), NEW x
        PROVE  /\ IsDocument([d EXCEPT !.data = x])
               /\ [d EXCEPT !.data = x].file = d.file
               /\ [d EXCEPT !.data = x].valid = d.valid
               /\ [d EXCEPT !.data = x].with = d.with
               /\ [d EXCEPT !.data = x].data = x
    BY <1>2 DEF IsDocument
  <1> DEFINE after == WithData(groups, data)
             has(s) == {f \in DOMAIN groups[s] : data[s][f] # None}
  <1>3. after = [s \in Names |-> after[s]]
    BY DEF WithData
  <1>4. \A s \in Names : after[s] = [f \in has(s) |-> [groups[s][f] EXCEPT !.data = data[s][f]]]
    BY DEF WithData
  <1> HIDE DEF after
  <1>5. ASSUME NEW s \in Names
        PROVE  /\ after[s] = [f \in DOMAIN after[s] |-> after[s][f]]
               /\ DOMAIN after[s] = has(s)
               /\ \A f \in has(s) : after[s][f] = [groups[s][f] EXCEPT !.data = data[s][f]]
    BY <1>4
  <1>6. \A s \in Names : \A f \in has(s) :
           /\ IsDocument(after[s][f])
           /\ after[s][f].file = groups[s][f].file
           /\ after[s][f].valid = groups[s][f].valid
           /\ after[s][f].with = groups[s][f].with
           /\ after[s][f].data = data[s][f]
    <2> SUFFICES ASSUME NEW s \in Names, NEW f \in has(s)
                 PROVE  /\ IsDocument(after[s][f])
                        /\ after[s][f].file = groups[s][f].file
                        /\ after[s][f].valid = groups[s][f].valid
                        /\ after[s][f].with = groups[s][f].with
                        /\ after[s][f].data = data[s][f]
      OBVIOUS
    <2>1. IsDocument(groups[s][f])
      BY <1>1
    <2>2. after[s][f] = [groups[s][f] EXCEPT !.data = data[s][f]]
      BY <1>5
    <2>3. QED
      BY <1>2, <2>1, <2>2
  <1>7. IsWithData(after, groups, data)
    BY <1>3, <1>5, <1>6 DEF IsWithData
  <1>8. QED
    BY <1>7 DEF after

LEMMA IsWithDataFacts ==
    ASSUME NEW after, NEW groups, NEW data, AreGroups(groups),
           IsWithData(after, groups, data)
    PROVE  /\ AreGroups(after) /\ HaveData(after)
           /\ Alike(after, WithData(groups, data))
  <1>1. AreGroups(after)
    BY DEF AreGroups, IsGroup, IsWithData
  <1>2. HaveData(after)
    BY DEF HaveData, IsWithData
  <1>3. Alike(after, WithData(groups, data))
    <2>1. IsWithData(WithData(groups, data), groups, data)
      BY WithDataFacts
    <2> DEFINE other == WithData(groups, data)
    <2> HIDE DEF other
    <2>2. IsWithData(other, groups, data)
      BY <2>1 DEF other
    <2>3. Alike(after, other)
      BY <2>2 DEF IsWithData, Alike, AlikeGroup, Like
    <2>4. QED
      BY <2>3 DEF other
  <1>4. QED
    BY <1>1, <1>2, <1>3

LEMMA AlikeWithData ==
    ASSUME NEW groups, NEW others, AreGroups(groups), AreGroups(others),
           Alike(groups, others), NEW data, NEW other,
           \A s \in Names : \A f \in DOMAIN groups[s] : data[s][f] = other[s][f]
    PROVE  Alike(WithData(groups, data), WithData(others, other))
  <1>1. \A s \in Names :
           {f \in DOMAIN groups[s] : data[s][f] # None}
              = {f \in DOMAIN others[s] : other[s][f] # None}
    BY DEF Alike, AlikeGroup
  <1>2. /\ IsWithData(WithData(groups, data), groups, data)
        /\ IsWithData(WithData(others, other), others, other)
    BY WithDataFacts
  <1>3. \A s \in Names : \A f \in DOMAIN groups[s] : Like(groups[s][f], others[s][f])
    BY DEF Alike, AlikeGroup
  <1>4. QED
    BY <1>1, <1>2, <1>3 DEF IsWithData, Alike, AlikeGroup, Like

\* What the transforms and the hook of a project make of groups.
TransformData(c, groups) ==
    [s \in Names |-> [f \in DOMAIN groups[s] |->
        IF HasTransform(c, s) THEN TransformOf(c, groups[s][f], groups)
        ELSE groups[s][f].data]]
HookData(c, groups) ==
    [s \in Names |-> [f \in DOMAIN groups[s] |-> PreparedData(c, groups[s][f], groups)]]

LEMMA FreshTransform ==
    ASSUME NEW groups, AreGroups(groups), HaveData(groups), NEW c
    PROVE  Fresh!Transform(c, groups) = WithData(groups, TransformData(c, groups))
  <1> DEFINE new == TransformData(c, groups)
             after == Fresh!Transform(c, groups)
  <1>1. after = [s \in Names |-> after[s]] /\ WithData(groups, new) = [s \in Names |-> WithData(groups, new)[s]]
    BY SameNames DEF Fresh!Transform, WithData
  <1>2. ASSUME NEW s \in Names PROVE after[s] = WithData(groups, new)[s]
    <2>1. \A f \in DOMAIN groups[s] : IsDocument(groups[s][f])
      BY DEF AreGroups, IsGroup
    <2>2. CASE HasTransform(c, s)
      <3>1. after[s] = [f \in {f \in DOMAIN groups[s] : TransformOf(c, groups[s][f], groups) # None} |->
                           [groups[s][f] EXCEPT !.data = TransformOf(c, groups[s][f], groups)]]
        BY <2>2, SameNames, SameData DEF Fresh!Transform
      <3>2. \A f \in DOMAIN groups[s] : new[s][f] = TransformOf(c, groups[s][f], groups)
        BY <2>2 DEF TransformData
      <3> HIDE DEF after, new
      <3>3. {f \in DOMAIN groups[s] : TransformOf(c, groups[s][f], groups) # None}
               = {f \in DOMAIN groups[s] : new[s][f] # None}
        BY <3>2
      <3>4. QED
        BY <3>1, <3>2, <3>3 DEF WithData
    <2>3. CASE ~HasTransform(c, s)
      <3>1. after[s] = groups[s]
        BY <2>3, SameNames DEF Fresh!Transform
      <3>2. \A f \in DOMAIN groups[s] : new[s][f] = groups[s][f].data
        BY <2>3 DEF TransformData
      <3> HIDE DEF after, new
      <3>3. {f \in DOMAIN groups[s] : new[s][f] # None} = DOMAIN groups[s]
        BY <3>2 DEF HaveData
      <3>4. \A f \in DOMAIN groups[s] : [groups[s][f] EXCEPT !.data = new[s][f]] = groups[s][f]
        BY <2>1, <3>2 DEF IsDocument
      <3>5. groups[s] = [f \in DOMAIN groups[s] |-> groups[s][f]]
        BY DEF AreGroups, IsGroup
      <3>6. WithData(groups, new)[s] = groups[s]
        BY <3>3, <3>4, <3>5 DEF WithData
      <3>7. QED
        BY <3>1, <3>6
    <2>4. QED
      BY <2>2, <2>3
  <1> HIDE DEF after
  <1>3. [s \in Names |-> after[s]] = [s \in Names |-> WithData(groups, new)[s]]
    BY <1>2
  <1>4. QED
    BY <1>1, <1>3 DEF after

LEMMA FreshPrepare ==
    ASSUME NEW groups, NEW c
    PROVE  Fresh!Prepare(c, groups) = WithData(groups, HookData(c, groups))
  <1> DEFINE new == HookData(c, groups)
  <1>1. \A s \in Names : \A f \in DOMAIN groups[s] :
           new[s][f] = PreparedData(c, groups[s][f], groups)
    BY DEF HookData
  <1>2. Fresh!Prepare(c, groups) =
           [s \in Names |->
              [f \in {f \in DOMAIN groups[s] : PreparedData(c, groups[s][f], groups) # None} |->
                  [groups[s][f] EXCEPT !.data = PreparedData(c, groups[s][f], groups)]]]
    BY SameNames, SameData DEF Fresh!Prepare
  <1> HIDE DEF new
  <1>3. \A s \in Names : {f \in DOMAIN groups[s] : PreparedData(c, groups[s][f], groups) # None}
                            = {f \in DOMAIN groups[s] : new[s][f] # None}
    BY <1>1
  <1>4. \A s \in Names : \A f \in DOMAIN groups[s] :
           [groups[s][f] EXCEPT !.data = PreparedData(c, groups[s][f], groups)]
             = [groups[s][f] EXCEPT !.data = new[s][f]]
    BY <1>1
  <1>5. QED
    BY <1>2, <1>3, <1>4 DEF WithData, new

LEMMA AlikeTransforms ==
    ASSUME NEW groups, NEW others, AreGroups(groups), AreGroups(others),
           Alike(groups, others), NEW c
    PROVE  /\ Alike(WithData(groups, TransformData(c, groups)),
                    WithData(others, TransformData(c, others)))
           /\ Alike(WithData(groups, HookData(c, groups)), WithData(others, HookData(c, others)))
  <1>1. \A s \in Names : \A f \in DOMAIN groups[s] : Like(groups[s][f], others[s][f])
    BY DEF Alike, AlikeGroup
  <1>2. \A s \in Names : DOMAIN groups[s] = DOMAIN others[s]
    BY DEF Alike, AlikeGroup
  <1>3. \A s \in Names : \A f \in DOMAIN groups[s] :
           TransformOf(c, groups[s][f], groups) = TransformOf(c, others[s][f], others)
           /\ PreparedData(c, groups[s][f], groups) = PreparedData(c, others[s][f], others)
           /\ groups[s][f].data = others[s][f].data
    BY <1>1, AlikeData DEF Like
  <1>4. \A s \in Names : \A f \in DOMAIN groups[s] :
           TransformData(c, groups)[s][f] = TransformData(c, others)[s][f]
    BY <1>2, <1>3 DEF TransformData
  <1>5. \A s \in Names : \A f \in DOMAIN groups[s] :
           HookData(c, groups)[s][f] = HookData(c, others)[s][f]
    BY <1>2, <1>3 DEF HookData
  <1>6. QED
    BY <1>4, <1>5, AlikeWithData

\* The documents of a build that read b.
AreRead(b, kept) ==
    /\ DOMAIN kept = {f \in Files : b.text[f] # None}
    /\ \A f \in DOMAIN kept :
          /\ IsDocument(kept[f]) /\ kept[f].file = f
          /\ kept[f].data = b.text[f] /\ kept[f].valid = b.text[f]
          /\ kept[f].with = None

LEMMA ReadFacts ==
    ASSUME NEW b, NEW kept, AreRead(b, kept)
    PROVE  /\ AreGroups(GroupBySource(kept)) /\ HaveData(GroupBySource(kept))
           /\ Alike(GroupBySource(kept), Fresh!Valid(b))
           /\ AreGroups(Fresh!Valid(b)) /\ HaveData(Fresh!Valid(b))
  <1> DEFINE new == [f \in {f \in Files : b.text[f] # None} |-> NewDocument(f, b.text[f], 0)]
  <1>1. Fresh!Valid(b) = GroupBySource(new)
    BY SameDocuments DEF Fresh!Valid
  <1>2. DOMAIN new = {f \in Files : b.text[f] # None}
    OBVIOUS
  <1>3. \A f \in DOMAIN new : /\ IsDocument(new[f]) /\ new[f].file = f
                              /\ new[f].data = b.text[f] /\ new[f].valid = b.text[f]
                              /\ new[f].with = None
    BY DEF NewDocument, IsDocument
  <1> HIDE DEF new
  <1>4. AreDocuments(kept) /\ AreDocuments(new) /\ AlikeGroup(kept, new)
    BY <1>2, <1>3 DEF AreRead, AreDocuments, AlikeGroup, Like
  <1>5. QED
    BY <1>1, <1>4, GroupsFacts, AlikeDocuments

\* What is left of them after the transforms and the hook is alike what is
\* left in a build from nothing.
LEMMA LeftFacts ==
    ASSUME NEW b, NEW kept, AreRead(b, kept), NEW given, NEW after,
           LET groups == GroupBySource(kept)
           IN  IsWithData(given, groups, TransformData(b.project, groups)),
           IsWithData(after, given, HookData(b.project, given))
    PROVE  /\ AreGroups(given) /\ AreGroups(after) /\ Alike(after, Fresh!Left(b))
           /\ AreGroups(Fresh!Left(b))
  <1> DEFINE c == b.project
             groups == GroupBySource(kept)
             valid == Fresh!Valid(b)
             given2 == WithData(valid, TransformData(c, valid))
  <1>1. /\ AreGroups(groups) /\ HaveData(groups) /\ AreGroups(valid) /\ HaveData(valid)
        /\ Alike(groups, valid)
    BY ReadFacts
  <1>2. IsWithData(given, groups, TransformData(c, groups))
    OBVIOUS
  <1> HIDE DEF groups, valid
  <1>3. AreGroups(given) /\ Alike(given, WithData(groups, TransformData(c, groups)))
    BY <1>1, <1>2, IsWithDataFacts
  <1>4. Alike(WithData(groups, TransformData(c, groups)), given2)
    BY <1>1, AlikeTransforms
  <1>5. Alike(given, given2)
    BY <1>3, <1>4, AlikeTransitive
  <1>6. AreGroups(given2)
    BY <1>1, WithDataFacts, IsWithDataFacts
  <1>7. Fresh!Transform(c, valid) = given2
    BY <1>1, FreshTransform
  <1>8. Fresh!Left(b) = WithData(given2, HookData(c, given2))
    BY <1>7, FreshPrepare DEF Fresh!Left, valid
  <1> HIDE DEF given2
  <1>9. AreGroups(after) /\ Alike(after, WithData(given, HookData(c, given)))
    BY <1>3, IsWithDataFacts
  <1>10. Alike(WithData(given, HookData(c, given)), WithData(given2, HookData(c, given2)))
    BY <1>3, <1>5, <1>6, AlikeTransforms
  <1>11. Alike(after, Fresh!Left(b))
    BY <1>8, <1>9, <1>10, AlikeTransitive
  <1>12. AreGroups(Fresh!Left(b))
    BY <1>6, <1>8, WithDataFacts, IsWithDataFacts
  <1>13. QED
    BY <1>3, <1>9, <1>11, <1>12

LEMMA FreshLeft ==
    ASSUME NEW b
    PROVE  AreGroups(Fresh!Left(b))
  <1> DEFINE kept == [f \in {f \in Files : b.text[f] # None} |-> NewDocument(f, b.text[f], 0)]
             groups == GroupBySource(kept)
             given == WithData(groups, TransformData(b.project, groups))
             after == WithData(given, HookData(b.project, given))
  <1>1. AreRead(b, kept)
    BY DEF NewDocument, IsDocument, AreRead
  <1> HIDE DEF kept
  <1>2. AreGroups(groups)
    BY <1>1, ReadFacts
  <1> HIDE DEF groups
  <1>3. IsWithData(given, groups, TransformData(b.project, groups))
    BY <1>2, WithDataFacts
  <1>4. AreGroups(given)
    BY <1>2, <1>3, IsWithDataFacts
  <1> HIDE DEF given
  <1>5. IsWithData(after, given, HookData(b.project, given))
    BY <1>4, WithDataFacts
  <1> HIDE DEF after
  <1>6. QED
    BY <1>1, <1>3, <1>5, LeftFacts DEF groups

\* The documents of a target, before and after they are linked, are alike
\* those of a build from nothing.
IsSet(b, t, groups) == AreGroups(groups) /\ Alike(groups, FreshSet(b, t))
IsLinked(b, t, groups) == AreGroups(groups) /\ Alike(groups, FreshGroups(b, t))

LEMMA FreshSets ==
    ASSUME NEW b, NEW t
    PROVE  AreGroups(FreshSet(b, t)) /\ AreGroups(FreshGroups(b, t))
  <1>1. AreGroups(FreshSet(b, t))
    BY FreshLeft, ScopesAreGroups DEF FreshSet
  <1>2. QED
    BY <1>1, FreshLinkFacts DEF FreshGroups, IsDone

LEMMA SetFacts ==
    ASSUME NEW b, NEW t, NEW after, AreGroups(after), Alike(after, Fresh!Left(b))
    PROVE  /\ IsSet(b, t, ScopeSources(b.project, t, after))
           /\ ScopeGood(b.project, t, after) = ScopeGood(b.project, t, Fresh!Left(b))
  BY FreshLeft, ScopesAreGroups, AlikeScopes DEF IsSet, FreshSet

LEMMA SetLinks ==
    ASSUME NEW b, NEW t, NEW groups, IsSet(b, t, groups)
    PROVE  /\ IsLinked(b, t, Fresh!Link(groups).groups)
           /\ Fresh!Link(groups).good = Fresh!Link(FreshSet(b, t)).good
  BY FreshSets, AlikeLinks, FreshLinkFacts DEF IsSet, IsLinked, IsDone, FreshGroups

LEMMA LinkedMakesOutput ==
    ASSUME NEW b, NEW t, NEW groups, IsLinked(b, t, groups)
    PROVE  Fresh!Output(b, t) =
              [p \in PathsOf(groups) |-> FileOf(b.project, groups, p).text]
  <1> DEFINE fresh == FreshGroups(b, t)
  <1>1. AreGroups(groups) /\ Alike(groups, fresh) /\ AreGroups(fresh)
    BY FreshSets DEF IsLinked
  <1>2. Fresh!Output(b, t) = [p \in PathsOf(fresh) |-> FileOf(b.project, fresh, p).text]
    BY <1>1, FreshFiles
  <1> HIDE DEF fresh
  <1>3. PathsOf(groups) = PathsOf(fresh)
    BY <1>1, AlikePaths
  <1>4. \A p \in PathsOf(groups) :
           FileOf(b.project, groups, p).text = FileOf(b.project, fresh, p).text
    BY <1>1, AlikeFiles
  <1>5. QED
    BY <1>2, <1>3, <1>4

\* The problems of a target, in the groups of this build.
LEMMA LinkedIsGood ==
    ASSUME NEW b, NEW t, NEW groups, IsLinked(b, t, groups)
    PROVE  Fresh!Good(b, t) <=>
              /\ ScopeGood(b.project, t, Fresh!Left(b))
              /\ Fresh!Link(FreshSet(b, t)).good
              /\ NoConflict(groups)
              /\ \A v \in Views : ViewGood(RowsOf(b.project, v, groups))
              /\ \A s \in Names : Distinct(groups[s])
  <1> DEFINE fresh == FreshGroups(b, t)
  <1>1. AreGroups(groups) /\ Alike(groups, fresh) /\ AreGroups(fresh)
    BY FreshSets DEF IsLinked
  <1>2. Fresh!Good(b, t) <=>
              /\ ScopeGood(b.project, t, Fresh!Left(b))
              /\ Fresh!Link(FreshSet(b, t)).good
              /\ NoConflict(fresh)
              /\ \A v \in Views : ViewGood(RowsOf(b.project, v, fresh))
              /\ \A s \in Names : Distinct(fresh[s])
    BY SameNames, SameScopes, SameConflicts, SameViews, SamePlans
       DEF Fresh!Good, FreshGroups, FreshSet
  <1> HIDE DEF fresh
  <1>3. NoConflict(groups) = NoConflict(fresh)
    BY <1>1, AlikeConflicts
  <1>4. \A v \in Views : RowsOf(b.project, v, groups) = RowsOf(b.project, v, fresh)
    BY <1>1, AlikeRows
  <1>5. \A s \in Names : Distinct(groups[s]) = Distinct(fresh[s])
    BY <1>1, AlikeEntries
  <1>6. QED
    BY <1>2, <1>3, <1>4, <1>5

-----------------------------------------------------------------------------
(* The inductive invariant.  What is remembered is what its own inputs     *)
(* make, so that whatever still has these inputs may be used again; a      *)
(* running build has, stage by stage, documents that are alike those of a  *)
(* build from nothing.                                                     *)

EnvOk == /\ project \in Projects
         /\ text \in [Files -> Texts \cup {None}]

\* The validated documents of the session.
CachedOk ==
    \A f \in DOMAIN cached :
        LET d == cached[f].document
        IN  /\ IsDocument(d) /\ d.file = f
            /\ d.valid = d.data /\ d.with = None

Injective(inputs) == \A f, g \in DOMAIN inputs : f # g => inputs[f] # inputs[g]
IsRemembered(c, m) ==
    /\ m = [groups |-> m.groups, passed |-> m.passed, derived |-> m.derived,
            files |-> m.files, values |-> m.values, revision |-> m.revision]
    /\ IsKnown(m.groups)
    /\ \A groups \in m.passed : NoConflict(groups)
    /\ \A v \in DOMAIN m.derived : /\ v \in Views
                                   /\ IsDerived(c, v, m.derived[v])
                                   /\ ViewGood(m.derived[v].rows)
    /\ \A p \in DOMAIN m.files :
          m.files[p] = File(m.files[p].inputs, TextOf(p, m.files[p].inputs))
    /\ \A s \in DOMAIN m.values : /\ m.values[s] = File(m.values[s].inputs, m.values[s].inputs)
                                  /\ Injective(m.values[s].inputs)

\* The documents of a transform, and of the hook, and what it made of them.
SameSource(d, e) == d.file = e.file /\ d.valid = e.valid /\ d.with = e.with
IsTransform(c, record) ==
    /\ IsDocument(record.final) /\ SameSource(record.final, record.of)
    /\ DOMAIN record.reads = TransformReads(c, record.of.data)
    /\ record.final.data = TransformOf(c, record.of, record.reads)
IsHooked(record) ==
    IsDocument(record.document) /\ SameSource(record.document, record.of)

IsMemory(m) ==
    /\ m = [project |-> m.project, transforms |-> m.transforms,
            prepared |-> m.prepared, targets |-> m.targets]
    /\ m.targets = [t \in Targets |-> m.targets[t]]
    /\ \A f \in DOMAIN m.transforms : IsTransform(m.project, m.transforms[f])
    /\ \A f \in DOMAIN m.prepared : IsHooked(m.prepared[f])
    /\ \A t \in Targets : IsRemembered(m.project, m.targets[t])
MemoryOk == IsMemory(memory)

\* The files of a target at the revision that was written are its output.
TextsOf(files) == [p \in DOMAIN files |-> files[p].text]
IsWritten(m, revision, written) ==
    revision = m.revision /\ DOMAIN m.files # {} => written = TextsOf(m.files)
WrittenOk ==
    /\ writer = [t \in Targets |-> writer[t]] /\ output = [t \in Targets |-> output[t]]
    /\ \A t \in Targets : IsWritten(memory.targets[t], writer[t], output[t])

\* What the running build read, and the groups of its documents.
Read == [f \in DOMAIN cached |-> cached[f].document]
ReadOk ==
    /\ build = [pc |-> build.pc, at |-> build.at, failed |-> build.failed,
                project |-> build.project, text |-> build.text,
                groups |-> build.groups, pending |-> build.pending,
                finals |-> build.finals, sets |-> build.sets, plans |-> build.plans]
    /\ build.pc \in {"transform", "link", "plan", "publish", "refused"}
    /\ build.at \in DOMAIN TargetOrder
    /\ build.project \in Projects /\ build.text \in [Files -> Texts \cup {None}]
    /\ memory.project = build.project
    /\ AreRead(Taken, Read)
    /\ build.groups = GroupBySource(Read)

\* A document after its transform.
IsFinal(c, groups, f, d) ==
    /\ IsDocument(d) /\ SameSource(d, groups[SourceOf[f]][f])
    /\ d.data = TransformData(c, groups)[SourceOf[f]][f]
Documented(groups) == {f \in Files : f \in DOMAIN groups[SourceOf[f]]}
TransformsOk ==
    /\ build.at = 1
    /\ DOMAIN build.finals = DOMAIN cached
    /\ build.pending \subseteq {f \in Documented(build.groups) :
                                   HasTransform(build.project, SourceOf[f])}
    /\ \A f \in Documented(build.groups) \ build.pending :
          ~build.failed => IsFinal(build.project, build.groups, f, build.finals[f])

SetsOk(first) ==
    /\ build.sets = [t \in Targets |-> build.sets[t]]
    /\ \A t \in Targets : ScopeGood(build.project, t, Fresh!Left(Taken))
    /\ \A i \in DOMAIN TargetOrder :
          i >= first => IsSet(Taken, TargetOrder[i], build.sets[TargetOrder[i]])

IsPlanned(m, plan, b, t) ==
    /\ plan.revision = m.revision
    /\ DOMAIN m.files # {}
    /\ DOMAIN plan.files = DOMAIN m.files
    /\ \A p \in DOMAIN m.files : /\ plan.files[p].hash = m.files[p].text
                                 /\ plan.files[p].text = m.files[p].text
    /\ TextsOf(m.files) = Fresh!Output(b, t)
    /\ Fresh!Good(b, t)
PlansOk(last) ==
    \A i \in DOMAIN TargetOrder :
        i <= last => /\ TargetOrder[i] \in DOMAIN build.plans
                     /\ IsPlanned(memory.targets[TargetOrder[i]],
                                  build.plans[TargetOrder[i]], Taken, TargetOrder[i])

\* The target that is planned next was linked and has no problem so far.
LinkOk ==
    LET groups == build.sets[Target]
    IN  /\ IsLinked(Taken, Target, groups)
        /\ Fresh!Link(FreshSet(Taken, Target)).good
        /\ NoConflict(groups)
        /\ \A v \in Views : /\ v \in DOMAIN Remembered.derived
                            /\ Remembered.derived[v] = Derived(build.project, v, groups)

BuildOk ==
    /\ ReadOk
    /\ build.pc = "transform" => TransformsOk
    /\ build.pc = "link" => SetsOk(build.at) /\ PlansOk(build.at - 1)
    /\ build.pc = "plan" => SetsOk(build.at + 1) /\ PlansOk(build.at - 1) /\ LinkOk
    /\ build.pc = "publish" =>
          /\ PlansOk(Len(TargetOrder))
          /\ \A i \in DOMAIN TargetOrder :
                i < build.at => output[TargetOrder[i]] = Fresh!Output(Taken, TargetOrder[i])
    /\ build.pc = "refused" => \E t \in Targets : ~Fresh!Good(Taken, t)

Now == [project |-> project, text |-> text]
CalmOk ==
    calm => /\ \A t \in Targets : output[t] = Fresh!Output(Now, t)
            /\ Running => Taken = Now

Inv == /\ EnvOk /\ CachedOk /\ MemoryOk /\ WrittenOk /\ CalmOk
       /\ Running => BuildOk

LEMMA OrderFacts ==
    /\ Len(TargetOrder) \in Nat /\ Len(TargetOrder) >= 1
    /\ DOMAIN TargetOrder = 1..Len(TargetOrder)
    /\ \A i \in DOMAIN TargetOrder : TargetOrder[i] \in Targets
    /\ \A i, j \in DOMAIN TargetOrder : TargetOrder[i] = TargetOrder[j] => i = j
    /\ \A t \in Targets : \E i \in DOMAIN TargetOrder : TargetOrder[i] = t
  BY TargetsInOrder

LEMMA NewMemoryFacts ==
    ASSUME NEW c
    PROVE  /\ IsMemory([NewMemory EXCEPT !.project = c])
           /\ [NewMemory EXCEPT !.project = c].project = c
           /\ \A t \in Targets : DOMAIN [NewMemory EXCEPT !.project = c].targets[t].files = {}
           /\ NewMemory = [NewMemory EXCEPT !.project = None]
  <1> DEFINE m == [NewMemory EXCEPT !.project = c]
  <1>1. m = [project |-> c, transforms |-> <<>>, prepared |-> <<>>,
             targets |-> [t \in Targets |-> NewTarget]]
    BY DEF NewMemory
  <1>2. IsRemembered(c, NewTarget)
    BY DEF IsRemembered, NewTarget, IsKnown
  <1>3. DOMAIN NewTarget.files = {}
    BY DEF NewTarget
  <1>4. IsMemory(m)
    BY <1>1, <1>2 DEF IsMemory
  <1>5. NewMemory = [NewMemory EXCEPT !.project = None]
    BY DEF NewMemory
  <1> HIDE DEF m
  <1>6. m.project = c /\ \A t \in Targets : DOMAIN m.targets[t].files = {}
    BY <1>1, <1>3
  <1>7. QED
    BY <1>4, <1>5, <1>6 DEF m

LEMMA InitInv == Init => Inv
  <1> SUFFICES ASSUME Init PROVE Inv
    OBVIOUS
  <1>1. EnvOk /\ CachedOk /\ CalmOk /\ ~Running
    BY DEF Init, EnvOk, CachedOk, CalmOk, Running, NoBuild
  <1>2. memory = [NewMemory EXCEPT !.project = None]
    BY NewMemoryFacts DEF Init
  <1>3. MemoryOk /\ \A t \in Targets : DOMAIN memory.targets[t].files = {}
    BY <1>2, NewMemoryFacts DEF MemoryOk
  <1>4. WrittenOk
    BY <1>3 DEF Init, WrittenOk, IsWritten
  <1>5. QED
    BY <1>1, <1>3, <1>4 DEF Inv

-----------------------------------------------------------------------------
(* What a step that leaves variables alone leaves true.                    *)

LEMMA WrittenFrame ==
    ASSUME WrittenOk, UNCHANGED <<memory, writer, output>>
    PROVE  WrittenOk'
  BY DEF WrittenOk

LEMMA BuildFrame ==
    ASSUME BuildOk, UNCHANGED <<cached, memory, build, output>>
    PROVE  BuildOk'
  <1>1. ReadOk'
    BY DEF BuildOk, ReadOk, Taken, Read
  <1>2. build.pc = "transform" => TransformsOk'
    BY DEF BuildOk, TransformsOk
  <1>3. \A i : SetsOk(i) => SetsOk(i)'
    BY DEF SetsOk, Taken
  <1>4. \A i : PlansOk(i) => PlansOk(i)'
    BY DEF PlansOk, Taken
  <1>5. LinkOk => LinkOk'
    BY DEF LinkOk, Taken, Target, Remembered
  <1>6. QED
    BY <1>1, <1>2, <1>3, <1>4, <1>5 DEF BuildOk, Taken

LEMMA EnvironmentInv ==
    ASSUME Inv, Reconfigure \/ \E f \in Files : Edit(f)
    PROVE  Inv'
  <1>1. /\ ~calm'
        /\ UNCHANGED <<made, cached, memory, build, writer, output>>
    BY DEF Edit, Reconfigure
  <1>2. EnvOk'
    <2>1. CASE Reconfigure
      BY <2>1 DEF Inv, EnvOk, Reconfigure
    <2>2. ASSUME NEW f \in Files, Edit(f) PROVE EnvOk'
      BY <2>2 DEF Inv, EnvOk, Edit
    <2>3. QED
      BY <2>1, <2>2
  <1>3. CachedOk' /\ MemoryOk' /\ CalmOk'
    BY <1>1 DEF Inv, CachedOk, MemoryOk, CalmOk
  <1>4. WrittenOk'
    BY <1>1, WrittenFrame DEF Inv
  <1>5. Running' => BuildOk'
    BY <1>1, BuildFrame DEF Inv, Running
  <1>6. QED
    BY <1>2, <1>3, <1>4, <1>5 DEF Inv

LEMMA FailInv ==
    ASSUME Inv, Fail
    PROVE  Inv'
  <1>1. ~Running' /\ ~calm' /\ UNCHANGED <<project, text, cached, memory, writer, output>>
    BY DEF Fail, NoBuild, Running
  <1>2. EnvOk' /\ CachedOk' /\ MemoryOk' /\ CalmOk'
    BY <1>1 DEF Inv, EnvOk, CachedOk, MemoryOk, CalmOk
  <1>3. WrittenOk'
    BY <1>1, WrittenFrame DEF Inv
  <1>4. QED
    BY <1>1, <1>2, <1>3 DEF Inv

LEMMA RestartInv ==
    ASSUME Inv, Restart
    PROVE  Inv'
  <1>1. ~Running' /\ ~calm' /\ UNCHANGED <<project, text, output>>
    BY DEF Restart, Running
  <1>2. EnvOk' /\ CachedOk' /\ CalmOk'
    BY <1>1 DEF Inv, EnvOk, CachedOk, CalmOk, Restart
  <1>3. MemoryOk' /\ \A t \in Targets : DOMAIN memory'.targets[t].files = {}
    <2>1. memory' = [NewMemory EXCEPT !.project = None]
      BY NewMemoryFacts DEF Restart
    <2>2. QED
      BY <2>1, NewMemoryFacts DEF MemoryOk
  <1>4. WrittenOk'
    BY <1>1, <1>3 DEF Inv, WrittenOk, IsWritten, Restart
  <1>5. QED
    BY <1>1, <1>2, <1>3, <1>4 DEF Inv

-----------------------------------------------------------------------------
(* Validation and transforms keep the invariant.                           *)

\* A transform gives the same while what it read is the same.
LEMMA ReadsMakeTheTransform ==
    ASSUME NEW c, NEW d, NEW groups, NEW reads, DOMAIN reads = TransformReads(c, d.data),
           \A s \in DOMAIN reads : reads[s] = groups[s]
    PROVE  TransformOf(c, d, reads) = TransformOf(c, d, groups)
  <1>1. Seen(reads, TransformReads(c, d.data)) = Seen(groups, TransformReads(c, d.data))
    BY DEF Seen
  <1>2. QED
    BY <1>1 DEF TransformOf

LEMMA DocumentFacts ==
    ASSUME Inv, NEW f \in Files
    PROVE  /\ IsDocument(Document(f)) /\ Document(f).file = f
           /\ Document(f).data = text[f] /\ Document(f).valid = text[f]
           /\ Document(f).with = None
  <1>1. CASE Unchanged(f)
    BY <1>1 DEF Document, Unchanged, Inv, CachedOk
  <1>2. CASE ~Unchanged(f)
    <2>1. Document(f) = NewDocument(f, text[f], made[f] + 1)
      BY <1>2 DEF Document
    <2>2. QED
      BY <2>1 DEF NewDocument, IsDocument
  <1>3. QED
    BY <1>1, <1>2

LEMMA DocumentedFacts ==
    ASSUME NEW kept, NEW f \in Documented(GroupBySource(kept)), DOMAIN kept \subseteq Files
    PROVE  /\ f \in DOMAIN kept
           /\ GroupBySource(kept)[SourceOf[f]][f] = kept[f]
           /\ SourceOf[f] \in Names
  BY Shape DEF Documented, GroupBySource, Only

LEMMA ValidateInv ==
    ASSUME Inv, Validate
    PROVE  Inv'
  <1> DEFINE kept == Documents
             groups == GroupBySource(kept)
             known(d) == /\ memory.project = project
                         /\ CachesTransforms(project, SourceOf[d.file])
                         /\ IsCurrent(d, groups)
             changing == {f \in DOMAIN kept : /\ f \in DOMAIN groups[SourceOf[f]]
                                              /\ HasTransform(project, SourceOf[f])}
             finals == [f \in DOMAIN kept |->
                           IF f \in changing /\ known(kept[f])
                           THEN memory.transforms[f].final ELSE kept[f]]
  <1>1. /\ ~Running
        /\ cached' = [f \in DOMAIN kept |-> [project |-> project, document |-> kept[f]]]
        /\ memory' = MemoryFor(project)
        /\ build' = [pc |-> "transform", at |-> 1, failed |-> FALSE,
                     project |-> project, text |-> text, groups |-> groups,
                     pending |-> {f \in changing : ~known(kept[f])},
                     finals |-> finals, sets |-> <<>>, plans |-> <<>>]
        /\ UNCHANGED <<env, writer, output, calm>>
    BY DEF Validate
  <1>2. DOMAIN kept = {f \in Files : text[f] # None}
        /\ \A f \in DOMAIN kept : /\ IsDocument(kept[f]) /\ kept[f].file = f
                                  /\ kept[f].data = text[f] /\ kept[f].valid = text[f]
                                  /\ kept[f].with = None
    BY DocumentFacts DEF Documents
  <1> HIDE DEF kept
  <1>3. Read' = kept
    <2>1. kept = [f \in DOMAIN kept |-> kept[f]]
      BY DEF kept, Documents
    <2>2. Read' = [f \in DOMAIN kept |-> kept[f]]
      BY <1>1 DEF Read
    <2>3. QED
      BY <2>1, <2>2
  <1>4. EnvOk'
    BY <1>1 DEF Inv, EnvOk, env
  <1>5. CachedOk'
    BY <1>1, <1>2 DEF CachedOk
  <1>6. /\ MemoryOk' /\ memory'.project = project
        /\ \/ memory' = memory
           \/ \A t \in Targets : DOMAIN memory'.targets[t].files = {}
    BY <1>1, NewMemoryFacts DEF MemoryFor, Inv, MemoryOk
  <1>7. WrittenOk'
    <2>1. WrittenOk /\ UNCHANGED <<writer, output>>
      BY <1>1 DEF Inv
    <2>2. CASE memory' = memory
      BY <2>1, <2>2, WrittenFrame
    <2>3. CASE \A t \in Targets : DOMAIN memory'.targets[t].files = {}
      BY <2>1, <2>3 DEF WrittenOk, IsWritten
    <2>4. QED
      BY <1>6, <2>2, <2>3
  <1> HIDE DEF finals, changing, groups, known
  <1>8. /\ build'.pc = "transform" /\ build'.at = 1 /\ build'.project = project
        /\ build'.text = text /\ build'.groups = groups /\ build'.finals = finals
        /\ build'.pending = {f \in changing : ~known(kept[f])}
    BY <1>1
  <1>9. Taken' = Now' /\ Now' = Now
    BY <1>1, <1>8 DEF Taken, Now, env
  <1>10. CalmOk'
    BY <1>1, <1>9 DEF Inv, CalmOk
  <1>11. ReadOk'
    <2>1. build' = [pc |-> build'.pc, at |-> build'.at, failed |-> build'.failed,
                    project |-> build'.project, text |-> build'.text,
                    groups |-> build'.groups, pending |-> build'.pending,
                    finals |-> build'.finals, sets |-> build'.sets, plans |-> build'.plans]
      BY <1>1
    <2>2. AreRead(Taken', Read')
      <3>1. Taken'.text = text
        BY <1>8 DEF Taken
      <3>2. QED
        BY <1>2, <1>3, <3>1 DEF AreRead
    <2>3. build'.at \in DOMAIN TargetOrder
      BY <1>8, OrderFacts
    <2>4. build'.project \in Projects /\ build'.text \in [Files -> Texts \cup {None}]
      BY <1>8 DEF Inv, EnvOk
    <2>5. build'.groups = GroupBySource(Read')
      BY <1>3, <1>8 DEF groups
    <2>6. QED
      BY <1>6, <1>8, <2>1, <2>2, <2>3, <2>4, <2>5 DEF ReadOk
  <1>12. TransformsOk'
    <2>1. DOMAIN kept \subseteq Files
      BY <1>2
    <2>2. \A f \in Documented(groups) :
             f \in DOMAIN kept /\ groups[SourceOf[f]][f] = kept[f] /\ SourceOf[f] \in Names
      BY <2>1, DocumentedFacts DEF groups
    <2>3. changing = {f \in Documented(groups) : HasTransform(project, SourceOf[f])}
      BY <2>1, <2>2 DEF changing, Documented
    <2>4. DOMAIN finals = DOMAIN kept /\ DOMAIN cached' = DOMAIN kept
      BY <1>1 DEF finals
    <2>5. ASSUME NEW f \in Documented(groups), ~(f \in changing /\ ~known(kept[f]))
          PROVE  IsFinal(project, groups, f, finals[f])
      <3>1. f \in DOMAIN kept /\ groups[SourceOf[f]][f] = kept[f] /\ SourceOf[f] \in Names
            /\ f \in DOMAIN groups[SourceOf[f]]
        BY <2>2 DEF Documented
      <3>2. kept[f].file = f /\ IsDocument(kept[f])
        BY <1>2, <3>1
      <3>3. CASE f \in changing
        <4>1. known(kept[f]) /\ HasTransform(project, SourceOf[f])
          BY <2>3, <2>5, <3>3
        <4> DEFINE record == memory.transforms[f]
        <4>2. finals[f] = record.final
          BY <3>1, <3>3, <4>1 DEF finals
        <4>3. /\ f \in DOMAIN memory.transforms /\ record.of = kept[f]
              /\ \A s \in DOMAIN record.reads : record.reads[s] = groups[s]
          BY <3>2, <4>1 DEF known, IsCurrent
        <4>4. IsTransform(project, record)
          BY <4>1, <4>3 DEF known, Inv, MemoryOk, IsMemory
        <4> HIDE DEF record
        <4>5. record.final.data = TransformOf(project, kept[f], groups)
          BY <4>3, <4>4, ReadsMakeTheTransform DEF IsTransform
        <4>6. TransformData(project, groups)[SourceOf[f]][f]
                 = TransformOf(project, kept[f], groups)
          BY <3>1, <4>1 DEF TransformData
        <4>7. QED
          BY <3>1, <4>2, <4>3, <4>4, <4>5, <4>6 DEF IsFinal, IsTransform
      <3>4. CASE f \notin changing
        <4>1. ~HasTransform(project, SourceOf[f])
          BY <2>3, <3>4
        <4>2. finals[f] = kept[f]
          BY <3>1, <3>4 DEF finals
        <4>3. TransformData(project, groups)[SourceOf[f]][f] = kept[f].data
          BY <3>1, <4>1 DEF TransformData
        <4>4. QED
          BY <3>1, <3>2, <4>2, <4>3 DEF IsFinal, SameSource
      <3>5. QED
        BY <3>3, <3>4
    <2>6. QED
      BY <1>8, <2>3, <2>4, <2>5 DEF TransformsOk
  <1>13. Running' => BuildOk'
    BY <1>8, <1>11, <1>12 DEF BuildOk
  <1>14. QED
    BY <1>4, <1>5, <1>6, <1>7, <1>10, <1>13 DEF Inv

LEMMA RunningFacts ==
    ASSUME Inv, Running
    PROVE  /\ BuildOk /\ ReadOk /\ memory.project = build.project
           /\ Taken.project = build.project
  BY DEF Inv, BuildOk, ReadOk, Taken

LEMMA TransformDocumentInv ==
    ASSUME Inv, NEW f \in Files, TransformDocument(f)
    PROVE  Inv'
  <1> DEFINE c == build.project
             groups == build.groups
             d == cached[f].document
             data == TransformOf(c, d, groups)
             final == Final(d, data)
             reads == [s \in TransformReads(c, d.data) |-> groups[s]]
             record == [of |-> d, final |-> final, reads |-> reads]
  <1>1. /\ build.pc = "transform" /\ f \in build.pending
        /\ memory' = [memory EXCEPT !.transforms = Put(@, f, record)]
        /\ build' = [build EXCEPT !.pending = @ \ {f}, !.finals[f] = final]
        /\ UNCHANGED <<env, cached, writer, output, calm>>
    BY DEF TransformDocument, Turn
  <1>2. Running /\ BuildOk /\ ReadOk /\ TransformsOk
    BY <1>1, RunningFacts DEF Running, BuildOk
  <1>3. /\ f \in Documented(groups) /\ HasTransform(c, SourceOf[f])
        /\ f \in DOMAIN cached /\ groups[SourceOf[f]][f] = d /\ SourceOf[f] \in Names
        /\ f \in DOMAIN groups[SourceOf[f]]
    <2>1. f \in Documented(groups) /\ HasTransform(c, SourceOf[f])
      BY <1>1, <1>2 DEF TransformsOk
    <2>2. groups = GroupBySource(Read) /\ DOMAIN Read = DOMAIN cached
          /\ DOMAIN Read \subseteq Files
      BY <1>2 DEF ReadOk, Read, AreRead
    <2>3. f \in DOMAIN Read /\ groups[SourceOf[f]][f] = Read[f] /\ SourceOf[f] \in Names
      BY <2>1, <2>2, DocumentedFacts
    <2>4. QED
      BY <2>1, <2>2, <2>3 DEF Read, Documented
  <1>4. IsDocument(d) /\ d.file = f
    BY <1>3 DEF Inv, CachedOk
  <1>5. IsDocument(final) /\ SameSource(final, d) /\ final.data = data
    <2>1. CASE data = None
      <3>1. final = [d EXCEPT !.data = None]
        BY <2>1 DEF Final
      <3> HIDE DEF final, data, d
      <3>2. QED
        BY <1>4, <2>1, <3>1 DEF IsDocument, SameSource
    <2>2. CASE /\ data # None
               /\ d.file \in DOMAIN memory.transforms
               /\ memory.transforms[d.file].of = d
               /\ memory.transforms[d.file].final.data = data
      <3>1. final = memory.transforms[d.file].final
        BY <2>2 DEF Final
      <3>2. IsTransform(memory.project, memory.transforms[d.file])
        BY <2>2 DEF Inv, MemoryOk, IsMemory
      <3>3. QED
        BY <2>2, <3>1, <3>2 DEF IsTransform
    <2>3. CASE /\ data # None
               /\ ~(/\ d.file \in DOMAIN memory.transforms
                    /\ memory.transforms[d.file].of = d
                    /\ memory.transforms[d.file].final.data = data)
      <3>1. final = [d EXCEPT !.data = data, !.n = made[d.file] + 1]
        BY <2>3 DEF Final
      <3> HIDE DEF final, data, d
      <3>2. QED
        BY <1>4, <3>1 DEF IsDocument, SameSource
    <2>4. QED
      BY <2>1, <2>2, <2>3
  <1>6. DOMAIN reads = TransformReads(c, d.data) /\ TransformOf(c, d, reads) = data
    BY ReadsMakeTheTransform
  <1> HIDE DEF final, data, reads, d
  <1>7. record.of = d /\ record.final = final /\ record.reads = reads
    OBVIOUS
  <1> HIDE DEF record
  <1>8. IsTransform(c, record)
    BY <1>5, <1>6, <1>7 DEF IsTransform
  <1>9. /\ memory' = [project |-> memory.project, transforms |-> Put(memory.transforms, f, record),
                      prepared |-> memory.prepared, targets |-> memory.targets]
        /\ memory.project = c
    <2>1. memory = [project |-> memory.project, transforms |-> memory.transforms,
                    prepared |-> memory.prepared, targets |-> memory.targets]
      BY DEF Inv, MemoryOk, IsMemory
    <2>2. QED
      BY <1>1, <1>2, <2>1 DEF ReadOk
  <1>10. MemoryOk' /\ memory'.targets = memory.targets
    <2>1. \A g \in DOMAIN Put(memory.transforms, f, record) :
             IsTransform(c, Put(memory.transforms, f, record)[g])
      BY <1>8, <1>9 DEF Put, Inv, MemoryOk, IsMemory
    <2>2. IsMemory(memory')
      BY <1>9, <2>1 DEF Inv, MemoryOk, IsMemory
    <2>3. QED
      BY <1>9, <2>2 DEF MemoryOk
  <1>11. WrittenOk'
    BY <1>1, <1>10 DEF Inv, WrittenOk
  <1>12. /\ build' = [pc |-> build.pc, at |-> build.at, failed |-> build.failed,
                      project |-> build.project, text |-> build.text,
                      groups |-> build.groups, pending |-> build.pending \ {f},
                      finals |-> [build.finals EXCEPT ![f] = final],
                      sets |-> build.sets, plans |-> build.plans]
    BY <1>1, <1>2 DEF ReadOk
  <1>13. Taken' = Taken /\ Now' = Now /\ Read' = Read
    BY <1>1, <1>12 DEF Taken, Now, env, Read
  <1>14. EnvOk' /\ CachedOk' /\ CalmOk'
    BY <1>1, <1>2, <1>13 DEF Inv, EnvOk, env, CachedOk, CalmOk
  <1>15. ReadOk'
    BY <1>2, <1>9, <1>12, <1>13 DEF ReadOk
  <1>16. TransformsOk'
    <2>1. f \in DOMAIN build.finals
      BY <1>2, <1>3 DEF TransformsOk
    <2>2. IsFinal(c, groups, f, final)
      <3>1. TransformData(c, groups)[SourceOf[f]][f] = data
        BY <1>3 DEF TransformData, data
      <3>2. QED
        BY <1>3, <1>5, <3>1 DEF IsFinal
    <2>3. /\ build'.at = build.at /\ build'.groups = groups /\ build'.project = c
          /\ build'.pending = build.pending \ {f} /\ build'.failed = build.failed
          /\ build'.finals = [build.finals EXCEPT ![f] = final]
      BY <1>12
    <2>4. DOMAIN cached' = DOMAIN cached /\ DOMAIN build'.finals = DOMAIN build.finals
      BY <1>1, <2>3
    <2>5. ASSUME NEW g \in Documented(groups) \ (build.pending \ {f}), ~build.failed
          PROVE  IsFinal(c, groups, g, build'.finals[g])
      <3>1. CASE g = f
        BY <2>1, <2>2, <2>3, <3>1
      <3>2. CASE g # f
        BY <1>2, <2>3, <2>5, <3>2 DEF TransformsOk
      <3>3. QED
        BY <3>1, <3>2
    <2>6. QED
      BY <1>2, <2>3, <2>4, <2>5 DEF TransformsOk
  <1>17. build'.pc = "transform"
    BY <1>1, <1>12
  <1>18. QED
    BY <1>10, <1>11, <1>14, <1>15, <1>16, <1>17 DEF Inv, BuildOk

LEMMA TransformFailsInv ==
    ASSUME Inv, NEW f \in Files, TransformFails(f)
    PROVE  Inv'
  <1>1. /\ build.pc = "transform"
        /\ build' = [build EXCEPT !.pending = @ \ {f}, !.failed = TRUE]
        /\ UNCHANGED <<project, text, made, cached, memory, calm, writer, output>>
    BY DEF TransformFails, Turn
  <1>2. Running /\ BuildOk /\ ReadOk /\ TransformsOk
    BY <1>1, RunningFacts DEF Running, BuildOk
  <1>3. build' = [pc |-> build.pc, at |-> build.at, failed |-> TRUE,
                  project |-> build.project, text |-> build.text,
                  groups |-> build.groups, pending |-> build.pending \ {f},
                  finals |-> build.finals, sets |-> build.sets, plans |-> build.plans]
    BY <1>1, <1>2 DEF ReadOk
  <1>4. Taken' = Taken /\ Now' = Now /\ Read' = Read
    BY <1>1, <1>3 DEF Taken, Now, Read
  <1>5. EnvOk' /\ CachedOk' /\ MemoryOk' /\ CalmOk'
    BY <1>1, <1>2, <1>4 DEF Inv, EnvOk, CachedOk, MemoryOk, CalmOk
  <1>6. WrittenOk'
    BY <1>1, WrittenFrame DEF Inv
  <1>7. ReadOk'
    BY <1>1, <1>2, <1>3, <1>4 DEF ReadOk
  <1>8. TransformsOk'
    <2>1. /\ build'.at = build.at /\ build'.groups = build.groups /\ build'.failed
          /\ build'.project = build.project /\ build'.pending = build.pending \ {f}
          /\ build'.finals = build.finals
      BY <1>3
    <2>2. QED
      BY <1>1, <1>2, <2>1 DEF TransformsOk
  <1>9. build'.pc = "transform"
    BY <1>1, <1>3
  <1>10. QED
    BY <1>5, <1>6, <1>7, <1>8, <1>9 DEF Inv, BuildOk

-----------------------------------------------------------------------------
(* The hook and the scopes.                                                *)

\* After the transforms, the documents that are left have their data.
LEMMA AfterTransformsFacts ==
    ASSUME Inv, build.pc = "transform", build.pending = {}, ~build.failed
    PROVE  LET groups == GroupBySource(Read)
           IN  IsWithData(AfterTransforms, groups, TransformData(build.project, groups))
  <1> DEFINE c == build.project
             groups == build.groups
             data == TransformData(c, groups)
             given == AfterTransforms
  <1>1. BuildOk /\ ReadOk /\ TransformsOk
    BY RunningFacts DEF Running, BuildOk
  <1>2. groups = GroupBySource(Read) /\ AreGroups(groups)
    BY <1>1, ReadFacts DEF ReadOk
  <1>3. \A s \in Names : \A f \in DOMAIN groups[s] :
           f \in Documented(groups) /\ SourceOf[f] = s /\ groups[s][f].file = f
    BY <1>2 DEF AreGroups, IsGroup, Documented
  <1>4. \A f \in Documented(groups) : IsFinal(c, groups, f, build.finals[f])
    BY <1>1 DEF TransformsOk
  <1>5. given = [s \in Names |-> given[s]]
    BY DEF AfterTransforms
  <1>6. \A s \in Names : \A f \in DOMAIN groups[s] :
           build.finals[f].data = data[s][f]
    BY <1>3, <1>4 DEF IsFinal
  <1>7. \A s \in Names :
           given[s] = [f \in {f \in DOMAIN groups[s] : build.finals[f].data # None} |->
                          build.finals[f]]
    BY DEF AfterTransforms
  <1> HIDE DEF given, data, groups
  <1>8. ASSUME NEW s \in Names
        PROVE  /\ given[s] = [f \in DOMAIN given[s] |-> given[s][f]]
               /\ DOMAIN given[s] = {f \in DOMAIN groups[s] : data[s][f] # None}
               /\ \A f \in DOMAIN given[s] : given[s][f] = build.finals[f]
    BY <1>6, <1>7
  <1>9. ASSUME NEW s \in Names, NEW f \in DOMAIN given[s]
        PROVE  /\ IsDocument(given[s][f])
               /\ given[s][f].file = groups[s][f].file
               /\ given[s][f].valid = groups[s][f].valid
               /\ given[s][f].with = groups[s][f].with
               /\ given[s][f].data = data[s][f]
    <2>1. f \in DOMAIN groups[s] /\ given[s][f] = build.finals[f]
      BY <1>8
    <2>2. f \in Documented(groups) /\ SourceOf[f] = s
      BY <1>3, <2>1
    <2>3. IsFinal(c, groups, f, build.finals[f])
      BY <1>4, <2>2
    <2>4. build.finals[f].data = data[s][f]
      BY <1>6, <2>1
    <2>5. QED
      BY <2>1, <2>2, <2>3, <2>4 DEF IsFinal, SameSource
  <1>10. IsWithData(given, groups, data)
    BY <1>5, <1>8, <1>9 DEF IsWithData
  <1>11. QED
    BY <1>2, <1>10 DEF given, data

LEMMA PreparedFacts ==
    ASSUME Inv, NEW d, IsDocument(d), NEW data
    PROVE  /\ IsDocument(PreparedDocument(d, data))
           /\ SameSource(PreparedDocument(d, data), d)
           /\ PreparedDocument(d, data).data = data
  <1> DEFINE known == memory.prepared[d.file]
  <1>1. CASE /\ d.file \in DOMAIN memory.prepared
             /\ known.of = d /\ known.document.data = data
    <2>1. PreparedDocument(d, data) = known.document
      BY <1>1 DEF PreparedDocument
    <2>2. IsHooked(known)
      BY <1>1 DEF Inv, MemoryOk, IsMemory
    <2>3. QED
      BY <1>1, <2>1, <2>2 DEF IsHooked
  <1>2. CASE /\ ~(/\ d.file \in DOMAIN memory.prepared
                  /\ known.of = d /\ known.document.data = data)
             /\ d.data = data
    <2>1. PreparedDocument(d, data) = d
      BY <1>2 DEF PreparedDocument
    <2>2. QED
      BY <1>2, <2>1 DEF SameSource
  <1>3. CASE /\ ~(/\ d.file \in DOMAIN memory.prepared
                  /\ known.of = d /\ known.document.data = data)
             /\ d.data # data
    <2>1. PreparedDocument(d, data) = [d EXCEPT !.data = data, !.n = made[d.file] + 1]
      BY <1>3 DEF PreparedDocument
    <2>2. QED
      BY <2>1 DEF IsDocument, SameSource
  <1>4. QED
    BY <1>1, <1>2, <1>3

LEMMA GoodScopes ==
    ASSUME NEW b, NEW t, Fresh!Good(b, t)
    PROVE  ScopeGood(b.project, t, Fresh!Left(b))
  BY SameScopes DEF Fresh!Good

LEMMA PrepareInv ==
    ASSUME Inv, Prepare
    PROVE  Inv'
  <1> DEFINE c == build.project
             given == AfterTransforms
             data(s, f) == PreparedData(c, given[s][f], given)
             after == [s \in Names |->
                 [f \in {f \in DOMAIN given[s] : data(s, f) # None} |->
                     PreparedDocument(given[s][f], data(s, f))]]
             changed == {f \in Files : /\ f \in DOMAIN after[SourceOf[f]]
                                       /\ after[SourceOf[f]][f] # given[SourceOf[f]][f]}
             prepared == [f \in DOMAIN memory.prepared \cup changed |->
                             IF f \in changed
                             THEN [of |-> given[SourceOf[f]][f],
                                   document |-> after[SourceOf[f]][f]]
                             ELSE memory.prepared[f]]
             good == \A t \in Targets : ScopeGood(c, t, after)
  <1>1. /\ build.pc = "transform" /\ build.pending = {} /\ ~build.failed
        /\ memory' = [memory EXCEPT !.prepared = prepared]
        /\ build' = [build EXCEPT
              !.pc = IF good THEN "link" ELSE "refused",
              !.sets = [t \in Targets |-> ScopeSources(c, t, after)]]
        /\ UNCHANGED <<env, cached, writer, output, calm>>
    BY DEF Prepare
  <1>2. Running /\ BuildOk /\ ReadOk /\ TransformsOk
    BY <1>1, RunningFacts DEF Running, BuildOk
  <1>3. IsWithData(given, GroupBySource(Read), TransformData(c, GroupBySource(Read)))
    BY <1>1, AfterTransformsFacts
  <1> HIDE DEF given
  <1>4. AreRead(Taken, Read) /\ Taken.project = c
    BY <1>2 DEF ReadOk, Taken
  <1>5. AreGroups(given)
    <2>1. AreGroups(GroupBySource(Read))
      BY <1>4, ReadFacts
    <2>2. QED
      BY <1>3, <2>1, IsWithDataFacts
  <1>6. IsWithData(after, given, HookData(c, given))
    <2> DEFINE hook == HookData(c, given)
    <2>1. \A s \in Names : \A f \in DOMAIN given[s] :
             hook[s][f] = data(s, f) /\ IsDocument(given[s][f])
      BY <1>5 DEF HookData, AreGroups, IsGroup
    <2>2. after = [s \in Names |-> after[s]]
      OBVIOUS
    <2>3. \A s \in Names :
             after[s] = [f \in {f \in DOMAIN given[s] : data(s, f) # None} |->
                            PreparedDocument(given[s][f], data(s, f))]
      OBVIOUS
    <2> HIDE DEF after, hook, data
    <2>4. ASSUME NEW s \in Names
          PROVE  /\ after[s] = [f \in DOMAIN after[s] |-> after[s][f]]
                 /\ DOMAIN after[s] = {f \in DOMAIN given[s] : hook[s][f] # None}
                 /\ \A f \in DOMAIN after[s] :
                       after[s][f] = PreparedDocument(given[s][f], hook[s][f])
      <3> DEFINE has == {f \in DOMAIN given[s] : data(s, f) # None}
      <3>1. has = {f \in DOMAIN given[s] : hook[s][f] # None}
        BY <2>1
      <3>2. after[s] = [f \in has |-> PreparedDocument(given[s][f], data(s, f))]
        BY <2>3
      <3>3. has \subseteq DOMAIN given[s]
        OBVIOUS
      <3> HIDE DEF has
      <3>4. DOMAIN after[s] = has
        BY <3>2
      <3>5. \A f \in has : after[s][f] = PreparedDocument(given[s][f], hook[s][f])
        BY <2>1, <3>2, <3>3
      <3>6. after[s] = [f \in DOMAIN after[s] |-> after[s][f]]
        BY <3>2, <3>4
      <3>7. QED
        BY <3>1, <3>4, <3>5, <3>6
    <2>5. ASSUME NEW s \in Names, NEW f \in DOMAIN after[s]
          PROVE  /\ IsDocument(after[s][f])
                 /\ after[s][f].file = given[s][f].file
                 /\ after[s][f].valid = given[s][f].valid
                 /\ after[s][f].with = given[s][f].with
                 /\ after[s][f].data = hook[s][f]
      <3>1. f \in DOMAIN given[s] /\ after[s][f] = PreparedDocument(given[s][f], hook[s][f])
        BY <2>4
      <3>2. IsDocument(given[s][f])
        BY <2>1, <3>1
      <3> DEFINE d == PreparedDocument(given[s][f], hook[s][f])
      <3>3. IsDocument(d) /\ SameSource(d, given[s][f]) /\ d.data = hook[s][f]
        BY <3>2, PreparedFacts
      <3> HIDE DEF d
      <3>4. QED
        BY <3>1, <3>3 DEF SameSource, d
    <2>6. QED
      BY <2>2, <2>4, <2>5 DEF IsWithData, hook
  <1> HIDE DEF after, data
  <1>7. AreGroups(after) /\ Alike(after, Fresh!Left(Taken))
    BY <1>3, <1>4, <1>6, LeftFacts
  <1>8. \A t \in Targets :
           /\ IsSet(Taken, t, ScopeSources(c, t, after))
           /\ ScopeGood(c, t, after) = ScopeGood(c, t, Fresh!Left(Taken))
    BY <1>4, <1>7, SetFacts
  <1>9. \A f \in DOMAIN prepared : IsHooked(prepared[f])
    <2>1. ASSUME NEW f \in changed PROVE IsHooked(prepared[f])
      <3>1. f \in DOMAIN after[SourceOf[f]] /\ SourceOf[f] \in Names
        BY Shape
      <3>2. prepared[f].of = given[SourceOf[f]][f]
            /\ prepared[f].document = after[SourceOf[f]][f]
        OBVIOUS
      <3> HIDE DEF prepared
      <3>3. QED
        BY <1>6, <3>1, <3>2 DEF IsHooked, IsWithData, SameSource
    <2>2. \A f \in DOMAIN memory.prepared : IsHooked(memory.prepared[f])
      BY DEF Inv, MemoryOk, IsMemory
    <2>3. QED
      BY <2>1, <2>2
  <1> HIDE DEF prepared, changed, good
  <1>10. memory' = [project |-> memory.project, transforms |-> memory.transforms,
                    prepared |-> prepared, targets |-> memory.targets]
    <2>1. memory = [project |-> memory.project, transforms |-> memory.transforms,
                    prepared |-> memory.prepared, targets |-> memory.targets]
      BY DEF Inv, MemoryOk, IsMemory
    <2>2. QED
      BY <1>1, <2>1
  <1>11. MemoryOk' /\ memory'.targets = memory.targets /\ memory'.project = memory.project
    BY <1>9, <1>10 DEF Inv, MemoryOk, IsMemory
  <1>12. WrittenOk'
    BY <1>1, <1>11 DEF Inv, WrittenOk
  <1>13. build' = [pc |-> IF good THEN "link" ELSE "refused", at |-> build.at,
                   failed |-> build.failed,
                   project |-> build.project, text |-> build.text,
                   groups |-> build.groups, pending |-> build.pending,
                   finals |-> build.finals,
                   sets |-> [t \in Targets |-> ScopeSources(c, t, after)],
                   plans |-> build.plans]
    BY <1>1, <1>2 DEF ReadOk
  <1>14. Taken' = Taken /\ Now' = Now /\ Read' = Read
    BY <1>1, <1>13 DEF Taken, Now, env, Read
  <1>15. EnvOk' /\ CachedOk' /\ CalmOk'
    BY <1>1, <1>2, <1>14 DEF Inv, EnvOk, env, CachedOk, CalmOk
  <1>16. ReadOk'
    BY <1>2, <1>11, <1>13, <1>14 DEF ReadOk
  <1>17. CASE good
    <2>1. build'.pc = "link" /\ build'.at = 1 /\ build'.project = c
          /\ build'.sets = [t \in Targets |-> ScopeSources(c, t, after)]
      BY <1>2, <1>13, <1>17 DEF TransformsOk
    <2>2. \A t \in Targets : ScopeGood(c, t, Fresh!Left(Taken))
      BY <1>8, <1>17 DEF good
    <2>3. \A t \in Targets : IsSet(Taken, t, build'.sets[t])
      BY <1>8, <2>1
    <2>4. SetsOk(build.at)'
      BY <1>14, <2>1, <2>2, <2>3, OrderFacts DEF SetsOk
    <2>5. PlansOk(build.at - 1)'
      BY <2>1, OrderFacts DEF PlansOk
    <2>6. BuildOk'
      BY <1>16, <2>1, <2>4, <2>5 DEF BuildOk
    <2>7. QED
      BY <1>11, <1>12, <1>15, <2>6 DEF Inv
  <1>18. CASE ~good
    <2>1. build'.pc = "refused"
      BY <1>13, <1>18
    <2>2. \E t \in Targets : ~Fresh!Good(Taken, t)
      BY <1>4, <1>8, <1>18, GoodScopes DEF good
    <2>3. BuildOk'
      BY <1>14, <1>16, <2>1, <2>2 DEF BuildOk
    <2>4. QED
      BY <1>11, <1>12, <1>15, <2>3 DEF Inv
  <1>19. QED
    BY <1>17, <1>18

-----------------------------------------------------------------------------
(* References, uniqueness and views of a target.                           *)

LEMMA TargetFacts ==
    ASSUME ReadOk
    PROVE  /\ Target \in Targets /\ Target = TargetOrder[build.at]
           /\ build.at \in 1..Len(TargetOrder)
           /\ \A i \in DOMAIN TargetOrder : i # build.at => TargetOrder[i] # Target
  BY OrderFacts DEF ReadOk, Target

\* The memory of one target is put, and that of the others is left.
LEMMA PutTarget ==
    ASSUME MemoryOk, NEW t \in Targets, NEW m, IsRemembered(memory.project, m),
           memory' = [memory EXCEPT !.targets[t] = m]
    PROVE  /\ MemoryOk' /\ memory'.project = memory.project
           /\ memory'.targets[t] = m
           /\ \A u \in Targets : u # t => memory'.targets[u] = memory.targets[u]
  <1>1. memory' = [project |-> memory.project, transforms |-> memory.transforms,
                   prepared |-> memory.prepared,
                   targets |-> [memory.targets EXCEPT ![t] = m]]
    BY DEF MemoryOk, IsMemory
  <1>2. /\ memory'.targets[t] = m
        /\ \A u \in Targets : u # t => memory'.targets[u] = memory.targets[u]
    BY <1>1 DEF MemoryOk, IsMemory
  <1>3. IsMemory(memory')
    BY <1>1, <1>2 DEF MemoryOk, IsMemory
  <1>4. QED
    BY <1>1, <1>2, <1>3 DEF MemoryOk

LEMMA DeriveFacts ==
    ASSUME Inv, Running, NEW v \in Views, NEW groups, AreGroups(groups)
    PROVE  Derive(v, groups) = Derived(build.project, v, groups)
  <1>1. ReadOk /\ memory.project = build.project /\ Target \in Targets
    BY RunningFacts, TargetFacts
  <1>2. CASE CachesViews(build.project, v) /\ SameInputs(v, groups)
    <2>1. /\ v \in DOMAIN Remembered.derived
          /\ \A s \in DOMAIN Remembered.derived[v].inputs :
                Remembered.derived[v].inputs[s] = groups[s]
      BY <1>2 DEF SameInputs
    <2>2. IsDerived(build.project, v, Remembered.derived[v])
      BY <1>1, <2>1 DEF Inv, MemoryOk, IsMemory, IsRemembered, Remembered
    <2>3. Remembered.derived[v] = Derived(build.project, v, groups)
      BY <2>1, <2>2, DerivedAgain
    <2>4. QED
      BY <1>2, <2>3 DEF Derive
  <1>3. CASE ~(CachesViews(build.project, v) /\ SameInputs(v, groups))
    BY <1>3 DEF Derive, Derived
  <1>4. QED
    BY <1>2, <1>3

LEMMA LinkTargetInv ==
    ASSUME Inv, LinkTarget
    PROVE  Inv'
  <1> DEFINE c == build.project
             t == Target
             old == Remembered
             linked == LinkAll(build.sets[t])
             groups == linked.groups
             passes == linked.groups \in old.passed \/ NoConflict(linked.groups)
             good == linked.good /\ passes
             derived == [v \in Views |-> Derive(v, linked.groups)]
             shown == {v \in Views : ViewGood(derived[v].rows)}
             views == IF good THEN [v \in DOMAIN old.derived \cup shown |->
                                       IF v \in shown THEN derived[v] ELSE old.derived[v]]
                      ELSE old.derived
             passed == IF passes THEN {linked.groups} ELSE {}
             m == [old EXCEPT !.groups = linked.known, !.passed = passed, !.derived = views]
             pc == IF good /\ shown = Views THEN "plan" ELSE "refused"
  <1>1. /\ build.pc = "link"
        /\ memory' = [memory EXCEPT !.targets[t] = m]
        /\ build' = [build EXCEPT !.sets[t] = groups, !.pc = pc]
        /\ UNCHANGED <<env, cached, writer, output, calm>>
    BY DEF LinkTarget
  <1>2. /\ Running /\ BuildOk /\ ReadOk /\ SetsOk(build.at) /\ PlansOk(build.at - 1)
        /\ memory.project = c /\ Taken.project = c
    BY <1>1, RunningFacts DEF Running, BuildOk
  <1>3. /\ t \in Targets /\ t = TargetOrder[build.at] /\ build.at \in 1..Len(TargetOrder)
        /\ \A i \in DOMAIN TargetOrder : i # build.at => TargetOrder[i] # t
    BY <1>2, TargetFacts
  <1>4. IsRemembered(c, old) /\ old = memory.targets[t]
    BY <1>2, <1>3 DEF Inv, MemoryOk, IsMemory, Remembered
  <1>5. IsSet(Taken, t, build.sets[t])
    <2>1. build.at \in DOMAIN TargetOrder /\ build.at >= build.at
      BY <1>3, OrderFacts
    <2> HIDE DEF t
    <2>2. QED
      BY <1>2, <1>3, <2>1 DEF SetsOk
  <1>6. /\ groups = Fresh!Link(build.sets[t]).groups
        /\ linked.good = Fresh!Link(build.sets[t]).good
        /\ IsKnown(linked.known)
    <2>1. AreGroups(build.sets[t])
      BY <1>5 DEF IsSet
    <2>2. IsKnown(Remembered.groups)
      BY <1>4 DEF IsRemembered
    <2>3. QED
      BY <2>1, <2>2, LinkAllFacts
  <1> HIDE DEF linked, t
  <1>7. /\ IsLinked(Taken, t, groups)
        /\ linked.good = Fresh!Link(FreshSet(Taken, t)).good
    BY <1>5, <1>6, SetLinks
  <1>8. AreGroups(groups)
    BY <1>7 DEF IsLinked
  <1>9. passes <=> NoConflict(groups)
    BY <1>4 DEF IsRemembered
  <1>10. \A v \in Views : derived[v] = Derived(c, v, groups)
    BY <1>2, <1>8, DeriveFacts
  <1>11. \A v \in Views : IsDerived(c, v, derived[v]) /\ derived[v].rows = RowsOf(c, v, groups)
    <2> HIDE DEF derived, groups
    <2>1. \A v \in Views : Derived(c, v, groups).rows = RowsOf(c, v, groups)
      BY DEF Derived
    <2>2. QED
      BY <1>8, <1>10, <2>1, DerivedFacts
  <1> HIDE DEF derived, groups, old
  <1>12. /\ m = [groups |-> linked.known, passed |-> passed, derived |-> views,
                 files |-> old.files, values |-> old.values, revision |-> old.revision]
    <2>1. old = [groups |-> old.groups, passed |-> old.passed, derived |-> old.derived,
                 files |-> old.files, values |-> old.values, revision |-> old.revision]
      BY <1>4 DEF IsRemembered
    <2> HIDE DEF views, passed, linked
    <2> DEFINE first == [old EXCEPT !.groups = linked.known]
               second == [first EXCEPT !.passed = passed]
    <2>2. m = [second EXCEPT !.derived = views]
      OBVIOUS
    <2>3. first = [groups |-> linked.known, passed |-> old.passed, derived |-> old.derived,
                   files |-> old.files, values |-> old.values, revision |-> old.revision]
      BY <2>1
    <2> HIDE DEF first
    <2>4. second = [groups |-> linked.known, passed |-> passed, derived |-> old.derived,
                    files |-> old.files, values |-> old.values, revision |-> old.revision]
      BY <2>3
    <2> HIDE DEF second, m
    <2>5. QED
      BY <2>2, <2>4
  <1>13. /\ m.groups = linked.known /\ m.passed = passed /\ m.derived = views
         /\ m.files = old.files /\ m.values = old.values /\ m.revision = old.revision
    BY <1>12
  <1>14. \A v \in DOMAIN views : /\ v \in Views
                                 /\ IsDerived(c, v, views[v])
                                 /\ ViewGood(views[v].rows)
    <2>1. \A v \in DOMAIN old.derived : /\ v \in Views
                                        /\ IsDerived(c, v, old.derived[v])
                                        /\ ViewGood(old.derived[v].rows)
      BY <1>4 DEF IsRemembered
    <2>2. CASE ~good
      BY <2>1, <2>2
    <2>3. CASE good
      <3>1. views = [v \in DOMAIN old.derived \cup shown |->
                        IF v \in shown THEN derived[v] ELSE old.derived[v]]
        BY <2>3
      <3>2. \A v \in shown : /\ v \in Views /\ IsDerived(c, v, derived[v])
                             /\ ViewGood(derived[v].rows)
        BY <1>11
      <3> HIDE DEF views, shown
      <3>3. QED
        BY <2>1, <3>1, <3>2
    <2>4. QED
      BY <2>2, <2>3
  <1>15. \A g \in passed : NoConflict(g)
    BY <1>9 DEF groups
  <1> HIDE DEF m
  <1>16. IsRemembered(c, m)
    <2> HIDE DEF views, passed
    <2>1. m = [groups |-> m.groups, passed |-> m.passed, derived |-> m.derived,
               files |-> m.files, values |-> m.values, revision |-> m.revision]
      BY <1>12, <1>13
    <2>2. /\ IsKnown(m.groups)
          /\ \A g \in m.passed : NoConflict(g)
          /\ \A v \in DOMAIN m.derived : /\ v \in Views
                                         /\ IsDerived(c, v, m.derived[v])
                                         /\ ViewGood(m.derived[v].rows)
      BY <1>6, <1>13, <1>14, <1>15
    <2>3. QED
      BY <1>4, <1>13, <2>1, <2>2 DEF IsRemembered
  <1>17. /\ MemoryOk' /\ memory'.project = memory.project /\ memory'.targets[t] = m
         /\ \A u \in Targets : u # t => memory'.targets[u] = memory.targets[u]
    <2>1. MemoryOk /\ IsRemembered(memory.project, m)
      BY <1>2, <1>16 DEF Inv
    <2>2. QED
      <3>1. memory' = [memory EXCEPT !.targets[t] = m]
        BY <1>1
      <3>2. t \in Targets
        BY <1>3
      <3>3. QED
        BY <2>1, <3>1, <3>2, PutTarget
  <1>18. WrittenOk'
    BY <1>1, <1>4, <1>13, <1>17 DEF Inv, WrittenOk, IsWritten
  <1>19. build' = [pc |-> pc, at |-> build.at, failed |-> build.failed,
                   project |-> build.project, text |-> build.text,
                   groups |-> build.groups, pending |-> build.pending,
                   finals |-> build.finals, sets |-> [build.sets EXCEPT ![t] = groups],
                   plans |-> build.plans]
    BY <1>1, <1>2 DEF ReadOk
  <1> HIDE DEF pc
  <1>20. /\ build'.pc = pc /\ build'.at = build.at /\ build'.project = c
         /\ build'.sets = [build.sets EXCEPT ![t] = groups] /\ build'.plans = build.plans
    BY <1>19
  <1>21. Taken' = Taken /\ Now' = Now /\ Read' = Read
    BY <1>1, <1>19 DEF Taken, Now, env, Read
  <1>22. EnvOk' /\ CachedOk' /\ CalmOk'
    BY <1>1, <1>2, <1>21 DEF Inv, EnvOk, env, CachedOk, CalmOk
  <1>23. ReadOk'
    <2>1. pc \in {"plan", "refused"}
      BY DEF pc
    <2>2. QED
      BY <1>2, <1>17, <1>19, <1>21, <2>1 DEF ReadOk
  <1>24. CASE good /\ shown = Views
    <2>1. build'.pc = "plan"
      BY <1>20, <1>24 DEF pc
    <2>2. SetsOk(build.at + 1)'
      <3>1. build.sets = [u \in Targets |-> build.sets[u]]
        BY <1>2 DEF SetsOk
      <3>2. build'.sets = [u \in Targets |-> build'.sets[u]]
            /\ \A u \in Targets : u # t => build'.sets[u] = build.sets[u]
        BY <1>20, <3>1
      <3>3. \A i \in DOMAIN TargetOrder : i >= build.at + 1 =>
               IsSet(Taken, TargetOrder[i], build'.sets[TargetOrder[i]])
        <4>1. ASSUME NEW i \in DOMAIN TargetOrder, i >= build.at + 1
              PROVE  i >= build.at /\ i # build.at
          BY <1>3, <4>1, OrderFacts
        <4>2. \A i \in DOMAIN TargetOrder :
                 i >= build.at => IsSet(Taken, TargetOrder[i], build.sets[TargetOrder[i]])
          BY <1>2 DEF SetsOk
        <4>3. QED
          BY <1>3, <3>2, <4>1, <4>2, OrderFacts
      <3>4. QED
        BY <1>2, <1>20, <1>21, <3>2, <3>3 DEF SetsOk
    <2>3. PlansOk(build.at - 1)'
      <3>1. \A i \in DOMAIN TargetOrder : i <= build.at - 1 =>
               memory'.targets[TargetOrder[i]] = memory.targets[TargetOrder[i]]
        BY <1>3, <1>17, OrderFacts
      <3>2. QED
        BY <1>2, <1>20, <1>21, <3>1 DEF PlansOk
    <2>4. LinkOk'
      <3>1. Target' = t
        BY <1>3, <1>20 DEF Target
      <3>2. build'.sets[t] = groups
        BY <1>2, <1>3, <1>20 DEF SetsOk
      <3>3. Remembered'.derived = views
        BY <1>13, <1>17, <3>1 DEF Remembered
      <3>4. \A v \in Views : v \in DOMAIN views /\ views[v] = derived[v]
        BY <1>24
      <3>5. NoConflict(groups) /\ Fresh!Link(FreshSet(Taken, t)).good
        BY <1>7, <1>9, <1>24
      <3>6. QED
        BY <1>7, <1>10, <1>20, <1>21, <3>1, <3>2, <3>3, <3>4, <3>5 DEF LinkOk
    <2>5. BuildOk'
      BY <1>20, <1>23, <2>1, <2>2, <2>3, <2>4 DEF BuildOk
    <2>6. QED
      BY <1>17, <1>18, <1>22, <2>5 DEF Inv
  <1>25. CASE ~(good /\ shown = Views)
    <2>1. build'.pc = "refused"
      BY <1>20, <1>25 DEF pc
    <2>2. ~Fresh!Good(Taken, t)
      <3>1. SUFFICES ASSUME Fresh!Good(Taken, t) PROVE FALSE
        OBVIOUS
      <3>2. /\ Fresh!Link(FreshSet(Taken, t)).good /\ NoConflict(groups)
            /\ \A v \in Views : ViewGood(RowsOf(c, v, groups))
        BY <1>2, <1>7, <3>1, LinkedIsGood
      <3>3. good
        BY <1>7, <1>9, <3>2
      <3>4. shown = Views
        BY <1>11, <3>2
      <3>5. QED
        BY <1>25, <3>3, <3>4
    <2>3. BuildOk'
      BY <1>3, <1>21, <1>23, <2>1, <2>2 DEF BuildOk
    <2>4. QED
      BY <1>17, <1>18, <1>22, <2>3 DEF Inv
  <1>26. QED
    BY <1>24, <1>25

-----------------------------------------------------------------------------
(* The plan of a target.                                                   *)

LEMMA DistinctFacts ==
    ASSUME NEW group
    PROVE  /\ Distinct(group) <=> Injective(LookupInputs(group))
           /\ Entries(group) = LookupInputs(group)
  BY DEF Distinct, Injective, LookupInputs, Entries

LEMMA PlannedFile ==
    ASSUME NEW c, NEW groups, AreGroups(groups), NEW derived,
           \A v \in Views : derived[v] = Derived(c, v, groups),
           NEW p \in PathsOf(groups)
    PROVE  PlanFile(c, groups, derived, [s \in Names |-> Entries(groups[s])], p)
             = FileOf(c, groups, p)
  <1>1. CASE p[1] = "view" /\ p[2] \in Views
    <2>1. derived[p[2]] = Derived(c, p[2], groups)
      BY <1>1
    <2>2. QED
      BY <1>1, <2>1 DEF FileOf, PlanFile
  <1>2. CASE p[1] # "view"
    BY <1>2 DEF FileOf, PlanFile
  <1>3. QED
    BY <1>1, <1>2, PathKinds

\* What is kept of a file is the text it has now.
LEMMA KeptFile ==
    ASSUME NEW files, NEW p, NEW file, file = File(file.inputs, TextOf(p, file.inputs)),
           p \in DOMAIN files => files[p] = File(files[p].inputs, TextOf(p, files[p].inputs))
    PROVE  KeptText(files, p, file) = file.text
  <1>1. \A x, y : File(x, y).text = y /\ File(x, y).inputs = x
    BY DEF File
  <1>2. file.text = TextOf(p, file.inputs)
    BY <1>1
  <1>3. CASE SameObjects(files, p, file.inputs)
    <2>1. files[p].inputs = file.inputs /\ p \in DOMAIN files
      BY <1>3 DEF SameObjects
    <2>2. files[p].text = TextOf(p, files[p].inputs)
      BY <1>1, <2>1
    <2>3. QED
      BY <1>2, <1>3, <2>1, <2>2 DEF KeptText
  <1>4. CASE ~SameObjects(files, p, file.inputs)
    BY <1>4 DEF KeptText
  <1>5. QED
    BY <1>3, <1>4

LEMMA NewRevisionFacts == NewRevision # writer[Target]
  <1> DEFINE a == Remembered.revision
             b == writer[Target]
  <1> HIDE DEF a, b
  <1>1. \E r \in 0..2 : r \notin {a, b}
    <2>1. \/ 0 \notin {a, b} \/ 1 \notin {a, b} \/ 2 \notin {a, b}
      OBVIOUS
    <2>2. 0 \in 0..2 /\ 1 \in 0..2 /\ 2 \in 0..2
      OBVIOUS
    <2>3. QED
      BY <2>1, <2>2
  <1>2. (CHOOSE r \in 0..2 : r \notin {a, b}) \notin {a, b}
    BY <1>1
  <1>3. NewRevision = CHOOSE r \in 0..2 : r \notin {a, b}
    BY DEF NewRevision, a, b
  <1>4. QED
    BY <1>2, <1>3 DEF b

\* The files of a plan are those of a build from nothing, by their hashes.
IsPlanOf(plan, b, t) ==
    /\ DOMAIN plan.files = DOMAIN Fresh!Output(b, t)
    /\ \A p \in DOMAIN plan.files : plan.files[p].hash = Fresh!Output(b, t)[p]

LEMMA PlanTargetInv ==
    ASSUME Inv, PlanTarget
    PROVE  Inv' /\ IsPlanOf(build'.plans[Target], Taken, Target)
  <1> DEFINE c == build.project
             t == Target
             groups == build.sets[t]
             old == Remembered
             tables == [s \in Names |-> File(LookupInputs(groups[s]), Entries(groups[s]))]
             entries == [s \in Names |-> KeptText(old.values, s, tables[s])]
             good == {s \in Names : \/ SameObjects(old.values, s, tables[s].inputs)
                                    \/ Distinct(groups[s])}
             paths == PathsOf(groups)
             file == [p \in paths |-> PlanFile(c, groups, old.derived, entries, p)]
             hash(p) == IF IsAnew(p) THEN file[p].text ELSE KeptText(old.files, p, file[p])
             changed == \/ DOMAIN old.files # paths
                        \/ \E p \in paths : IsAnew(p)
                        \/ \E p \in DOMAIN old.files : old.files[p].inputs # file[p].inputs
             revision == IF changed THEN NewRevision ELSE old.revision
             last == build.at = Len(TargetOrder)
             files == [p \in paths |-> File(file[p].inputs, hash(p))]
             values == [s \in DOMAIN old.values \cup good |->
                           IF s \in good THEN File(tables[s].inputs, entries[s])
                           ELSE old.values[s]]
             m == [old EXCEPT !.files = files, !.values = values, !.revision = revision]
             plan == [revision |-> revision,
                      files |-> [p \in paths |-> [hash |-> hash(p), text |-> file[p].text]]]
             at == IF last THEN 1 ELSE build.at + 1
             pc == IF good # Names THEN "refused" ELSE IF last THEN "publish" ELSE "link"
  <1>1. /\ build.pc = "plan"
        /\ memory' = [memory EXCEPT !.targets[t] = m]
        /\ build' = [build EXCEPT !.plans = Put(@, t, plan), !.at = at, !.pc = pc]
        /\ UNCHANGED <<env, cached, writer, output, calm>>
    BY DEF PlanTarget
  <1>2. /\ Running /\ BuildOk /\ ReadOk /\ SetsOk(build.at + 1) /\ PlansOk(build.at - 1)
        /\ LinkOk /\ memory.project = c /\ Taken.project = c
    BY <1>1, RunningFacts DEF Running, BuildOk
  <1>3. /\ t \in Targets /\ t = TargetOrder[build.at] /\ build.at \in 1..Len(TargetOrder)
        /\ \A i \in DOMAIN TargetOrder : i # build.at => TargetOrder[i] # t
    BY <1>2, TargetFacts
  <1>4. IsRemembered(c, old) /\ old = memory.targets[t]
    BY <1>2, <1>3 DEF Inv, MemoryOk, IsMemory, Remembered
  <1>5. /\ IsLinked(Taken, t, groups) /\ AreGroups(groups) /\ NoConflict(groups)
        /\ Fresh!Link(FreshSet(Taken, t)).good
        /\ \A v \in Views : v \in DOMAIN old.derived /\ old.derived[v] = Derived(c, v, groups)
    BY <1>2 DEF LinkOk, IsLinked
  <1> HIDE DEF t, groups, old
  <1>6. /\ \A v \in DOMAIN old.derived : ViewGood(old.derived[v].rows)
        /\ \A p \in DOMAIN old.files :
              old.files[p] = File(old.files[p].inputs, TextOf(p, old.files[p].inputs))
        /\ \A s \in DOMAIN old.values :
              /\ old.values[s] = File(old.values[s].inputs, old.values[s].inputs)
              /\ Injective(old.values[s].inputs)
    BY <1>4 DEF IsRemembered
  <1>7. \A x, y : File(x, y).inputs = x /\ File(x, y).text = y
    BY DEF File
  <1>8. \A s \in Names : /\ tables[s].inputs = LookupInputs(groups[s])
                         /\ tables[s].text = LookupInputs(groups[s])
                         /\ tables[s] = File(LookupInputs(groups[s]), LookupInputs(groups[s]))
    BY <1>7, DistinctFacts
  <1> HIDE DEF tables
  <1>9. ASSUME NEW s \in Names
        PROVE  /\ entries[s] = LookupInputs(groups[s])
               /\ s \in good => Injective(LookupInputs(groups[s]))
               /\ Distinct(groups[s]) => s \in good
    <2>1. CASE SameObjects(old.values, s, tables[s].inputs)
      <3>1. s \in DOMAIN old.values /\ old.values[s].inputs = LookupInputs(groups[s])
        BY <1>8, <2>1 DEF SameObjects
      <3>2. old.values[s].text = LookupInputs(groups[s])
        BY <1>6, <1>7, <3>1
      <3>3. Injective(LookupInputs(groups[s]))
        BY <1>6, <3>1
      <3>4. entries[s] = old.values[s].text
        BY <2>1 DEF KeptText
      <3>5. QED
        BY <2>1, <3>2, <3>3, <3>4
    <2>2. CASE ~SameObjects(old.values, s, tables[s].inputs)
      <3>1. entries[s] = LookupInputs(groups[s])
        BY <1>8, <2>2 DEF KeptText
      <3>2. s \in good <=> Distinct(groups[s])
        BY <2>2
      <3>3. QED
        BY <3>1, <3>2, DistinctFacts
    <2>3. QED
      BY <2>1, <2>2
  <1>10. entries = [s \in Names |-> Entries(groups[s])]
    BY <1>9, DistinctFacts
  <1> HIDE DEF entries
  <1>11. ASSUME NEW p \in paths
         PROVE  /\ file[p] = FileOf(c, groups, p)
                /\ file[p] = File(file[p].inputs, TextOf(p, file[p].inputs))
                /\ hash(p) = file[p].text
    <2>1. file[p] = PlanFile(c, groups, old.derived, entries, p)
      OBVIOUS
    <2> HIDE DEF file
    <2>2. file[p] = FileOf(c, groups, p)
      BY <1>5, <1>10, <2>1, PlannedFile
    <2>3. file[p] = File(file[p].inputs, TextOf(p, file[p].inputs))
      BY <2>1, FileText
    <2>4. KeptText(old.files, p, file[p]) = file[p].text
      BY <1>6, <2>3, KeptFile
    <2>5. QED
      BY <2>2, <2>3, <2>4
  <1> HIDE DEF file, hash
  <1>12. /\ DOMAIN files = paths
         /\ \A p \in paths : /\ files[p].inputs = file[p].inputs
                             /\ files[p].text = file[p].text
                             /\ files[p] = File(files[p].inputs, TextOf(p, files[p].inputs))
    <2>1. DOMAIN files = paths /\ \A p \in paths : files[p] = File(file[p].inputs, hash(p))
      OBVIOUS
    <2> HIDE DEF files
    <2>2. ASSUME NEW p \in paths
          PROVE  /\ files[p].inputs = file[p].inputs
                 /\ files[p].text = file[p].text
                 /\ files[p] = File(files[p].inputs, TextOf(p, files[p].inputs))
      <3>1. files[p] = File(file[p].inputs, file[p].text)
        BY <1>11, <2>1
      <3>2. files[p].inputs = file[p].inputs /\ files[p].text = file[p].text
        BY <1>7, <3>1
      <3>3. files[p] = file[p]
        BY <1>7, <1>11, <3>1
      <3>4. QED
        BY <1>11, <3>2, <3>3
    <2>3. QED
      BY <2>1, <2>2
  <1> HIDE DEF files
  <1>13. TextsOf(files) = Fresh!Output(Taken, t)
    <2>1. Fresh!Output(Taken, t) = [p \in paths |-> FileOf(c, groups, p).text]
      BY <1>2, <1>5, LinkedMakesOutput
    <2>2. \A p \in paths : files[p].text = FileOf(c, groups, p).text
      BY <1>11, <1>12
    <2>3. QED
      BY <1>12, <2>1, <2>2 DEF TextsOf
  <1>14. \A s \in DOMAIN values : /\ values[s] = File(values[s].inputs, values[s].inputs)
                                  /\ Injective(values[s].inputs)
    <2>1. ASSUME NEW s \in good
          PROVE  /\ values[s] = File(values[s].inputs, values[s].inputs)
                 /\ Injective(values[s].inputs)
      <3>1. values[s] = File(LookupInputs(groups[s]), LookupInputs(groups[s]))
        BY <1>8, <1>9
      <3> HIDE DEF values
      <3>2. values[s].inputs = LookupInputs(groups[s])
        BY <1>7, <3>1
      <3>3. Injective(LookupInputs(groups[s]))
        BY <1>9
      <3>4. QED
        BY <3>1, <3>2, <3>3
    <2>2. \A s \in DOMAIN old.values \ good : values[s] = old.values[s]
      OBVIOUS
    <2>3. DOMAIN values = DOMAIN old.values \cup good
      OBVIOUS
    <2> HIDE DEF values, good
    <2>4. QED
      BY <1>6, <2>1, <2>2, <2>3
  <1> HIDE DEF values, revision
  <1>15. m = [groups |-> old.groups, passed |-> old.passed, derived |-> old.derived,
              files |-> files, values |-> values, revision |-> revision]
    <2>1. old = [groups |-> old.groups, passed |-> old.passed, derived |-> old.derived,
                 files |-> old.files, values |-> old.values, revision |-> old.revision]
      BY <1>4 DEF IsRemembered
    <2> DEFINE first == [old EXCEPT !.files = files]
               second == [first EXCEPT !.values = values]
    <2>2. m = [second EXCEPT !.revision = revision]
      OBVIOUS
    <2>3. first = [groups |-> old.groups, passed |-> old.passed, derived |-> old.derived,
                   files |-> files, values |-> old.values, revision |-> old.revision]
      BY <2>1
    <2> HIDE DEF first
    <2>4. second = [groups |-> old.groups, passed |-> old.passed, derived |-> old.derived,
                    files |-> files, values |-> values, revision |-> old.revision]
      BY <2>3
    <2> HIDE DEF second, m
    <2>5. QED
      BY <2>2, <2>4
  <1> HIDE DEF m
  <1>16. /\ m.groups = old.groups /\ m.passed = old.passed /\ m.derived = old.derived
         /\ m.files = files /\ m.values = values /\ m.revision = revision
    BY <1>15
  <1>17. IsRemembered(c, m)
    <2>1. m = [groups |-> m.groups, passed |-> m.passed, derived |-> m.derived,
               files |-> m.files, values |-> m.values, revision |-> m.revision]
      BY <1>15, <1>16
    <2>2. \A p \in DOMAIN m.files :
             m.files[p] = File(m.files[p].inputs, TextOf(p, m.files[p].inputs))
      BY <1>12, <1>16
    <2>3. \A s \in DOMAIN m.values : /\ m.values[s] = File(m.values[s].inputs, m.values[s].inputs)
                                     /\ Injective(m.values[s].inputs)
      BY <1>14, <1>16
    <2>4. QED
      BY <1>4, <1>16, <2>1, <2>2, <2>3 DEF IsRemembered
  <1>18. /\ MemoryOk' /\ memory'.project = memory.project /\ memory'.targets[t] = m
         /\ \A u \in Targets : u # t => memory'.targets[u] = memory.targets[u]
    <2>1. MemoryOk /\ IsRemembered(memory.project, m)
      BY <1>2, <1>17 DEF Inv
    <2>2. memory' = [memory EXCEPT !.targets[t] = m]
      BY <1>1
    <2>3. t \in Targets
      BY <1>3
    <2>4. QED
      BY <2>1, <2>2, <2>3, PutTarget
  <1>19. paths # {}
    <2>1. <<"index", None>> \in paths
      BY DEF PathsOf
    <2>2. QED
      BY <2>1
  <1> HIDE DEF paths
  <1>20. IsWritten(m, writer[t], output[t])
    <2>1. CASE changed
      <3>1. revision = NewRevision
        BY <2>1 DEF revision
      <3>2. revision # writer[t]
        BY <3>1, NewRevisionFacts DEF t
      <3>3. QED
        BY <1>16, <3>2 DEF IsWritten
    <2>2. CASE ~changed
      <3>1. revision = old.revision /\ DOMAIN old.files = paths
            /\ \A p \in paths : old.files[p].inputs = file[p].inputs
        BY <2>2 DEF revision
      <3>2. ASSUME NEW p \in paths PROVE files[p].text = old.files[p].text
        <4>1. files[p].text = TextOf(p, files[p].inputs)
          BY <1>7, <1>12
        <4>2. old.files[p].text = TextOf(p, old.files[p].inputs)
          BY <1>6, <1>7, <3>1
        <4>3. QED
          BY <1>12, <3>1, <4>1, <4>2
      <3>3. TextsOf(files) = TextsOf(old.files) /\ DOMAIN files = DOMAIN old.files
        BY <1>12, <3>1, <3>2 DEF TextsOf
      <3>4. IsWritten(old, writer[t], output[t])
        BY <1>3, <1>4 DEF Inv, WrittenOk
      <3>5. QED
        BY <1>16, <3>1, <3>3, <3>4 DEF IsWritten
    <2>3. QED
      BY <2>1, <2>2
  <1>21. WrittenOk'
    <2>1. WrittenOk /\ UNCHANGED <<writer, output>>
      BY <1>1 DEF Inv
    <2>2. \A u \in Targets : IsWritten(memory'.targets[u], writer[u], output[u])
      BY <1>18, <1>20, <2>1 DEF WrittenOk
    <2>3. QED
      BY <2>1, <2>2 DEF WrittenOk
  <1> HIDE DEF plan, at, pc
  <1>22. build' = [pc |-> pc, at |-> at, failed |-> build.failed,
                   project |-> build.project, text |-> build.text,
                   groups |-> build.groups, pending |-> build.pending,
                   finals |-> build.finals, sets |-> build.sets,
                   plans |-> Put(build.plans, t, plan)]
    <2>1. build = [pc |-> build.pc, at |-> build.at, failed |-> build.failed,
                   project |-> build.project, text |-> build.text,
                   groups |-> build.groups, pending |-> build.pending,
                   finals |-> build.finals, sets |-> build.sets, plans |-> build.plans]
      BY <1>2 DEF ReadOk
    <2> DEFINE plans == Put(build.plans, t, plan)
    <2> HIDE DEF plans
    <2>2. build' = [[[build EXCEPT !.plans = plans] EXCEPT !.at = at] EXCEPT !.pc = pc]
      BY <1>1 DEF plans
    <2> DEFINE first == [build EXCEPT !.plans = plans]
               second == [first EXCEPT !.at = at]
    <2>3. first = [pc |-> build.pc, at |-> build.at, failed |-> build.failed,
                   project |-> build.project, text |-> build.text,
                   groups |-> build.groups, pending |-> build.pending,
                   finals |-> build.finals, sets |-> build.sets, plans |-> plans]
      BY <2>1
    <2>4. build' = [second EXCEPT !.pc = pc]
      BY <2>2
    <2> HIDE DEF first
    <2>5. second = [pc |-> build.pc, at |-> at, failed |-> build.failed,
                    project |-> build.project, text |-> build.text,
                    groups |-> build.groups, pending |-> build.pending,
                    finals |-> build.finals, sets |-> build.sets, plans |-> plans]
      BY <2>3
    <2> HIDE DEF second
    <2>6. QED
      BY <2>4, <2>5 DEF plans
  <1>23. /\ build'.pc = pc /\ build'.at = at /\ build'.project = c
         /\ build'.sets = build.sets /\ build'.plans = Put(build.plans, t, plan)
    BY <1>22
  <1>24. Taken' = Taken /\ Now' = Now /\ Read' = Read
    BY <1>1, <1>22 DEF Taken, Now, env, Read
  <1>25. EnvOk' /\ CachedOk' /\ CalmOk'
    BY <1>1, <1>2, <1>24 DEF Inv, EnvOk, env, CachedOk, CalmOk
  <1>26. at \in DOMAIN TargetOrder
    BY <1>3, OrderFacts DEF at
  <1>27. ReadOk'
    <2>1. pc \in {"refused", "publish", "link"}
      BY DEF pc
    <2>2. QED
      BY <1>2, <1>18, <1>22, <1>24, <1>26, <2>1 DEF ReadOk
  <1>. HIDE DEF good
  <1>28. ASSUME good # Names PROVE Inv'
    <2>1. build'.pc = "refused"
      BY <1>23, <1>28 DEF pc
    <2>2. ~Fresh!Good(Taken, t)
      BY <1>5, <1>9, <1>28, LinkedIsGood DEF good
    <2>3. BuildOk'
      BY <1>3, <1>24, <1>27, <2>1, <2>2 DEF BuildOk
    <2>4. QED
      BY <1>18, <1>21, <1>25, <2>3 DEF Inv
  <1>29. ASSUME good = Names PROVE Inv'
    <2>1. Fresh!Good(Taken, t)
      <3>1. ScopeGood(c, t, Fresh!Left(Taken))
        BY <1>2, <1>3 DEF SetsOk
      <3>2. ASSUME NEW v \in Views PROVE ViewGood(RowsOf(c, v, groups))
        <4>1. old.derived[v].rows = RowsOf(c, v, groups)
          <5>1. old.derived[v] = Derived(c, v, groups) /\ v \in DOMAIN old.derived
            BY <1>5
          <5>2. Derived(c, v, groups).rows = RowsOf(c, v, groups)
            BY DEF Derived
          <5>3. QED
            BY <5>1, <5>2
        <4>2. QED
          BY <1>5, <1>6, <4>1
      <3>3. \A s \in Names : Distinct(groups[s])
        BY <1>9, <1>29, DistinctFacts
      <3>4. QED
        BY <1>2, <1>5, <3>1, <3>2, <3>3, LinkedIsGood
    <2>2. /\ t \in DOMAIN build'.plans /\ build'.plans[t] = plan
          /\ DOMAIN build.plans \subseteq DOMAIN build'.plans
          /\ \A u \in DOMAIN build.plans : u # t => build'.plans[u] = build.plans[u]
      BY <1>23 DEF Put
    <2>3. IsPlanned(m, plan, Taken, t)
      <3>1. plan.revision = revision /\ DOMAIN plan.files = paths
            /\ \A p \in paths : plan.files[p].hash = hash(p) /\ plan.files[p].text = file[p].text
        BY DEF plan
      <3>2. QED
        BY <1>11, <1>12, <1>13, <1>16, <1>19, <2>1, <3>1 DEF IsPlanned
    <2>4. \A i \in DOMAIN TargetOrder : i <= build.at =>
             /\ TargetOrder[i] \in DOMAIN build'.plans
             /\ IsPlanned(memory'.targets[TargetOrder[i]],
                          build'.plans[TargetOrder[i]], Taken, TargetOrder[i])
      <3>1. ASSUME NEW i \in DOMAIN TargetOrder, i <= build.at
            PROVE  /\ TargetOrder[i] \in DOMAIN build'.plans
                   /\ IsPlanned(memory'.targets[TargetOrder[i]],
                                build'.plans[TargetOrder[i]], Taken, TargetOrder[i])
        <4>1. CASE i = build.at
          BY <1>3, <1>18, <2>2, <2>3, <4>1
        <4>2. CASE i # build.at
          <5>1. i <= build.at - 1
            BY <1>3, <3>1, <4>2, OrderFacts
          <5>2. TargetOrder[i] # t /\ TargetOrder[i] \in Targets
            BY <1>3, <4>2, OrderFacts
          <5>3. /\ TargetOrder[i] \in DOMAIN build.plans
                /\ IsPlanned(memory.targets[TargetOrder[i]],
                             build.plans[TargetOrder[i]], Taken, TargetOrder[i])
            BY <1>2, <5>1 DEF PlansOk
          <5>4. QED
            BY <1>18, <2>2, <5>2, <5>3
        <4>3. QED
          BY <4>1, <4>2
      <3>2. QED
        BY <3>1
    <2>5. CASE last
      <3>1. build'.pc = "publish" /\ build'.at = 1 /\ build.at = Len(TargetOrder)
        BY <1>23, <1>29, <2>5 DEF pc, at
      <3>2. PlansOk(Len(TargetOrder))'
        BY <1>24, <2>4, <3>1 DEF PlansOk
      <3>3. BuildOk'
        BY <1>27, <3>1, <3>2, OrderFacts DEF BuildOk
      <3>4. QED
        BY <1>18, <1>21, <1>25, <3>3 DEF Inv
    <2>6. CASE ~last
      <3>1. build'.pc = "link" /\ build'.at = build.at + 1
        BY <1>23, <1>29, <2>6 DEF pc, at
      <3>2. SetsOk(build.at)'
        <4>1. /\ build'.sets = [u \in Targets |-> build'.sets[u]]
              /\ \A u \in Targets : ScopeGood(c, u, Fresh!Left(Taken))
              /\ \A i \in DOMAIN TargetOrder : i >= build'.at =>
                    IsSet(Taken, TargetOrder[i], build'.sets[TargetOrder[i]])
          BY <1>2, <1>23, <3>1 DEF SetsOk
        <4>2. QED
          BY <1>23, <1>24, <4>1 DEF SetsOk
      <3>3. build'.at - 1 = build.at
        BY <1>3, <3>1
      <3>4. PlansOk(build.at - 1)'
        <4>1. \A i \in DOMAIN TargetOrder : i <= build'.at - 1 =>
                 /\ TargetOrder[i] \in DOMAIN build'.plans
                 /\ IsPlanned(memory'.targets[TargetOrder[i]],
                              build'.plans[TargetOrder[i]], Taken, TargetOrder[i])
          BY <2>4, <3>3
        <4>2. QED
          BY <1>24, <4>1 DEF PlansOk
      <3>5. BuildOk'
        BY <1>27, <3>1, <3>2, <3>4 DEF BuildOk
      <3>6. QED
        BY <1>18, <1>21, <1>25, <3>5 DEF Inv
    <2>7. QED
      BY <2>5, <2>6
  <1>30. IsPlanOf(build'.plans[t], Taken, t)
    <2>1. build'.plans[t] = plan
      BY <1>23 DEF Put
    <2>2. DOMAIN plan.files = paths /\ \A p \in paths : plan.files[p].hash = hash(p)
      BY DEF plan
    <2>3. DOMAIN Fresh!Output(Taken, t) = paths
          /\ \A p \in paths : Fresh!Output(Taken, t)[p] = files[p].text
      BY <1>12, <1>13 DEF TextsOf
    <2>4. QED
      BY <1>11, <1>12, <2>1, <2>2, <2>3 DEF IsPlanOf
  <1>31. QED
    BY <1>28, <1>29, <1>30 DEF t

-----------------------------------------------------------------------------
(* The publication of a target: a revision that was written is its output  *)
(* already, and a file is left when it is the text of its hash.            *)

LEMMA PublishedTexts ==
    ASSUME NEW m, NEW plan, NEW b, NEW t, IsPlanned(m, plan, b, t),
           NEW written, NEW revision, IsWritten(m, revision, written)
    PROVE  (IF revision = plan.revision THEN written
            ELSE [p \in DOMAIN plan.files |->
                     IF p \in DOMAIN written /\ written[p] = plan.files[p].hash
                     THEN written[p] ELSE plan.files[p].text])
             = TextsOf(m.files)
  <1>1. CASE revision = plan.revision
    BY <1>1 DEF IsPlanned, IsWritten
  <1>2. CASE revision # plan.revision
    <2>1. \A p \in DOMAIN plan.files :
             (IF p \in DOMAIN written /\ written[p] = plan.files[p].hash
              THEN written[p] ELSE plan.files[p].text) = m.files[p].text
      BY DEF IsPlanned
    <2>2. DOMAIN plan.files = DOMAIN m.files
      BY DEF IsPlanned
    <2>3. QED
      BY <1>2, <2>1, <2>2 DEF TextsOf
  <1>3. QED
    BY <1>1, <1>2

\* What a publication leaves, and when: the refinement needs it too.
LEMMA PublishFacts ==
    ASSUME Inv, Publish
    PROVE  /\ Running /\ BuildOk /\ Target \in Targets /\ Target = TargetOrder[build.at]
           /\ \A u \in Targets : Fresh!Good(Taken, u)
           /\ output' = [output EXCEPT ![Target] = Fresh!Output(Taken, Target)]
           /\ writer' = [writer EXCEPT ![Target] = memory.targets[Target].revision]
           /\ Fresh!Output(Taken, Target) = TextsOf(memory.targets[Target].files)
           /\ UNCHANGED <<project, text, cached, memory>>
           /\ build' = IF build.at = Len(TargetOrder) THEN NoBuild
                       ELSE [build EXCEPT !.at = build.at + 1]
           /\ calm' = IF build.at = Len(TargetOrder) THEN Taken = Now ELSE calm
  <1> DEFINE t == Target
             plan == build.plans[t]
             m == memory.targets[t]
             now == IF writer[t] = plan.revision THEN output[t]
                    ELSE [p \in DOMAIN plan.files |->
                             IF p \in DOMAIN output[t] /\ output[t][p] = plan.files[p].hash
                             THEN output[t][p] ELSE plan.files[p].text]
  <1>1. /\ build.pc = "publish"
        /\ output' = [output EXCEPT ![t] = now]
        /\ writer' = [writer EXCEPT ![t] = plan.revision]
        /\ UNCHANGED <<env, cached, memory>>
        /\ build' = IF build.at = Len(TargetOrder) THEN NoBuild
                    ELSE [build EXCEPT !.at = build.at + 1]
        /\ calm' = IF build.at = Len(TargetOrder)
                   THEN build.project = project /\ build.text = text ELSE calm
    BY DEF Publish
  <1>2. Running /\ BuildOk /\ ReadOk /\ PlansOk(Len(TargetOrder)) /\ WrittenOk
    BY <1>1 DEF Inv, Running, BuildOk
  <1>3. t \in Targets /\ t = TargetOrder[build.at] /\ build.at \in DOMAIN TargetOrder
    BY <1>2, TargetFacts, OrderFacts
  <1>4. \A i \in DOMAIN TargetOrder : i <= Len(TargetOrder)
    BY OrderFacts
  <1>5. \A i \in DOMAIN TargetOrder :
           IsPlanned(memory.targets[TargetOrder[i]], build.plans[TargetOrder[i]],
                     Taken, TargetOrder[i])
    BY <1>2, <1>4 DEF PlansOk
  <1>6. \A u \in Targets : Fresh!Good(Taken, u)
    BY <1>5, OrderFacts DEF IsPlanned
  <1>7. IsPlanned(m, plan, Taken, t)
    BY <1>3, <1>5
  <1>8. IsWritten(m, writer[t], output[t])
    BY <1>2, <1>3 DEF WrittenOk
  <1>9. now = TextsOf(m.files)
    BY <1>7, <1>8, PublishedTexts
  <1>10. plan.revision = m.revision /\ TextsOf(m.files) = Fresh!Output(Taken, t)
    BY <1>7 DEF IsPlanned
  <1>11. (build.project = project /\ build.text = text) <=> (Taken = Now)
    BY DEF Taken, Now
  <1> HIDE DEF t, plan, m, now
  <1>12. QED
    BY <1>1, <1>2, <1>3, <1>6, <1>9, <1>10, <1>11 DEF t, m, env

LEMMA PublishInv ==
    ASSUME Inv, Publish
    PROVE  Inv'
  <1> DEFINE t == Target
             m == memory.targets[t]
             now == Fresh!Output(Taken, t)
             last == build.at = Len(TargetOrder)
  <1>1. /\ Running /\ BuildOk /\ t \in Targets /\ t = TargetOrder[build.at]
        /\ output' = [output EXCEPT ![t] = now] /\ writer' = [writer EXCEPT ![t] = m.revision]
        /\ now = TextsOf(m.files)
        /\ UNCHANGED <<project, text, cached, memory>>
        /\ build' = IF last THEN NoBuild ELSE [build EXCEPT !.at = build.at + 1]
        /\ calm' = IF last THEN Taken = Now ELSE calm
    BY PublishFacts
  <1>2. EnvOk' /\ CachedOk' /\ MemoryOk' /\ Now' = Now
    BY <1>1 DEF Inv, EnvOk, CachedOk, MemoryOk, Now
  <1>3. WrittenOk /\ CalmOk
    BY DEF Inv
  <1>4. /\ output' = [u \in Targets |-> output'[u]] /\ writer' = [u \in Targets |-> writer'[u]]
        /\ output'[t] = now /\ writer'[t] = m.revision
        /\ \A u \in Targets : u # t => output'[u] = output[u] /\ writer'[u] = writer[u]
    <2>1. /\ writer = [u \in Targets |-> writer[u]] /\ output = [u \in Targets |-> output[u]]
      BY <1>3 DEF WrittenOk
    <2> HIDE DEF now, m, t
    <2>2. QED
      BY <1>1, <2>1
  <1>5. IsWritten(m, m.revision, now)
    BY <1>1 DEF IsWritten
  <1> HIDE DEF m
  <1>6. WrittenOk'
    <2>1. \A u \in Targets : IsWritten(memory.targets[u], writer'[u], output'[u])
      BY <1>3, <1>4, <1>5 DEF WrittenOk, m
    <2>2. QED
      BY <1>1, <1>4, <2>1 DEF WrittenOk
  <1>7. build.pc = "publish" /\ build.at \in 1..Len(TargetOrder)
    BY <1>1, TargetFacts, OrderFacts DEF Publish, BuildOk
  <1>8. /\ ReadOk /\ PlansOk(Len(TargetOrder))
        /\ \A i \in DOMAIN TargetOrder :
              i < build.at => output[TargetOrder[i]] = Fresh!Output(Taken, TargetOrder[i])
    BY <1>1, <1>7 DEF BuildOk
  <1>9. \A i \in DOMAIN TargetOrder :
           i <= build.at => output'[TargetOrder[i]] = Fresh!Output(Taken, TargetOrder[i])
    <2>1. ASSUME NEW i \in DOMAIN TargetOrder, i <= build.at
          PROVE  output'[TargetOrder[i]] = Fresh!Output(Taken, TargetOrder[i])
      <3>1. CASE i = build.at
        BY <1>1, <1>4, <3>1
      <3>2. CASE i # build.at
        <4>1. i < build.at
          BY <1>7, <2>1, <3>2, OrderFacts
        <4>2. TargetOrder[i] # t /\ TargetOrder[i] \in Targets
          BY <1>1, <1>7, <3>2, OrderFacts
        <4>3. QED
          BY <1>4, <1>8, <4>1, <4>2
      <3>3. QED
        BY <3>1, <3>2
    <2>2. QED
      BY <2>1
  <1> HIDE DEF t, now
  <1>10. CASE last
    <2>1. ~Running'
      BY <1>1, <1>10 DEF NoBuild, Running
    <2>2. ASSUME NEW u \in Targets PROVE output'[u] = Fresh!Output(Taken, u)
      <3>1. PICK i \in DOMAIN TargetOrder : TargetOrder[i] = u
        BY OrderFacts
      <3>2. i <= build.at
        BY <1>10, OrderFacts
      <3>3. QED
        BY <1>9, <3>1, <3>2
    <2>3. CalmOk'
      BY <1>1, <1>2, <1>10, <2>1, <2>2 DEF CalmOk
    <2>4. QED
      BY <1>2, <1>6, <2>1, <2>3 DEF Inv
  <1>11. CASE ~last
    <2>1. build' = [pc |-> build.pc, at |-> build.at + 1, failed |-> build.failed,
                    project |-> build.project, text |-> build.text,
                    groups |-> build.groups, pending |-> build.pending,
                    finals |-> build.finals, sets |-> build.sets, plans |-> build.plans]
      <3>1. build = [pc |-> build.pc, at |-> build.at, failed |-> build.failed,
                     project |-> build.project, text |-> build.text,
                     groups |-> build.groups, pending |-> build.pending,
                     finals |-> build.finals, sets |-> build.sets, plans |-> build.plans]
        BY <1>8 DEF ReadOk
      <3>2. build' = [build EXCEPT !.at = build.at + 1]
        BY <1>1, <1>11
      <3>3. QED
        BY <3>1, <3>2
    <2>2. Taken' = Taken /\ Read' = Read
      BY <1>1, <2>1 DEF Taken, Read
    <2>3. build'.at \in DOMAIN TargetOrder /\ build'.at = build.at + 1 /\ build'.pc = "publish"
      BY <1>7, <1>11, <2>1, OrderFacts
    <2>4. ReadOk'
      BY <1>1, <1>8, <2>1, <2>2, <2>3 DEF ReadOk
    <2>5. PlansOk(Len(TargetOrder))'
      BY <1>1, <1>8, <2>1, <2>2 DEF PlansOk
    <2>6. \A i \in DOMAIN TargetOrder :
             i < build'.at => output'[TargetOrder[i]] = Fresh!Output(Taken, TargetOrder[i])
      <3>1. \A i \in DOMAIN TargetOrder : i < build'.at => i <= build.at
        BY <1>7, <2>3, OrderFacts
      <3>2. QED
        BY <1>9, <3>1
    <2>7. BuildOk'
      BY <2>2, <2>3, <2>4, <2>5, <2>6 DEF BuildOk
    <2>8. CalmOk'
      <3>1. SUFFICES ASSUME calm
                     PROVE  /\ \A u \in Targets : output'[u] = Fresh!Output(Now, u)
                            /\ Taken = Now
        BY <1>1, <1>2, <1>11, <2>2 DEF CalmOk
      <3>2. Taken = Now /\ \A u \in Targets : output[u] = Fresh!Output(Now, u)
        BY <1>1, <1>3, <3>1 DEF CalmOk
      <3>3. QED
        BY <1>4, <3>2 DEF now, t
    <2>9. QED
      BY <1>2, <1>6, <2>7, <2>8 DEF Inv
  <1>12. QED
    BY <1>10, <1>11

LEMMA StutterInv ==
    ASSUME Inv, UNCHANGED vars
    PROVE  Inv'
  <1>1. UNCHANGED <<project, text, cached, memory, build, writer, output, calm>>
    BY DEF vars, env
  <1>2. EnvOk' /\ CachedOk' /\ MemoryOk' /\ CalmOk'
    BY <1>1 DEF Inv, EnvOk, CachedOk, MemoryOk, CalmOk, Now, Taken, Running
  <1>3. WrittenOk'
    BY <1>1, WrittenFrame DEF Inv
  <1>4. Running' => BuildOk'
    BY <1>1, BuildFrame DEF Inv, Running
  <1>5. QED
    BY <1>2, <1>3, <1>4 DEF Inv

-----------------------------------------------------------------------------
(* What follows for every session.                                         *)

\* What a session remembers is at every moment what its own inputs make, and
\* the running build has documents that are alike those of a build from
\* nothing: the inductive invariant, kept by every step of Validate, the
\* transforms, prepare, planTarget, the writer, failures and restarts.
THEOREM MemoryIsSound == Spec => []Inv
  <1>1. Init => Inv
    BY InitInv
  <1>2. Inv /\ [Next]_vars => Inv'
    <2> SUFFICES ASSUME Inv, [Next]_vars PROVE Inv'
      OBVIOUS
    <2>1. ASSUME NEW f \in Files, TransformDocument(f) PROVE Inv'
      BY <2>1, TransformDocumentInv
    <2>2. ASSUME NEW f \in Files, TransformFails(f) PROVE Inv'
      BY <2>2, TransformFailsInv
    <2>3. CASE Reconfigure \/ \E f \in Files : Edit(f)
      BY <2>3, EnvironmentInv
    <2>4. CASE Validate
      BY <2>4, ValidateInv
    <2>5. CASE Prepare
      BY <2>5, PrepareInv
    <2>6. CASE LinkTarget
      BY <2>6, LinkTargetInv
    <2>7. CASE PlanTarget
      BY <2>7, PlanTargetInv
    <2>8. CASE Publish
      BY <2>8, PublishInv
    <2>9. CASE Fail
      BY <2>9, FailInv
    <2>10. CASE Restart
      BY <2>10, RestartInv
    <2>11. CASE UNCHANGED vars
      BY <2>11, StutterInv
    <2>12. QED
      BY <2>1, <2>2, <2>3, <2>4, <2>5, <2>6, <2>7, <2>8, <2>9, <2>10, <2>11 DEF Next
  <1>3. QED
    BY <1>1, <1>2, PTL DEF Spec

\* A build that is refused has a problem in the content it read, which a
\* build from nothing finds too: no table, link, view or passed group that is
\* remembered of documents that are gone can refuse it.
THEOREM RefusalHasAReason == Spec => []RefusedForAReason
  <1>1. Inv => RefusedForAReason
    BY DEF Inv, BuildOk, Running, RefusedForAReason
  <1>2. QED
    BY <1>1, MemoryIsSound, PTL

\* While nothing changed since a build that succeeded, every target holds
\* what a build from nothing would write, though the writer compared only
\* the revisions of its plans and the hashes of its files.
THEOREM OutputStaysCurrent == Spec => []OutputIsCurrent
  <1>1. Inv => OutputIsCurrent
    BY DEF Inv, CalmOk, Now, OutputIsCurrent
  <1>2. QED
    BY <1>1, MemoryIsSound, PTL

-----------------------------------------------------------------------------
(* Every step is one of FreshBuild, or changes nothing that it shows.      *)

Reading == IF Running THEN Taken ELSE None

LEMMA TakenIsSomething ==
    ASSUME Inv, Running
    PROVE  Taken # None /\ Reading = Taken
  <1>1. build.project \in Projects /\ build.text \in [Files -> Texts \cup {None}]
    BY DEF Inv, BuildOk, ReadOk
  <1>2. QED
    BY <1>1, NoneIsNone DEF Taken, Reading

LEMMA SameReading ==
    ASSUME Running, Running', build'.project = build.project, build'.text = build.text,
           UNCHANGED <<project, text, output>>
    PROVE  UNCHANGED Fresh!vars
  <1>1. Taken' = Taken
    BY DEF Taken
  <1>2. QED
    BY <1>1 DEF Fresh!vars

LEMMA EditIsFresh ==
    ASSUME Inv, Reconfigure \/ \E f \in Files : Edit(f)
    PROVE  Fresh!Edit
  <1>1. UNCHANGED <<build, output>>
    BY DEF Edit, Reconfigure
  <1>2. Running' = Running /\ Taken' = Taken
    BY <1>1 DEF Running, Taken
  <1>3. project' \in Projects
    BY DEF Edit, Reconfigure, Inv, EnvOk
  <1>4. \/ \E f \in Files, x \in Texts \cup {None} : text' = [text EXCEPT ![f] = x]
        \/ UNCHANGED text
    BY DEF Edit, Reconfigure
  <1>5. QED
    BY <1>1, <1>2, <1>3, <1>4 DEF Fresh!Edit

LEMMA ValidateIsFresh ==
    ASSUME Validate
    PROVE  Fresh!Begin
  <1>1. /\ ~Running /\ Running' /\ build'.project = project /\ build'.text = text
        /\ UNCHANGED <<project, text, output>>
    BY DEF Validate, Running, env
  <1>2. Taken' = [project |-> project, text |-> text]
    BY <1>1 DEF Taken
  <1>3. QED
    BY <1>1, <1>2 DEF Fresh!Begin

LEMMA FailIsFresh ==
    ASSUME Inv, Fail
    PROVE  Fresh!End
  <1>1. Running /\ ~Running' /\ UNCHANGED <<project, text, output>>
    BY DEF Fail, Running, NoBuild
  <1>2. Taken # None
    BY <1>1, TakenIsSomething
  <1>3. QED
    BY <1>1, <1>2 DEF Fresh!End

LEMMA PublishIsFresh ==
    ASSUME Inv, Publish
    PROVE  \E t \in Targets : Fresh!Publish(t)
  <1> DEFINE last == build.at = Len(TargetOrder)
  <1>1. /\ Running /\ BuildOk /\ Target \in Targets
        /\ \A u \in Targets : Fresh!Good(Taken, u)
        /\ output' = [output EXCEPT ![Target] = Fresh!Output(Taken, Target)]
        /\ UNCHANGED <<project, text>>
        /\ build' = IF last THEN NoBuild ELSE [build EXCEPT !.at = build.at + 1]
    BY PublishFacts
  <1>2. Taken # None
    BY <1>1, TakenIsSomething
  <1>3. (IF Running' THEN Taken' ELSE None) \in {Taken, None}
    <2>1. CASE last
      BY <1>1, <2>1 DEF Running, NoBuild
    <2>2. CASE ~last
      <3>1. build = [pc |-> build.pc, at |-> build.at, failed |-> build.failed,
                     project |-> build.project, text |-> build.text,
                     groups |-> build.groups, pending |-> build.pending,
                     finals |-> build.finals, sets |-> build.sets, plans |-> build.plans]
        BY <1>1 DEF BuildOk, ReadOk
      <3>2. build' = [build EXCEPT !.at = build.at + 1]
        BY <1>1, <2>2
      <3>3. build'.project = build.project /\ build'.text = build.text
        BY <3>1, <3>2
      <3>4. QED
        BY <3>3 DEF Taken
    <2>3. QED
      BY <2>1, <2>2
  <1>4. Fresh!Publish(Target)
    BY <1>1, <1>2, <1>3 DEF Fresh!Publish
  <1>5. QED
    BY <1>1, <1>4

\* The stages between change only what is remembered and the running build.
LEMMA StagesShowNothing ==
    ASSUME Inv, \/ \E f \in Files : TransformDocument(f) \/ TransformFails(f)
                \/ Prepare \/ LinkTarget \/ PlanTarget
    PROVE  UNCHANGED Fresh!vars
  <1>1. build.pc \in {"transform", "link", "plan"} /\ UNCHANGED <<project, text, output>>
    BY DEF TransformDocument, TransformFails, Turn, Prepare, LinkTarget, PlanTarget, env
  <1>2. /\ Running
        /\ build = [pc |-> build.pc, at |-> build.at, failed |-> build.failed,
                    project |-> build.project, text |-> build.text,
                    groups |-> build.groups, pending |-> build.pending,
                    finals |-> build.finals, sets |-> build.sets, plans |-> build.plans]
    BY <1>1 DEF Running, Inv, BuildOk, ReadOk
  <1>3. \A field, value :
           LET next == [build EXCEPT ![field] = value]
           IN  /\ field \notin {"project", "text"} =>
                     next.project = build.project /\ next.text = build.text
               /\ field # "pc" => next.pc = build.pc
    BY <1>2
  <1>4. ASSUME NEW f \in Files, TransformDocument(f) \/ TransformFails(f)
        PROVE  build'.pc = build.pc /\ build'.project = build.project /\ build'.text = build.text
    <2>1. CASE TransformDocument(f)
      <3>1. PICK final : build' = [build EXCEPT !.pending = build.pending \ {f}, !.finals[f] = final]
        BY <2>1 DEF TransformDocument
      <3>2. QED
        BY <1>2, <3>1
    <2>2. CASE TransformFails(f)
      <3>1. build' = [build EXCEPT !.pending = build.pending \ {f}, !.failed = TRUE]
        BY <2>2 DEF TransformFails
      <3>2. QED
        BY <1>2, <3>1
    <2>3. QED
      BY <1>4, <2>1, <2>2
  <1>5. ASSUME Prepare
        PROVE  /\ build'.pc \in {"link", "refused"}
               /\ build'.project = build.project /\ build'.text = build.text
    <2> DEFINE given == AfterTransforms
               data(s, f) == PreparedData(build.project, given[s][f], given)
               after == [s \in Names |->
                   [f \in {f \in DOMAIN given[s] : data(s, f) # None} |->
                       PreparedDocument(given[s][f], data(s, f))]]
               pc == IF \A t \in Targets : ScopeGood(build.project, t, after)
                     THEN "link" ELSE "refused"
               sets == [t \in Targets |-> ScopeSources(build.project, t, after)]
    <2>1. /\ pc \in {"link", "refused"}
          /\ build' = [build EXCEPT !.pc = pc, !.sets = sets]
      BY <1>5 DEF Prepare
    <2> HIDE DEF pc, sets
    <2>2. QED
      BY <1>2, <2>1
  <1>6. ASSUME LinkTarget
        PROVE  /\ build'.pc \in {"plan", "refused"}
               /\ build'.project = build.project /\ build'.text = build.text
    <2> DEFINE linked == LinkAll(build.sets[Target])
               passes == linked.groups \in Remembered.passed \/ NoConflict(linked.groups)
               good == linked.good /\ passes
               derived == [v \in Views |-> Derive(v, linked.groups)]
               shown == {v \in Views : ViewGood(derived[v].rows)}
               pc == IF good /\ shown = Views THEN "plan" ELSE "refused"
               groups == linked.groups
    <2>1. /\ pc \in {"plan", "refused"}
          /\ build' = [build EXCEPT !.sets[Target] = groups, !.pc = pc]
      BY <1>6 DEF LinkTarget
    <2> HIDE DEF pc, groups
    <2>2. QED
      BY <1>2, <2>1
  <1>7. ASSUME PlanTarget
        PROVE  /\ build'.pc \in {"link", "publish", "refused"}
               /\ build'.project = build.project /\ build'.text = build.text
    <2> DEFINE c == build.project
               t == Target
               groups == build.sets[t]
               old == Remembered
               tables == [s \in Names |-> File(LookupInputs(groups[s]), Entries(groups[s]))]
               entries == [s \in Names |-> KeptText(old.values, s, tables[s])]
               good == {s \in Names : \/ SameObjects(old.values, s, tables[s].inputs)
                                      \/ Distinct(groups[s])}
               paths == PathsOf(groups)
               file == [p \in paths |-> PlanFile(c, groups, old.derived, entries, p)]
               hash(p) == IF IsAnew(p) THEN file[p].text ELSE KeptText(old.files, p, file[p])
               changed == \/ DOMAIN old.files # paths
                          \/ \E p \in paths : IsAnew(p)
                          \/ \E p \in DOMAIN old.files : old.files[p].inputs # file[p].inputs
               revision == IF changed THEN NewRevision ELSE old.revision
               last == build.at = Len(TargetOrder)
               files == [p \in paths |-> File(file[p].inputs, hash(p))]
               values == [s \in DOMAIN old.values \cup good |->
                             IF s \in good THEN File(tables[s].inputs, entries[s])
                             ELSE old.values[s]]
               m == [old EXCEPT !.files = files, !.values = values, !.revision = revision]
               plan == [revision |-> revision,
                        files |-> [p \in paths |-> [hash |-> hash(p), text |-> file[p].text]]]
               at == IF last THEN 1 ELSE build.at + 1
               pc == IF good # Names THEN "refused" ELSE IF last THEN "publish" ELSE "link"
    <2>1. /\ pc \in {"link", "publish", "refused"}
          /\ build' = [build EXCEPT !.plans = Put(@, t, plan), !.at = at, !.pc = pc]
      BY <1>7 DEF PlanTarget
    <2> DEFINE plans == Put(build.plans, t, plan)
    <2> HIDE DEF pc, at
    <2> DEFINE first == [build EXCEPT !.plans = plans]
               second == [first EXCEPT !.at = at]
    <2>2. first.project = build.project /\ first.text = build.text
          /\ DOMAIN first = DOMAIN build
      OBVIOUS
    <2>3. build' = [second EXCEPT !.pc = pc]
      BY <2>1
    <2> HIDE DEF plans, first
    <2>4. second.project = build.project /\ second.text = build.text
          /\ DOMAIN second = DOMAIN build
      BY <2>2
    <2> HIDE DEF second
    <2>5. {"pc", "project", "text"} \subseteq DOMAIN build
      BY <1>2
    <2>6. QED
      BY <2>1, <2>2, <2>3, <2>4, <2>5
  <1>8. QED
    <2>1. build'.project = build.project /\ build'.text = build.text /\ Running'
      BY <1>1, <1>4, <1>5, <1>6, <1>7 DEF Running
    <2>2. QED
      BY <1>1, <1>2, <2>1, SameReading

LEMMA RestartShowsNothing ==
    ASSUME Restart
    PROVE  UNCHANGED Fresh!vars
  BY DEF Restart, Running, Fresh!vars

\* Whatever is remembered, by whatever builds before, what a build writes to
\* the main output and to each scope is what a build from nothing would, and
\* content with a problem never gets that far: the session implements
\* FreshBuild ("A rebuild redoes work only for the files that changed").
THEOREM SessionIsFresh == Spec => WritesWhatAFreshBuildWould
  <1>1. Init => Fresh!Init
    BY DEF Init, Fresh!Init, Running, NoBuild
  <1>2. Inv /\ [Next]_vars => [Fresh!Next]_(Fresh!vars)
    <2> SUFFICES ASSUME Inv, [Next]_vars PROVE [Fresh!Next]_(Fresh!vars)
      OBVIOUS
    <2>1. CASE Reconfigure \/ \E f \in Files : Edit(f)
      BY <2>1, EditIsFresh DEF Fresh!Next
    <2>2. CASE Validate
      BY <2>2, ValidateIsFresh DEF Fresh!Next
    <2>3. CASE Fail
      BY <2>3, FailIsFresh DEF Fresh!Next
    <2>4. CASE Publish
      BY <2>4, PublishIsFresh DEF Fresh!Next
    <2>5. CASE \/ \E f \in Files : TransformDocument(f) \/ TransformFails(f)
               \/ Prepare \/ LinkTarget \/ PlanTarget
      BY <2>5, StagesShowNothing
    <2>6. CASE Restart
      BY <2>6, RestartShowsNothing
    <2>7. CASE UNCHANGED vars
      BY <2>7 DEF vars, env, Running, Taken, Fresh!vars
    <2>8. QED
      BY <2>1, <2>2, <2>3, <2>4, <2>5, <2>6, <2>7 DEF Next
  <1>3. QED
    BY <1>1, <1>2, MemoryIsSound, PTL DEF Spec, WritesWhatAFreshBuildWould, Fresh!Spec

-----------------------------------------------------------------------------
(* Nothing is done again.  Of the documents that were read, what is        *)
(* remembered tells which objects the stages make: those they made.        *)

Changing(c, read) ==
    {f \in Documented(GroupBySource(read)) : HasTransform(c, SourceOf[f])}
IsRecorded(transforms, c, read, f) ==
    /\ f \in DOMAIN transforms
    /\ transforms[f].of = read[f]
    /\ \A s \in TransformReads(c, read[f].data) :
          transforms[f].reads[s] = GroupBySource(read)[s]
FinalOf(transforms, c, read, f) ==
    IF f \in Changing(c, read) THEN transforms[f].final ELSE read[f]
Given(transforms, c, read) == [s \in Names |->
    [f \in {f \in DOMAIN GroupBySource(read)[s] : FinalOf(transforms, c, read, f).data # None} |->
        FinalOf(transforms, c, read, f)]]

\* The hook made the document that is remembered for this data, or left it.
IsMade(prepared, d, data) == /\ d.file \in DOMAIN prepared
                             /\ prepared[d.file].of = d
                             /\ prepared[d.file].document.data = data
HookedOf(prepared, d, data) == IF IsMade(prepared, d, data) THEN prepared[d.file].document ELSE d
After(prepared, c, given) == [s \in Names |->
    [f \in {f \in DOMAIN given[s] : PreparedData(c, given[s][f], given) # None} |->
        HookedOf(prepared, given[s][f], PreparedData(c, given[s][f], given))]]
AllMade(prepared, c, given) ==
    \A s \in Names : \A f \in DOMAIN given[s] :
        LET data == PreparedData(c, given[s][f], given)
        IN  data # None => IsMade(prepared, given[s][f], data) \/ given[s][f].data = data

GivenOf(m, c, read) == Given(m.transforms, c, read)
AfterOf(m, c, read) == After(m.prepared, c, GivenOf(m, c, read))
StagesDone(m, c, read) ==
    /\ \A f \in Changing(c, read) : IsRecorded(m.transforms, c, read, f)
    /\ AllMade(m.prepared, c, GivenOf(m, c, read))

\* The files that are remembered of a target are those of its groups.
SetOf(m, c, read, t) == ScopeSources(c, t, AfterOf(m, c, read))
LinkedOf(m, c, read, t) == Fresh!Link(SetOf(m, c, read, t)).groups
AreFiles(files, c, groups) ==
    /\ DOMAIN files = PathsOf(groups)
    /\ \A p \in DOMAIN files : files[p].inputs = FileOf(c, groups, p).inputs
IsPlannedNow(m, c, read, t) == AreFiles(m.targets[t].files, c, LinkedOf(m, c, read, t))

IsCached(c, content) ==
    /\ DOMAIN cached = {f \in Files : content[f] # None}
    /\ \A f \in DOMAIN cached : /\ cached[f].project = c
                                /\ cached[f].document.data = content[f]

\* How far the running build is.
Transforming ==
    /\ \A f \in DOMAIN cached \ Changing(build.project, Read) : build.finals[f] = Read[f]
    /\ \A f \in Changing(build.project, Read) \ build.pending :
          ~build.failed => /\ IsRecorded(memory.transforms, build.project, Read, f)
                           /\ build.finals[f] = memory.transforms[f].final
SetsFrom(first) ==
    \A i \in DOMAIN TargetOrder :
        i >= first => build.sets[TargetOrder[i]]
                         = SetOf(memory, build.project, Read, TargetOrder[i])
PlannedUpTo(last) ==
    \A i \in DOMAIN TargetOrder :
        i <= last => IsPlannedNow(memory, build.project, Read, TargetOrder[i])
Progress ==
    /\ IsCached(build.project, build.text)
    /\ build.pc = "transform" => Transforming
    /\ build.pc \in {"link", "plan", "publish"} => StagesDone(memory, build.project, Read)
    /\ build.pc = "link" => SetsFrom(build.at) /\ PlannedUpTo(build.at - 1)
    /\ build.pc = "plan" =>
          /\ SetsFrom(build.at + 1) /\ PlannedUpTo(build.at - 1)
          /\ build.sets[Target] = LinkedOf(memory, build.project, Read, Target)
    /\ build.pc = "publish" =>
          /\ PlannedUpTo(Len(TargetOrder))
          /\ \A i \in DOMAIN TargetOrder : i < build.at =>
                writer[TargetOrder[i]] = memory.targets[TargetOrder[i]].revision
ProgressOk == Running => Progress

\* No view asks to be resolved again.
KeepsViews(c) == \A v \in Views : CachesViews(c, v)

\* Everything is remembered as the last good build left it.
Settled ==
    /\ memory.project = project /\ IsCached(project, text)
    /\ StagesDone(memory, project, Read)
    /\ \A t \in Targets : /\ IsPlannedNow(memory, project, Read, t)
                          /\ KeepsViews(project) => writer[t] = memory.targets[t].revision
SettledOk == calm => Settled

StillOk == ProgressOk /\ SettledOk /\ UnchangedIsNotRedone

LEMMA AfterFrame ==
    ASSUME NEW m, NEW n, NEW c, NEW read, AfterOf(m, c, read) = AfterOf(n, c, read)
    PROVE  \A t : /\ SetOf(m, c, read, t) = SetOf(n, c, read, t)
                  /\ LinkedOf(m, c, read, t) = LinkedOf(n, c, read, t)
                  /\ m.targets[t].files = n.targets[t].files =>
                        (IsPlannedNow(m, c, read, t) <=> IsPlannedNow(n, c, read, t))
  <1>1. \A t : SetOf(m, c, read, t) = SetOf(n, c, read, t)
    BY DEF SetOf
  <1>2. \A t : LinkedOf(m, c, read, t) = LinkedOf(n, c, read, t)
    BY <1>1 DEF LinkedOf
  <1>3. QED
    BY <1>1, <1>2 DEF IsPlannedNow

LEMMA GivenFrame ==
    ASSUME NEW m, NEW n, NEW c, NEW read,
           GivenOf(m, c, read) = GivenOf(n, c, read), m.prepared = n.prepared
    PROVE  AfterOf(m, c, read) = AfterOf(n, c, read)
  BY DEF AfterOf

LEMMA MadeFrame ==
    ASSUME NEW m, NEW n, m.transforms = n.transforms, m.prepared = n.prepared,
           NEW c, NEW read
    PROVE  /\ GivenOf(m, c, read) = GivenOf(n, c, read)
           /\ StagesDone(m, c, read) <=> StagesDone(n, c, read)
  BY DEF GivenOf, StagesDone

-----------------------------------------------------------------------------
(* What surrounds the stages.                                              *)

LEMMA StillFrame ==
    ASSUME StillOk, UNCHANGED <<cached, memory, build, writer>>
    PROVE  ProgressOk'
  <1>1. Read' = Read
    BY DEF Read
  <1>2. ProgressOk
    BY DEF StillOk
  <1> HIDE DEF Read
  <1>3. Running' = Running /\ Target' = Target
    BY DEF Running, Target
  <1>4. Progress' <=> Progress
    BY <1>1, <1>3 DEF Progress, IsCached, Transforming, SetsFrom, PlannedUpTo
  <1>5. QED
    BY <1>2, <1>3, <1>4 DEF ProgressOk

LEMMA EnvironmentStill ==
    ASSUME StillOk, Reconfigure \/ \E f \in Files : Edit(f)
    PROVE  StillOk'
  <1>1. UNCHANGED <<cached, memory, build, writer>> /\ ~calm'
    BY DEF Reconfigure, Edit
  <1>2. ProgressOk'
    BY <1>1, StillFrame
  <1>3. QED
    BY <1>1, <1>2 DEF StillOk, SettledOk, UnchangedIsNotRedone

LEMMA FailStill ==
    ASSUME Fail
    PROVE  StillOk'
  <1>1. ~Running' /\ ~calm'
    BY DEF Fail, Running, NoBuild
  <1>2. QED
    BY <1>1 DEF StillOk, ProgressOk, SettledOk, UnchangedIsNotRedone

LEMMA RestartStill ==
    ASSUME Restart
    PROVE  StillOk'
  <1>1. ~Running' /\ ~calm'
    BY DEF Restart, Running
  <1>2. QED
    BY <1>1 DEF StillOk, ProgressOk, SettledOk, UnchangedIsNotRedone

LEMMA StutterStill ==
    ASSUME StillOk, UNCHANGED vars
    PROVE  StillOk'
  <1>1. UNCHANGED <<project, text, cached, memory, build, writer, output, calm>>
    BY DEF vars, env
  <1>2. ProgressOk'
    BY <1>1, StillFrame
  <1>3. Read' = Read /\ Running' = Running
    BY <1>1 DEF Read, Running
  <1>4. SettledOk'
    BY <1>1, <1>3 DEF StillOk, SettledOk, Settled, IsCached
  <1>5. UnchangedIsNotRedone'
    BY <1>1, <1>3 DEF StillOk, UnchangedIsNotRedone
  <1>6. QED
    BY <1>2, <1>4, <1>5 DEF StillOk

\* A document whose transform is known has a record of what was read now.
LEMMA KnownIsRecorded ==
    ASSUME Inv, NEW read, NEW f \in DOMAIN read, read[f].file = f
    PROVE  memory.project = project =>
              (IsCurrent(read[f], GroupBySource(read))
                  <=> IsRecorded(memory.transforms, project, read, f))
  <1> SUFFICES ASSUME memory.project = project
               PROVE  IsCurrent(read[f], GroupBySource(read))
                         <=> IsRecorded(memory.transforms, project, read, f)
    OBVIOUS
  <1> DEFINE record == memory.transforms[f]
  <1>1. ASSUME f \in DOMAIN memory.transforms, record.of = read[f]
        PROVE  DOMAIN record.reads = TransformReads(project, read[f].data)
    BY <1>1 DEF Inv, MemoryOk, IsMemory, IsTransform
  <1>2. QED
    BY <1>1 DEF IsCurrent, IsRecorded

LEMMA ChangingDocuments ==
    ASSUME NEW c, NEW read, DOMAIN read \subseteq Files
    PROVE  Changing(c, read)
             = {f \in DOMAIN read : /\ f \in DOMAIN GroupBySource(read)[SourceOf[f]]
                                    /\ HasTransform(c, SourceOf[f])}
  BY DocumentedFacts DEF Changing, Documented

LEMMA ValidateStill ==
    ASSUME Inv, StillOk, Validate
    PROVE  StillOk'
  <1> DEFINE kept == Documents
             groups == GroupBySource(kept)
             known(d) == /\ memory.project = project
                         /\ CachesTransforms(project, SourceOf[d.file])
                         /\ IsCurrent(d, groups)
             changing == {f \in DOMAIN kept : /\ f \in DOMAIN groups[SourceOf[f]]
                                              /\ HasTransform(project, SourceOf[f])}
             finals == [f \in DOMAIN kept |->
                           IF f \in changing /\ known(kept[f])
                           THEN memory.transforms[f].final ELSE kept[f]]
  <1>1. /\ cached' = [f \in DOMAIN kept |-> [project |-> project, document |-> kept[f]]]
        /\ memory' = MemoryFor(project)
        /\ build' = [pc |-> "transform", at |-> 1, failed |-> FALSE,
                     project |-> project, text |-> text, groups |-> groups,
                     pending |-> {f \in changing : ~known(kept[f])},
                     finals |-> finals, sets |-> <<>>, plans |-> <<>>]
        /\ UNCHANGED <<env, writer, output, calm>>
    BY DEF Validate
  <1>2. /\ DOMAIN kept = {f \in Files : text[f] # None}
        /\ \A f \in DOMAIN kept : kept[f].file = f /\ kept[f].data = text[f]
        /\ kept = [f \in DOMAIN kept |-> kept[f]]
    BY DocumentFacts DEF Documents
  <1>3. calm => kept = Read /\ memory.project = project /\ Settled
    <2> SUFFICES ASSUME calm
                 PROVE  kept = Read /\ memory.project = project /\ Settled
      OBVIOUS
    <2>1. Settled
      BY DEF StillOk, SettledOk
    <2>2. /\ memory.project = project
          /\ DOMAIN cached = {f \in Files : text[f] # None}
          /\ \A f \in DOMAIN cached : Unchanged(f)
      BY <2>1 DEF Settled, IsCached, Unchanged
    <2>3. Documents = [f \in DOMAIN cached |-> cached[f].document]
      BY <2>2 DEF Documents, Document
    <2>4. QED
      BY <2>1, <2>2, <2>3 DEF Read
  <1>4. changing = Changing(project, kept)
    <2>1. DOMAIN kept \subseteq Files
      BY <1>2
    <2>2. QED
      BY <2>1, ChangingDocuments
  <1> HIDE DEF kept, groups, changing, finals, known
  <1>5. Read' = kept
    BY <1>1, <1>2 DEF Read
  <1>6. /\ build'.pc = "transform" /\ build'.project = project /\ build'.text = text
        /\ build'.finals = finals /\ build'.plans = <<>>
        /\ build'.pending = {f \in changing : ~known(kept[f])}
    BY <1>1
  <1>7. project' = project /\ text' = text /\ calm' = calm /\ writer' = writer
    BY <1>1 DEF env
  <1>8. memory.project = project => memory' = memory
    BY <1>1 DEF MemoryFor
  <1>9. changing \subseteq DOMAIN kept
    BY DEF changing
  <1>10. \A f \in DOMAIN kept :
            memory.project = project =>
               (IsCurrent(kept[f], groups) <=> IsRecorded(memory.transforms, project, kept, f))
    BY <1>2, KnownIsRecorded DEF groups
  <1>11. /\ DOMAIN cached' = {f \in Files : text[f] # None}
         /\ \A f \in DOMAIN cached' : /\ cached'[f].project = project
                                      /\ cached'[f].document.data = text[f]
    BY <1>1, <1>2
  <1>12. ProgressOk'
    <2>1. \A f \in DOMAIN kept \ changing : finals[f] = kept[f]
      BY DEF finals
    <2>2. ASSUME NEW f \in changing, known(kept[f])
          PROVE  /\ IsRecorded(memory'.transforms, project, kept, f)
                 /\ finals[f] = memory'.transforms[f].final
      <3>1. memory.project = project /\ IsCurrent(kept[f], groups)
        BY <2>2 DEF known
      <3>2. IsRecorded(memory.transforms, project, kept, f)
        BY <1>9, <1>10, <3>1
      <3>3. finals[f] = memory.transforms[f].final
        BY <1>9, <2>2 DEF finals
      <3>4. QED
        BY <1>8, <3>1, <3>2, <3>3
    <2>3. Transforming'
      <3>1. DOMAIN cached' = DOMAIN kept
        BY <1>1
      <3>2. QED
        BY <1>4, <1>5, <1>6, <2>1, <2>2, <3>1 DEF Transforming
    <2>4. QED
      BY <1>6, <1>11, <2>3 DEF ProgressOk, Progress, IsCached
  <1>13. SettledOk'
    <2> SUFFICES ASSUME calm PROVE Settled'
      BY <1>7 DEF SettledOk
    <2>1. /\ Settled /\ memory' = memory /\ Read' = Read
      BY <1>3, <1>5, <1>8
    <2>2. QED
      BY <1>7, <1>11, <2>1 DEF Settled, IsCached
  <1>14. UnchangedIsNotRedone'
    <2> SUFFICES ASSUME calm
                 PROVE  \A f \in build'.pending : ~CachesTransforms(project, SourceOf[f])
      BY <1>6, <1>7 DEF UnchangedIsNotRedone
    <2> SUFFICES ASSUME NEW f \in changing, ~known(kept[f])
                 PROVE  ~CachesTransforms(project, SourceOf[f])
      BY <1>6
    <2>1. IsRecorded(memory.transforms, project, kept, f) /\ memory.project = project
      BY <1>3, <1>4 DEF Settled, StagesDone
    <2>2. IsCurrent(kept[f], groups) /\ kept[f].file = f
      BY <1>2, <1>9, <1>10, <2>1
    <2>3. QED
      BY <2>1, <2>2 DEF known
  <1>15. QED
    BY <1>12, <1>13, <1>14 DEF StillOk

-----------------------------------------------------------------------------
(* Transforms: one that runs again keeps the document it made before.      *)

LEMMA TransformDocumentStill ==
    ASSUME Inv, StillOk, NEW f \in Files, TransformDocument(f)
    PROVE  StillOk'
  <1> DEFINE c == build.project
             groups == build.groups
             d == cached[f].document
             data == TransformOf(c, d, groups)
             final == Final(d, data)
             reads == [s \in TransformReads(c, d.data) |-> groups[s]]
             record == [of |-> d, final |-> final, reads |-> reads]
             transforms == Put(memory.transforms, f, record)
  <1>1. /\ build.pc = "transform" /\ f \in build.pending
        /\ memory' = [memory EXCEPT !.transforms = transforms]
        /\ build' = [build EXCEPT !.pending = @ \ {f}, !.finals[f] = final]
        /\ UNCHANGED <<env, cached, writer, output, calm>>
    BY DEF TransformDocument, Turn
  <1>2. Running /\ ReadOk /\ TransformsOk /\ Progress
    BY <1>1, RunningFacts DEF Running, BuildOk, StillOk, ProgressOk
  <1>3. groups = GroupBySource(Read) /\ d = Read[f] /\ f \in Changing(c, Read)
        /\ DOMAIN Read = DOMAIN cached /\ f \in DOMAIN cached
    <2>1. f \in Documented(groups) /\ HasTransform(c, SourceOf[f])
      BY <1>1, <1>2 DEF TransformsOk
    <2>2. groups = GroupBySource(Read) /\ DOMAIN Read = DOMAIN cached
          /\ DOMAIN Read \subseteq Files
      BY <1>2 DEF ReadOk, Read, AreRead
    <2>3. f \in DOMAIN Read
      BY <2>1, <2>2, DocumentedFacts
    <2>4. QED
      BY <2>1, <2>2, <2>3 DEF Read, Changing
  <1>4. d.file = f
    BY <1>3 DEF Inv, CachedOk
  <1>5. /\ memory' = [project |-> memory.project, transforms |-> transforms,
                      prepared |-> memory.prepared, targets |-> memory.targets]
        /\ memory.project = c
    <2>1. memory = [project |-> memory.project, transforms |-> memory.transforms,
                    prepared |-> memory.prepared, targets |-> memory.targets]
      BY DEF Inv, MemoryOk, IsMemory
    <2> HIDE DEF transforms
    <2>2. QED
      BY <1>1, <1>2, <2>1 DEF ReadOk
  <1>6. build' = [pc |-> build.pc, at |-> build.at, failed |-> build.failed,
                  project |-> build.project, text |-> build.text,
                  groups |-> build.groups, pending |-> build.pending \ {f},
                  finals |-> [build.finals EXCEPT ![f] = final],
                  sets |-> build.sets, plans |-> build.plans]
    BY <1>1, <1>2 DEF ReadOk
  <1>7. /\ record.of = d /\ record.final = final
        /\ \A s \in TransformReads(c, d.data) : record.reads[s] = groups[s]
    OBVIOUS
  <1>8. /\ f \in DOMAIN transforms /\ transforms[f] = record
        /\ \A g \in DOMAIN memory.transforms : g \in DOMAIN transforms
        /\ \A g \in DOMAIN memory.transforms : g # f => transforms[g] = memory.transforms[g]
    BY DEF Put
  <1>9. Read' = Read /\ Running'
    BY <1>1, <1>6 DEF Read, Running
  <1> HIDE DEF groups, d, final, record, transforms
  <1>10. IsRecorded(transforms, c, Read, f)
    BY <1>3, <1>7, <1>8 DEF IsRecorded
  <1>11. \A g : g # f /\ IsRecorded(memory.transforms, c, Read, g) =>
                   /\ IsRecorded(transforms, c, Read, g)
                   /\ transforms[g] = memory.transforms[g]
    BY <1>8 DEF IsRecorded
  <1>12. /\ build'.pc = "transform" /\ build'.project = c /\ build'.text = build.text
         /\ build'.failed = build.failed /\ build'.pending = build.pending \ {f}
         /\ build'.finals = [build.finals EXCEPT ![f] = final]
         /\ build'.plans = build.plans /\ memory'.transforms = transforms
    BY <1>1, <1>5, <1>6
  <1>13. ProgressOk'
    <2>1. f \in DOMAIN build.finals /\ Transforming
      BY <1>1, <1>2, <1>3 DEF TransformsOk, Progress
    <2>2. build'.finals[f] = final /\ \A g : g # f => build'.finals[g] = build.finals[g]
      BY <1>12, <2>1
    <2>3. Transforming'
      <3>1. \A g \in DOMAIN cached \ Changing(c, Read) : build'.finals[g] = Read[g]
        BY <1>3, <2>1, <2>2 DEF Transforming
      <3>2. ASSUME NEW g \in Changing(c, Read) \ build'.pending, ~build.failed
            PROVE  /\ IsRecorded(transforms, c, Read, g)
                   /\ build'.finals[g] = transforms[g].final
        <4>1. CASE g = f
          BY <1>7, <1>8, <1>10, <2>2, <4>1
        <4>2. CASE g # f
          <5>1. g \in Changing(c, Read) \ build.pending
            BY <1>12, <4>2
          <5>2. /\ IsRecorded(memory.transforms, c, Read, g)
                /\ build.finals[g] = memory.transforms[g].final
            BY <2>1, <3>2, <5>1 DEF Transforming
          <5>3. QED
            BY <1>11, <2>2, <4>2, <5>2
        <4>3. QED
          BY <4>1, <4>2
      <3>3. QED
        BY <1>1, <1>9, <1>12, <3>1, <3>2 DEF Transforming
    <2>4. QED
      BY <1>1, <1>2, <1>12, <2>3 DEF ProgressOk, Progress, IsCached
  <1>14. SettledOk'
    <2> SUFFICES ASSUME calm PROVE Settled'
      BY <1>1 DEF SettledOk
    <2>1. Settled /\ project = c
      BY <1>2 DEF StillOk, SettledOk, Inv, CalmOk, Taken, Now
    <2> DEFINE last == memory.transforms[f]
    <2>2. IsRecorded(memory.transforms, c, Read, f) /\ StagesDone(memory, c, Read)
      BY <1>3, <2>1 DEF Settled, StagesDone
    <2>3. last.of = d /\ f \in DOMAIN memory.transforms
          /\ \A s \in TransformReads(c, d.data) : last.reads[s] = groups[s]
      BY <1>3, <2>2 DEF IsRecorded
    <2>4. DOMAIN last.reads = TransformReads(c, d.data)
          /\ last.final.data = TransformOf(c, d, last.reads)
      BY <1>5, <2>3 DEF Inv, MemoryOk, IsMemory, IsTransform
    <2>5. last.final.data = data
      BY <2>3, <2>4, ReadsMakeTheTransform
    <2>6. IsDocument(d)
      BY <1>3 DEF Inv, CachedOk, d
    <2>7. (data = None => final.data = None) /\ (data # None => final = last.final)
      BY <1>4, <2>3, <2>5, <2>6 DEF Final, final, IsDocument
    <2> HIDE DEF data, last
    <2>8. ASSUME NEW g \in DOMAIN Read
          PROVE  \/ FinalOf(transforms, c, Read, g) = FinalOf(memory.transforms, c, Read, g)
                 \/ /\ FinalOf(transforms, c, Read, g).data = None
                    /\ FinalOf(memory.transforms, c, Read, g).data = None
      <3>1. CASE g = f
        BY <1>3, <1>7, <1>8, <2>5, <2>7, <3>1 DEF FinalOf, last
      <3>2. CASE g # f /\ g \in Changing(c, Read)
        BY <1>11, <2>2, <3>2 DEF FinalOf, StagesDone
      <3>3. CASE g \notin Changing(c, Read)
        BY <3>3 DEF FinalOf
      <3>4. QED
        BY <3>1, <3>2, <3>3
    <2>9. \A s \in Names : DOMAIN GroupBySource(Read)[s] \subseteq DOMAIN Read
      BY DEF GroupBySource, Only
    <2>10. GivenOf(memory', c, Read) = GivenOf(memory, c, Read)
      <3>1. ASSUME NEW s \in Names
            PROVE  Given(transforms, c, Read)[s] = Given(memory.transforms, c, Read)[s]
        <4> DEFINE now(g) == FinalOf(transforms, c, Read, g)
                   old(g) == FinalOf(memory.transforms, c, Read, g)
                   files == DOMAIN GroupBySource(Read)[s]
        <4>1. \A g \in files : now(g) = old(g) \/ (now(g).data = None /\ old(g).data = None)
          BY <2>8, <2>9
        <4> HIDE DEF files, now, old
        <4>2. {g \in files : now(g).data # None} = {g \in files : old(g).data # None}
          BY <4>1
        <4>3. [g \in {g \in files : now(g).data # None} |-> now(g)]
                 = [g \in {g \in files : old(g).data # None} |-> old(g)]
          BY <4>1, <4>2
        <4>4. QED
          BY <4>3 DEF Given, files, now, old
      <3>2. Given(transforms, c, Read) = Given(memory.transforms, c, Read)
        BY <3>1 DEF Given
      <3>3. QED
        BY <1>12, <3>2 DEF GivenOf
    <2>11. memory'.prepared = memory.prepared /\ memory'.targets = memory.targets
           /\ memory'.project = c
      BY <1>5
    <2>12. \A t \in Targets : IsPlannedNow(memory, c, Read, t)
                                 => IsPlannedNow(memory', c, Read, t)
      BY <2>10, <2>11, GivenFrame, AfterFrame
    <2>13. StagesDone(memory', c, Read)
      <3>1. \A g \in Changing(c, Read) : IsRecorded(transforms, c, Read, g)
        BY <1>10, <1>11, <2>2 DEF StagesDone
      <3>2. QED
        BY <1>12, <2>2, <2>10, <2>11, <3>1 DEF StagesDone
    <2>14. IsCached(project, text)'
      BY <1>1, <2>1 DEF Settled, IsCached, env
    <2>15. project' = c /\ writer' = writer
      BY <1>1, <2>1 DEF env
    <2>16. \A t \in Targets : /\ IsPlannedNow(memory', c, Read, t)
                              /\ KeepsViews(c) => writer'[t] = memory'.targets[t].revision
      BY <2>1, <2>11, <2>12, <2>15 DEF Settled
    <2>17. QED
      BY <1>9, <2>11, <2>13, <2>14, <2>15, <2>16 DEF Settled
  <1>15. UnchangedIsNotRedone'
    BY <1>1, <1>2, <1>12 DEF StillOk, UnchangedIsNotRedone
  <1>16. QED
    BY <1>13, <1>14, <1>15 DEF StillOk

LEMMA TransformFailsStill ==
    ASSUME Inv, StillOk, NEW f \in Files, TransformFails(f)
    PROVE  StillOk'
  <1>1. /\ build.pc = "transform"
        /\ build' = [build EXCEPT !.pending = @ \ {f}, !.failed = TRUE]
        /\ UNCHANGED <<project, text, cached, memory, writer, output, calm>>
    BY DEF TransformFails, Turn
  <1>2. Running /\ ReadOk /\ Progress
    BY <1>1, RunningFacts DEF Running, StillOk, ProgressOk
  <1>3. build' = [pc |-> build.pc, at |-> build.at, failed |-> TRUE,
                  project |-> build.project, text |-> build.text,
                  groups |-> build.groups, pending |-> build.pending \ {f},
                  finals |-> build.finals, sets |-> build.sets, plans |-> build.plans]
    BY <1>1, <1>2 DEF ReadOk
  <1>4. /\ build'.pc = "transform" /\ build'.project = build.project
        /\ build'.text = build.text /\ build'.failed /\ build'.finals = build.finals
        /\ build'.pending = build.pending \ {f} /\ build'.plans = build.plans
    BY <1>1, <1>3
  <1>5. Read' = Read
    BY <1>1 DEF Read
  <1>6. ProgressOk'
    BY <1>1, <1>2, <1>4, <1>5 DEF ProgressOk, Progress, IsCached, Transforming
  <1>7. SettledOk'
    BY <1>1, <1>5 DEF StillOk, SettledOk, Settled, IsCached
  <1>8. UnchangedIsNotRedone'
    BY <1>1, <1>2, <1>4 DEF StillOk, UnchangedIsNotRedone
  <1>9. QED
    BY <1>6, <1>7, <1>8 DEF StillOk

-----------------------------------------------------------------------------
(* The hook: what it made is remembered, and is what is shown again.       *)

LEMMA HookedAgain ==
    ASSUME NEW d, NEW data, IsMade(memory.prepared, d, data) \/ d.data = data
    PROVE  PreparedDocument(d, data) = HookedOf(memory.prepared, d, data)
  BY DEF PreparedDocument, HookedOf, IsMade

\* The transforms gave the documents that are remembered.
LEMMA GivenIsRemembered ==
    ASSUME ReadOk, Transforming, build.pending = {}, ~build.failed
    PROVE  AfterTransforms = GivenOf(memory, build.project, Read)
  <1> DEFINE c == build.project
             groups == build.groups
             now(f) == FinalOf(memory.transforms, c, Read, f)
  <1>1. groups = GroupBySource(Read) /\ DOMAIN Read = DOMAIN cached
    BY DEF ReadOk, Read
  <1>2. \A f \in DOMAIN Read : build.finals[f] = now(f)
    BY <1>1 DEF Transforming, FinalOf
  <1>3. \A s \in Names : DOMAIN groups[s] \subseteq DOMAIN Read
    BY <1>1 DEF GroupBySource, Only
  <1>4. ASSUME NEW s \in Names
        PROVE  AfterTransforms[s] = Given(memory.transforms, c, Read)[s]
    <2>1. \A f \in DOMAIN groups[s] : build.finals[f] = now(f)
      BY <1>2, <1>3
    <2>2. AfterTransforms[s] = [f \in {f \in DOMAIN groups[s] : build.finals[f].data # None} |->
                                   build.finals[f]]
      BY DEF AfterTransforms
    <2>3. Given(memory.transforms, c, Read)[s]
             = [f \in {f \in DOMAIN groups[s] : now(f).data # None} |-> now(f)]
      BY <1>1 DEF Given
    <2> HIDE DEF now, groups
    <2>4. {f \in DOMAIN groups[s] : build.finals[f].data # None}
             = {f \in DOMAIN groups[s] : now(f).data # None}
      BY <2>1
    <2>5. QED
      BY <2>1, <2>2, <2>3, <2>4
  <1>5. /\ AfterTransforms = [s \in Names |-> AfterTransforms[s]]
        /\ Given(memory.transforms, c, Read)
              = [s \in Names |-> Given(memory.transforms, c, Read)[s]]
    BY DEF AfterTransforms, Given
  <1>6. AfterTransforms = Given(memory.transforms, c, Read)
    BY <1>4, <1>5
  <1>7. QED
    BY <1>6 DEF GivenOf

LEMMA PrepareStill ==
    ASSUME Inv, StillOk, Prepare
    PROVE  StillOk'
  <1> DEFINE c == build.project
             given == AfterTransforms
             data(s, f) == PreparedData(c, given[s][f], given)
             after == [s \in Names |->
                 [f \in {f \in DOMAIN given[s] : data(s, f) # None} |->
                     PreparedDocument(given[s][f], data(s, f))]]
             changed == {f \in Files : /\ f \in DOMAIN after[SourceOf[f]]
                                       /\ after[SourceOf[f]][f] # given[SourceOf[f]][f]}
             prepared == [f \in DOMAIN memory.prepared \cup changed |->
                             IF f \in changed
                             THEN [of |-> given[SourceOf[f]][f],
                                   document |-> after[SourceOf[f]][f]]
                             ELSE memory.prepared[f]]
             pc == IF \A t \in Targets : ScopeGood(c, t, after) THEN "link" ELSE "refused"
             sets == [t \in Targets |-> ScopeSources(c, t, after)]
  <1>1. /\ build.pc = "transform" /\ build.pending = {} /\ ~build.failed
        /\ memory' = [memory EXCEPT !.prepared = prepared]
        /\ build' = [build EXCEPT !.pc = pc, !.sets = sets]
        /\ UNCHANGED <<env, cached, writer, output, calm>>
    BY DEF Prepare
  <1>2. Running /\ ReadOk /\ TransformsOk /\ Progress /\ Transforming
    BY <1>1, RunningFacts DEF Running, BuildOk, StillOk, ProgressOk, Progress
  <1>3. given = GivenOf(memory, c, Read)
    BY <1>1, <1>2, GivenIsRemembered
  <1>4. AreGroups(given)
    <2>1. IsWithData(given, GroupBySource(Read), TransformData(c, GroupBySource(Read)))
      BY <1>1, AfterTransformsFacts
    <2>2. AreGroups(GroupBySource(Read))
      BY <1>2, ReadFacts DEF ReadOk
    <2>3. QED
      BY <2>1, <2>2, IsWithDataFacts
  <1> HIDE DEF given
  <1>5. \A s \in Names : \A f \in DOMAIN given[s] :
           /\ IsDocument(given[s][f]) /\ given[s][f].file = f
           /\ f \in Files /\ SourceOf[f] = s
    BY <1>4 DEF AreGroups, IsGroup
  <1>6. ASSUME NEW s \in Names
        PROVE  /\ DOMAIN after[s] = {f \in DOMAIN given[s] : data(s, f) # None}
               /\ \A f \in DOMAIN after[s] :
                     after[s][f] = PreparedDocument(given[s][f], data(s, f))
    OBVIOUS
  <1> HIDE DEF after, data
  <1>7. ASSUME NEW s \in Names, NEW f \in DOMAIN given[s], data(s, f) # None
        PROVE  /\ HookedOf(prepared, given[s][f], data(s, f))
                     = PreparedDocument(given[s][f], data(s, f))
               /\ \/ IsMade(prepared, given[s][f], data(s, f))
                  \/ given[s][f].data = data(s, f)
    <2> DEFINE d == given[s][f]
               x == data(s, f)
               a == PreparedDocument(d, x)
    <2>1. IsDocument(d) /\ d.file = f /\ f \in Files /\ SourceOf[f] = s
      BY <1>5
    <2>2. f \in DOMAIN after[s] /\ after[s][f] = a
      BY <1>6, <1>7
    <2>3. f \in changed <=> a # d
      BY <2>1, <2>2
    <2>4. a.data = x
      BY <2>1, PreparedFacts
    <2>5. CASE a # d
      <3>1. f \in DOMAIN prepared /\ prepared[f] = [of |-> d, document |-> a]
        BY <2>1, <2>2, <2>3, <2>5
      <3> HIDE DEF prepared, d, x, a
      <3>2. HookedOf(prepared, d, x) = a /\ (IsMade(prepared, d, x) \/ d.data = x)
        BY <2>1, <2>4, <3>1 DEF HookedOf, IsMade
      <3>3. QED
        BY <3>2 DEF d, x, a
    <2>6. CASE a = d
      <3>1. f \in DOMAIN prepared <=> f \in DOMAIN memory.prepared
        BY <2>3, <2>6
      <3>2. f \in DOMAIN memory.prepared => prepared[f] = memory.prepared[f]
        BY <2>3, <2>6
      <3> HIDE DEF prepared, d, x, a
      <3>3. HookedOf(prepared, d, x) = a /\ (IsMade(prepared, d, x) \/ d.data = x)
        BY <2>1, <2>4, <2>6, <3>1, <3>2 DEF HookedOf, IsMade, PreparedDocument, a
      <3>4. QED
        BY <3>3 DEF d, x, a
    <2>7. QED
      BY <2>5, <2>6
  <1> HIDE DEF prepared, changed
  <1>8. After(prepared, c, given) = after
    <2>1. ASSUME NEW s \in Names PROVE After(prepared, c, given)[s] = after[s]
      <3> DEFINE has == {f \in DOMAIN given[s] : data(s, f) # None}
      <3>1. After(prepared, c, given)[s]
               = [f \in has |-> HookedOf(prepared, given[s][f], data(s, f))]
        BY DEF After, data
      <3>2. after[s] = [f \in has |-> PreparedDocument(given[s][f], data(s, f))]
        BY DEF after
      <3>3. \A f \in has : HookedOf(prepared, given[s][f], data(s, f))
                              = PreparedDocument(given[s][f], data(s, f))
        BY <1>7
      <3> HIDE DEF has
      <3>4. QED
        BY <3>1, <3>2, <3>3
    <2>2. /\ After(prepared, c, given) = [s \in Names |-> After(prepared, c, given)[s]]
          /\ after = [s \in Names |-> after[s]]
      BY DEF After, after
    <2>3. QED
      BY <2>1, <2>2
  <1>9. AllMade(prepared, c, given)
    BY <1>7 DEF AllMade, data
  <1>10. memory' = [project |-> memory.project, transforms |-> memory.transforms,
                    prepared |-> prepared, targets |-> memory.targets]
    <2>1. memory = [project |-> memory.project, transforms |-> memory.transforms,
                    prepared |-> memory.prepared, targets |-> memory.targets]
      BY DEF Inv, MemoryOk, IsMemory
    <2>2. QED
      BY <1>1, <2>1
  <1> HIDE DEF pc, sets
  <1>11. build' = [pc |-> pc, at |-> build.at, failed |-> build.failed,
                   project |-> build.project, text |-> build.text,
                   groups |-> build.groups, pending |-> build.pending,
                   finals |-> build.finals, sets |-> sets, plans |-> build.plans]
    BY <1>1, <1>2 DEF ReadOk
  <1>12. /\ memory'.project = memory.project /\ memory'.transforms = memory.transforms
         /\ memory'.prepared = prepared /\ memory'.targets = memory.targets
         /\ build'.pc = pc /\ build'.at = 1 /\ build'.project = c /\ build'.text = build.text
         /\ build'.sets = sets /\ build'.pending = {} /\ build'.plans = build.plans
    BY <1>1, <1>2, <1>10, <1>11 DEF TransformsOk
  <1>13. Read' = Read
    BY <1>1 DEF Read
  <1>14. GivenOf(memory', c, Read) = given /\ AfterOf(memory', c, Read) = after
    BY <1>3, <1>8, <1>12 DEF GivenOf, AfterOf
  <1>15. StagesDone(memory', c, Read)
    <2>1. \A f \in Changing(c, Read) : IsRecorded(memory.transforms, c, Read, f)
      BY <1>1, <1>2 DEF Transforming
    <2>2. QED
      BY <1>9, <1>12, <1>14, <2>1 DEF StagesDone
  <1>16. ProgressOk'
    <2>1. pc \in {"link", "refused"}
      BY DEF pc
    <2>2. SetsFrom(build.at)'
      <3>1. \A t \in Targets : sets[t] = SetOf(memory', c, Read, t)
        BY <1>14 DEF sets, SetOf
      <3>2. QED
        BY <1>12, <1>13, <3>1, OrderFacts DEF SetsFrom
    <2>3. PlannedUpTo(build.at - 1)'
      BY <1>12, OrderFacts DEF PlannedUpTo
    <2>4. IsCached(build.project, build.text)'
      BY <1>1, <1>2, <1>12 DEF Progress, IsCached
    <2>5. QED
      BY <1>12, <1>13, <1>15, <2>1, <2>2, <2>3, <2>4 DEF ProgressOk, Progress
  <1>17. SettledOk'
    <2> SUFFICES ASSUME calm PROVE Settled'
      BY <1>1 DEF SettledOk
    <2>1. Settled /\ project = c
      BY <1>2 DEF StillOk, SettledOk, Inv, CalmOk, Taken, Now
    <2>2. AllMade(memory.prepared, c, given)
      BY <1>3, <2>1 DEF Settled, StagesDone
    <2>3. \A s \in Names : \A f \in DOMAIN given[s] :
             data(s, f) # None =>
                PreparedDocument(given[s][f], data(s, f))
                   = HookedOf(memory.prepared, given[s][f], data(s, f))
      BY <2>2, HookedAgain DEF AllMade, data
    <2>4. after = After(memory.prepared, c, given)
      <3>1. ASSUME NEW s \in Names PROVE After(memory.prepared, c, given)[s] = after[s]
        <4> DEFINE has == {f \in DOMAIN given[s] : data(s, f) # None}
        <4>1. After(memory.prepared, c, given)[s]
                 = [f \in has |-> HookedOf(memory.prepared, given[s][f], data(s, f))]
          BY DEF After, data
        <4>2. after[s] = [f \in has |-> PreparedDocument(given[s][f], data(s, f))]
          BY DEF after
        <4>3. \A f \in has : HookedOf(memory.prepared, given[s][f], data(s, f))
                                = PreparedDocument(given[s][f], data(s, f))
          BY <2>3
        <4> HIDE DEF has
        <4>4. QED
          BY <4>1, <4>2, <4>3
      <3>2. /\ After(memory.prepared, c, given)
                  = [s \in Names |-> After(memory.prepared, c, given)[s]]
            /\ after = [s \in Names |-> after[s]]
        BY DEF After, after
      <3>3. QED
        BY <3>1, <3>2
    <2>5. AfterOf(memory', c, Read) = AfterOf(memory, c, Read)
      BY <1>3, <1>14, <2>4 DEF AfterOf
    <2>6. \A t \in Targets : IsPlannedNow(memory, c, Read, t)
                                => IsPlannedNow(memory', c, Read, t)
      BY <1>12, <2>5, AfterFrame
    <2>7. IsCached(project, text)'
      BY <1>1, <2>1 DEF Settled, IsCached, env
    <2>8. project' = c /\ writer' = writer
      BY <1>1, <2>1 DEF env
    <2>9. \A t \in Targets : /\ IsPlannedNow(memory', c, Read, t)
                             /\ KeepsViews(c) => writer'[t] = memory'.targets[t].revision
      BY <1>12, <2>1, <2>6, <2>8 DEF Settled
    <2>10. memory'.project = c
      BY <1>12, <2>1 DEF Settled
    <2>11. QED
      BY <1>13, <1>15, <2>7, <2>8, <2>9, <2>10 DEF Settled
  <1>18. UnchangedIsNotRedone'
    BY <1>1, <1>2, <1>12 DEF StillOk, UnchangedIsNotRedone
  <1>19. QED
    BY <1>16, <1>17, <1>18 DEF StillOk

-----------------------------------------------------------------------------
(* The targets: the files that are planned are those that are remembered.  *)

LEMMA PutFrame ==
    ASSUME MemoryOk, NEW t \in Targets, NEW m, memory' = [memory EXCEPT !.targets[t] = m]
    PROVE  /\ memory'.project = memory.project
           /\ memory'.transforms = memory.transforms /\ memory'.prepared = memory.prepared
           /\ memory'.targets[t] = m
           /\ \A u \in Targets : u # t => memory'.targets[u] = memory.targets[u]
  <1>1. memory' = [project |-> memory.project, transforms |-> memory.transforms,
                   prepared |-> memory.prepared,
                   targets |-> [memory.targets EXCEPT ![t] = m]]
    BY DEF MemoryOk, IsMemory
  <1>2. QED
    BY <1>1 DEF MemoryOk, IsMemory

\* What a target remembers does not touch the earlier stages.
LEMMA TargetFrame ==
    ASSUME NEW m, NEW n, m.transforms = n.transforms, m.prepared = n.prepared,
           NEW c, NEW read
    PROVE  /\ StagesDone(m, c, read) <=> StagesDone(n, c, read)
           /\ \A t : /\ SetOf(m, c, read, t) = SetOf(n, c, read, t)
                     /\ LinkedOf(m, c, read, t) = LinkedOf(n, c, read, t)
                     /\ m.targets[t].files = n.targets[t].files =>
                           (IsPlannedNow(m, c, read, t) <=> IsPlannedNow(n, c, read, t))
  <1>1. /\ GivenOf(m, c, read) = GivenOf(n, c, read)
        /\ StagesDone(m, c, read) <=> StagesDone(n, c, read)
    BY MadeFrame
  <1>2. AfterOf(m, c, read) = AfterOf(n, c, read)
    BY <1>1, GivenFrame
  <1>3. QED
    BY <1>1, <1>2, AfterFrame

LEMMA LinkTargetStill ==
    ASSUME Inv, StillOk, LinkTarget
    PROVE  StillOk'
  <1> DEFINE c == build.project
             t == Target
             old == Remembered
             linked == LinkAll(build.sets[t])
             groups == linked.groups
             passes == linked.groups \in old.passed \/ NoConflict(linked.groups)
             good == linked.good /\ passes
             derived == [v \in Views |-> Derive(v, linked.groups)]
             shown == {v \in Views : ViewGood(derived[v].rows)}
             views == IF good THEN [v \in DOMAIN old.derived \cup shown |->
                                       IF v \in shown THEN derived[v] ELSE old.derived[v]]
                      ELSE old.derived
             passed == IF passes THEN {linked.groups} ELSE {}
             m == [old EXCEPT !.groups = linked.known, !.passed = passed, !.derived = views]
             pc == IF good /\ shown = Views THEN "plan" ELSE "refused"
  <1>1. /\ build.pc = "link"
        /\ memory' = [memory EXCEPT !.targets[t] = m]
        /\ build' = [build EXCEPT !.sets[t] = groups, !.pc = pc]
        /\ UNCHANGED <<env, cached, writer, output, calm>>
    BY DEF LinkTarget
  <1>2. /\ Running /\ ReadOk /\ SetsOk(build.at) /\ Progress
        /\ SetsFrom(build.at) /\ PlannedUpTo(build.at - 1)
        /\ StagesDone(memory, c, Read)
    BY <1>1, RunningFacts DEF Running, BuildOk, StillOk, ProgressOk, Progress
  <1>3. /\ t \in Targets /\ t = TargetOrder[build.at] /\ build.at \in 1..Len(TargetOrder)
        /\ build.at \in DOMAIN TargetOrder
        /\ \A i \in DOMAIN TargetOrder : i # build.at => TargetOrder[i] # t
    BY <1>2, TargetFacts, OrderFacts
  <1>4. IsRemembered(c, old) /\ old = memory.targets[t]
    BY <1>2, <1>3 DEF Inv, MemoryOk, IsMemory, Remembered, ReadOk
  <1> HIDE DEF t
  <1>5. build.sets[t] = SetOf(memory, c, Read, t)
    BY <1>3, OrderFacts, <1>2 DEF SetsFrom
  <1>6. groups = LinkedOf(memory, c, Read, t)
    <2>1. AreGroups(build.sets[t])
      <3>1. build.at >= build.at
        BY <1>3, OrderFacts
      <3>2. IsSet(Taken, t, build.sets[t])
        BY <1>2, <1>3, <3>1 DEF SetsOk
      <3>3. QED
        BY <3>2 DEF IsSet
    <2>2. IsKnown(Remembered.groups)
      BY <1>4 DEF IsRemembered
    <2>3. groups = Fresh!Link(build.sets[t]).groups
      BY <2>1, <2>2, LinkAllFacts
    <2>4. QED
      BY <1>5, <2>3 DEF LinkedOf
  <1> HIDE DEF linked, passed, views
  <1>7. m.files = old.files /\ m.revision = old.revision
    <2>1. old = [groups |-> old.groups, passed |-> old.passed, derived |-> old.derived,
                 files |-> old.files, values |-> old.values, revision |-> old.revision]
      BY <1>4 DEF IsRemembered
    <2> HIDE DEF old
    <2> DEFINE first == [old EXCEPT !.groups = linked.known]
               second == [first EXCEPT !.passed = passed]
    <2>2. m = [second EXCEPT !.derived = views]
      OBVIOUS
    <2>3. first = [groups |-> linked.known, passed |-> old.passed, derived |-> old.derived,
                   files |-> old.files, values |-> old.values, revision |-> old.revision]
      BY <2>1
    <2> HIDE DEF first
    <2>4. second = [groups |-> linked.known, passed |-> passed, derived |-> old.derived,
                    files |-> old.files, values |-> old.values, revision |-> old.revision]
      BY <2>3
    <2> HIDE DEF second, m
    <2>5. QED
      BY <2>2, <2>4
  <1> HIDE DEF m, groups, pc
  <1>8. /\ memory'.project = memory.project
        /\ memory'.transforms = memory.transforms /\ memory'.prepared = memory.prepared
        /\ \A u \in Targets : /\ memory'.targets[u].files = memory.targets[u].files
                              /\ memory'.targets[u].revision = memory.targets[u].revision
    <2>1. /\ memory'.project = memory.project
          /\ memory'.transforms = memory.transforms /\ memory'.prepared = memory.prepared
          /\ memory'.targets[t] = m
          /\ \A u \in Targets : u # t => memory'.targets[u] = memory.targets[u]
      BY <1>1, <1>3, PutFrame DEF Inv
    <2>2. QED
      BY <1>4, <1>7, <2>1
  <1>9. build' = [pc |-> pc, at |-> build.at, failed |-> build.failed,
                  project |-> build.project, text |-> build.text,
                  groups |-> build.groups, pending |-> build.pending,
                  finals |-> build.finals, sets |-> [build.sets EXCEPT ![t] = groups],
                  plans |-> build.plans]
    BY <1>1, <1>2 DEF ReadOk
  <1>10. /\ build'.pc = pc /\ build'.at = build.at /\ build'.project = c
         /\ build'.text = build.text /\ build'.pending = build.pending
         /\ build'.sets = [build.sets EXCEPT ![t] = groups] /\ build'.plans = build.plans
         /\ Target' = t
    BY <1>3, <1>9 DEF Target
  <1>11. Read' = Read
    BY <1>1 DEF Read
  <1>12. /\ StagesDone(memory', c, Read) <=> StagesDone(memory, c, Read)
         /\ \A u \in Targets :
               /\ SetOf(memory', c, Read, u) = SetOf(memory, c, Read, u)
               /\ LinkedOf(memory', c, Read, u) = LinkedOf(memory, c, Read, u)
               /\ IsPlannedNow(memory', c, Read, u) <=> IsPlannedNow(memory, c, Read, u)
    BY <1>8, TargetFrame
  <1>13. /\ build'.sets[t] = groups
         /\ \A u \in Targets : u # t => build'.sets[u] = build.sets[u]
    <2>1. build.sets = [u \in Targets |-> build.sets[u]]
      BY <1>2 DEF SetsOk
    <2>2. QED
      BY <1>3, <1>10, <2>1
  <1>14. ProgressOk'
    <2>1. pc \in {"plan", "refused"}
      BY DEF pc
    <2>2. SetsFrom(build.at + 1)'
      <3>1. ASSUME NEW i \in DOMAIN TargetOrder, i >= build.at + 1
            PROVE  build'.sets[TargetOrder[i]] = SetOf(memory', c, Read, TargetOrder[i])
        <4>1. i >= build.at /\ i # build.at
          BY <1>3, <3>1, OrderFacts
        <4>2. TargetOrder[i] \in Targets /\ TargetOrder[i] # t
          BY <1>3, <4>1, OrderFacts
        <4>3. QED
          BY <1>2, <1>12, <1>13, <4>1, <4>2 DEF SetsFrom
      <3>2. QED
        BY <1>10, <1>11, <3>1 DEF SetsFrom
    <2>3. PlannedUpTo(build.at - 1)'
      BY <1>2, <1>10, <1>11, <1>12, OrderFacts DEF PlannedUpTo
    <2>4. IsCached(build.project, build.text)'
      BY <1>1, <1>2, <1>10 DEF Progress, IsCached
    <2>5. build'.sets[Target'] = LinkedOf(memory', c, Read, Target')
      BY <1>3, <1>6, <1>10, <1>12, <1>13
    <2>6. StagesDone(memory', c, Read)
      BY <1>2, <1>12
    <2>7. QED
      BY <1>10, <1>11, <2>1, <2>2, <2>3, <2>4, <2>5, <2>6 DEF ProgressOk, Progress
  <1>15. SettledOk'
    <2> SUFFICES ASSUME calm PROVE Settled'
      BY <1>1 DEF SettledOk
    <2>1. Settled /\ project = c
      BY <1>2 DEF StillOk, SettledOk, Inv, CalmOk, Taken, Now
    <2>2. IsCached(project, text)'
      BY <1>1, <2>1 DEF Settled, IsCached, env
    <2>3. project' = c /\ writer' = writer
      BY <1>1, <2>1 DEF env
    <2>4. QED
      BY <1>8, <1>11, <1>12, <2>1, <2>2, <2>3 DEF Settled
  <1>16. UnchangedIsNotRedone'
    BY <1>1, <1>2, <1>10 DEF StillOk, UnchangedIsNotRedone
  <1>17. QED
    BY <1>14, <1>15, <1>16 DEF StillOk

\* What a plan holds is what is there.
IsNoNews(plan, t, c) ==
    /\ DOMAIN plan.files = DOMAIN output[t]
    /\ \A p \in DOMAIN output[t] : plan.files[p].hash = output[t][p]
    /\ KeepsViews(c) => plan.revision = writer[t]

LEMMA PlanTargetStill ==
    ASSUME Inv, StillOk, PlanTarget
    PROVE  StillOk'
  <1> DEFINE c == build.project
             t == Target
             groups == build.sets[t]
             old == Remembered
             tables == [s \in Names |-> File(LookupInputs(groups[s]), Entries(groups[s]))]
             entries == [s \in Names |-> KeptText(old.values, s, tables[s])]
             good == {s \in Names : \/ SameObjects(old.values, s, tables[s].inputs)
                                    \/ Distinct(groups[s])}
             paths == PathsOf(groups)
             file == [p \in paths |-> PlanFile(c, groups, old.derived, entries, p)]
             hash(p) == IF IsAnew(p) THEN file[p].text ELSE KeptText(old.files, p, file[p])
             changed == \/ DOMAIN old.files # paths
                        \/ \E p \in paths : IsAnew(p)
                        \/ \E p \in DOMAIN old.files : old.files[p].inputs # file[p].inputs
             revision == IF changed THEN NewRevision ELSE old.revision
             last == build.at = Len(TargetOrder)
             files == [p \in paths |-> File(file[p].inputs, hash(p))]
             values == [s \in DOMAIN old.values \cup good |->
                           IF s \in good THEN File(tables[s].inputs, entries[s])
                           ELSE old.values[s]]
             m == [old EXCEPT !.files = files, !.values = values, !.revision = revision]
             plan == [revision |-> revision,
                      files |-> [p \in paths |-> [hash |-> hash(p), text |-> file[p].text]]]
             at == IF last THEN 1 ELSE build.at + 1
             pc == IF good # Names THEN "refused" ELSE IF last THEN "publish" ELSE "link"
  <1>1. /\ build.pc = "plan"
        /\ memory' = [memory EXCEPT !.targets[t] = m]
        /\ build' = [build EXCEPT !.plans = Put(@, t, plan), !.at = at, !.pc = pc]
        /\ UNCHANGED <<env, cached, writer, output, calm>>
    BY DEF PlanTarget
  <1>2. /\ Running /\ ReadOk /\ LinkOk /\ Progress
        /\ SetsFrom(build.at + 1) /\ PlannedUpTo(build.at - 1)
        /\ StagesDone(memory, c, Read)
    BY <1>1, RunningFacts DEF Running, BuildOk, StillOk, ProgressOk, Progress
  <1>3. /\ t \in Targets /\ t = TargetOrder[build.at] /\ build.at \in 1..Len(TargetOrder)
        /\ \A i \in DOMAIN TargetOrder : i # build.at => TargetOrder[i] # t
    BY <1>2, TargetFacts
  <1>4. IsRemembered(c, old) /\ old = memory.targets[t]
    BY <1>2, <1>3 DEF Inv, MemoryOk, IsMemory, Remembered, ReadOk
  <1>5. groups = LinkedOf(memory, c, Read, t)
    BY <1>1, <1>2 DEF Progress
  <1>6. /\ AreGroups(groups)
        /\ \A v \in Views : old.derived[v] = Derived(c, v, groups)
    BY <1>2 DEF LinkOk, IsLinked
  <1> HIDE DEF t, groups, old
  <1>7. entries = [s \in Names |-> Entries(groups[s])]
    <2>1. ASSUME NEW s \in Names PROVE entries[s] = Entries(groups[s])
      <3>1. tables[s] = File(LookupInputs(groups[s]), LookupInputs(groups[s]))
        BY DistinctFacts
      <3>2. entries[s] = KeptText(old.values, s, tables[s])
        OBVIOUS
      <3>3. \A x, y : File(x, y).inputs = x /\ File(x, y).text = y
        BY DEF File
      <3> HIDE DEF tables, entries
      <3>4. s \in DOMAIN old.values => old.values[s].text = old.values[s].inputs
        BY <1>4, <3>3 DEF IsRemembered
      <3>5. entries[s] = LookupInputs(groups[s])
        BY <3>1, <3>2, <3>3, <3>4 DEF KeptText, SameObjects
      <3>6. QED
        BY <3>5, DistinctFacts
    <2>2. entries = [s \in Names |-> entries[s]]
      OBVIOUS
    <2> HIDE DEF entries
    <2>3. QED
      BY <2>1, <2>2
  <1> HIDE DEF tables, entries
  <1>8. \A p \in paths : file[p] = FileOf(c, groups, p)
    <2>1. \A p \in paths : file[p] = PlanFile(c, groups, old.derived, entries, p)
      OBVIOUS
    <2> HIDE DEF file, paths
    <2>2. QED
      BY <1>6, <1>7, <2>1, PlannedFile DEF paths
  <1>9. AreFiles(files, c, groups)
    <2>1. DOMAIN files = paths /\ \A p \in paths : files[p] = File(file[p].inputs, hash(p))
      OBVIOUS
    <2> HIDE DEF files, file, hash
    <2>2. \A p \in paths : files[p].inputs = file[p].inputs
      BY <2>1 DEF File
    <2>3. QED
      BY <1>8, <2>1, <2>2 DEF AreFiles
  \* A plan with the files of before keeps its revision.
  <1>10. IsPlannedNow(memory, c, Read, t) /\ KeepsViews(c) => revision = old.revision
    <2> SUFFICES ASSUME IsPlannedNow(memory, c, Read, t), KeepsViews(c) PROVE ~changed
      OBVIOUS
    <2>1. AreFiles(old.files, c, groups)
      BY <1>4, <1>5 DEF IsPlannedNow
    <2>2. DOMAIN old.files = paths
          /\ \A p \in DOMAIN old.files : old.files[p].inputs = FileOf(c, groups, p).inputs
      BY <2>1 DEF AreFiles
    <2>3. ASSUME NEW p \in paths PROVE ~IsAnew(p)
      <3>1. p[1] = "view" => p[2] \in Views
        BY <1>6, PathKinds
      <3>2. QED
        BY <3>1 DEF IsAnew, KeepsViews
    <2> HIDE DEF file, paths
    <2>4. QED
      BY <1>8, <2>2, <2>3
  <1> HIDE DEF files, values, revision
  <1>11. m.files = files /\ m.revision = revision
    <2>1. old = [groups |-> old.groups, passed |-> old.passed, derived |-> old.derived,
                 files |-> old.files, values |-> old.values, revision |-> old.revision]
      BY <1>4 DEF IsRemembered
    <2> DEFINE first == [old EXCEPT !.files = files]
               second == [first EXCEPT !.values = values]
    <2>2. m = [second EXCEPT !.revision = revision]
      OBVIOUS
    <2>3. first = [groups |-> old.groups, passed |-> old.passed, derived |-> old.derived,
                   files |-> files, values |-> old.values, revision |-> old.revision]
      BY <2>1
    <2> HIDE DEF first
    <2>4. second = [groups |-> old.groups, passed |-> old.passed, derived |-> old.derived,
                    files |-> files, values |-> values, revision |-> old.revision]
      BY <2>3
    <2> HIDE DEF second, m
    <2>5. QED
      BY <2>2, <2>4
  <1>12. plan.revision = revision
    OBVIOUS
  <1> HIDE DEF m, plan, at, pc
  <1>13. /\ memory'.project = memory.project
         /\ memory'.transforms = memory.transforms /\ memory'.prepared = memory.prepared
         /\ memory'.targets[t] = m
         /\ \A u \in Targets : u # t => memory'.targets[u] = memory.targets[u]
    BY <1>1, <1>3, PutFrame DEF Inv
  <1> DEFINE plans == Put(build.plans, t, plan)
  <1>14. build' = [pc |-> pc, at |-> at, failed |-> build.failed,
                   project |-> build.project, text |-> build.text,
                   groups |-> build.groups, pending |-> build.pending,
                   finals |-> build.finals, sets |-> build.sets, plans |-> plans]
    <2>1. build = [pc |-> build.pc, at |-> build.at, failed |-> build.failed,
                   project |-> build.project, text |-> build.text,
                   groups |-> build.groups, pending |-> build.pending,
                   finals |-> build.finals, sets |-> build.sets, plans |-> build.plans]
      BY <1>2 DEF ReadOk
    <2>2. build' = [[[build EXCEPT !.plans = plans] EXCEPT !.at = at] EXCEPT !.pc = pc]
      BY <1>1
    <2> HIDE DEF plans
    <2> DEFINE first == [build EXCEPT !.plans = plans]
               second == [first EXCEPT !.at = at]
    <2>3. first = [pc |-> build.pc, at |-> build.at, failed |-> build.failed,
                   project |-> build.project, text |-> build.text,
                   groups |-> build.groups, pending |-> build.pending,
                   finals |-> build.finals, sets |-> build.sets, plans |-> plans]
      BY <2>1
    <2>4. build' = [second EXCEPT !.pc = pc]
      BY <2>2
    <2> HIDE DEF first
    <2>5. second = [pc |-> build.pc, at |-> at, failed |-> build.failed,
                    project |-> build.project, text |-> build.text,
                    groups |-> build.groups, pending |-> build.pending,
                    finals |-> build.finals, sets |-> build.sets, plans |-> plans]
      BY <2>3
    <2> HIDE DEF second
    <2>6. QED
      BY <2>4, <2>5
  <1> HIDE DEF plans
  <1>15. /\ build'.pc = pc /\ build'.at = at /\ build'.project = c
         /\ build'.text = build.text /\ build'.pending = build.pending
         /\ build'.sets = build.sets /\ build'.plans = plans
    BY <1>14
  <1>16. Read' = Read
    BY <1>1 DEF Read
  <1>17. /\ StagesDone(memory', c, Read) <=> StagesDone(memory, c, Read)
         /\ \A u \in Targets :
               /\ SetOf(memory', c, Read, u) = SetOf(memory, c, Read, u)
               /\ LinkedOf(memory', c, Read, u) = LinkedOf(memory, c, Read, u)
               /\ u # t => (IsPlannedNow(memory', c, Read, u) <=> IsPlannedNow(memory, c, Read, u))
    BY <1>13, TargetFrame
  <1>18. IsPlannedNow(memory', c, Read, t)
    BY <1>3, <1>5, <1>9, <1>11, <1>13, <1>17 DEF IsPlannedNow
  <1>19. \A i \in DOMAIN TargetOrder :
            i <= build.at => IsPlannedNow(memory', c, Read, TargetOrder[i])
    <2>1. ASSUME NEW i \in DOMAIN TargetOrder, i <= build.at
          PROVE  IsPlannedNow(memory', c, Read, TargetOrder[i])
      <3>1. CASE i = build.at
        BY <1>3, <1>18, <3>1
      <3>2. CASE i # build.at
        <4>1. i <= build.at - 1
          BY <1>3, <2>1, <3>2, OrderFacts
        <4>2. TargetOrder[i] # t /\ TargetOrder[i] \in Targets
          BY <1>3, <3>2, OrderFacts
        <4>3. QED
          BY <1>2, <1>17, <4>1, <4>2 DEF PlannedUpTo
      <3>3. QED
        BY <3>1, <3>2
    <2>2. QED
      BY <2>1
  <1>20. IsCached(build.project, build.text)'
    BY <1>1, <1>2, <1>15 DEF Progress, IsCached
  <1>21. StagesDone(memory', c, Read)
    BY <1>2, <1>17
  <1>22. ProgressOk'
    <2>1. CASE good # Names
      <3>1. build'.pc = "refused"
        BY <1>15, <2>1 DEF pc
      <3>2. QED
        BY <1>20, <3>1 DEF ProgressOk, Progress
    <2>2. CASE good = Names /\ last
      <3>1. build'.pc = "publish" /\ build'.at = 1 /\ build.at = Len(TargetOrder)
        BY <1>15, <2>2 DEF pc, at
      <3>2. PlannedUpTo(Len(TargetOrder))'
        BY <1>15, <1>16, <1>19, <3>1 DEF PlannedUpTo
      <3>3. \A i \in DOMAIN TargetOrder : ~(i < 1)
        BY OrderFacts
      <3>4. QED
        BY <1>15, <1>16, <1>20, <1>21, <3>1, <3>2, <3>3 DEF ProgressOk, Progress
    <2>3. CASE good = Names /\ ~last
      <3>1. build'.pc = "link" /\ build'.at = build.at + 1 /\ build'.at - 1 = build.at
        BY <1>3, <1>15, <2>3 DEF pc, at
      <3>2. SetsFrom(build.at)'
        <4>1. \A i \in DOMAIN TargetOrder : i >= build.at + 1 =>
                 build.sets[TargetOrder[i]] = SetOf(memory', c, Read, TargetOrder[i])
          BY <1>2, <1>17, OrderFacts DEF SetsFrom
        <4>2. QED
          BY <1>15, <1>16, <3>1, <4>1 DEF SetsFrom
      <3>3. PlannedUpTo(build.at - 1)'
        <4>1. \A i \in DOMAIN TargetOrder : i <= build'.at - 1 =>
                 IsPlannedNow(memory', c, Read, TargetOrder[i])
          BY <1>19, <3>1
        <4>2. QED
          BY <1>15, <1>16, <4>1 DEF PlannedUpTo
      <3>4. QED
        BY <1>15, <1>16, <1>20, <1>21, <3>1, <3>2, <3>3 DEF ProgressOk, Progress
    <2>4. QED
      BY <2>1, <2>2, <2>3
  <1>23. calm => /\ Settled /\ Taken = Now /\ project = c
                 /\ KeepsViews(c) => revision = writer[t]
    <2> SUFFICES ASSUME calm
                 PROVE  /\ Settled /\ Taken = Now /\ project = c
                        /\ KeepsViews(c) => revision = writer[t]
      OBVIOUS
    <2>1. Settled /\ Taken = Now /\ project = c
      BY <1>2 DEF StillOk, SettledOk, Inv, CalmOk, Taken, Now
    <2>2. IsPlannedNow(memory, c, Read, t) /\ (KeepsViews(c) => writer[t] = old.revision)
      BY <1>3, <1>4, <2>1 DEF Settled
    <2>3. QED
      BY <1>10, <2>1, <2>2
  <1>24. SettledOk'
    <2> SUFFICES ASSUME calm PROVE Settled'
      BY <1>1 DEF SettledOk
    <2>1. Settled /\ project = c /\ (KeepsViews(c) => revision = writer[t])
      BY <1>23
    <2>2. IsCached(project, text)'
      BY <1>1, <2>1 DEF Settled, IsCached, env
    <2>3. project' = c /\ writer' = writer
      BY <1>1, <2>1 DEF env
    <2>4. ASSUME NEW u \in Targets
          PROVE  /\ IsPlannedNow(memory', c, Read, u)
                 /\ KeepsViews(c) => writer[u] = memory'.targets[u].revision
      <3>1. CASE u = t
        BY <1>11, <1>13, <1>18, <2>1, <3>1
      <3>2. CASE u # t
        BY <1>13, <1>17, <2>1, <3>2 DEF Settled
      <3>3. QED
        BY <3>1, <3>2
    <2>5. memory'.project = c
      BY <1>13, <2>1 DEF Settled
    <2>6. QED
      BY <1>16, <1>21, <2>2, <2>3, <2>4, <2>5 DEF Settled
  <1>25. UnchangedIsNotRedone'
    <2> SUFFICES ASSUME calm
                 PROVE  /\ \A f \in build'.pending : ~CachesTransforms(c, SourceOf[f])
                        /\ \A u \in Targets \cap DOMAIN plans : IsNoNews(plans[u], u, c)
      BY <1>1, <1>15 DEF UnchangedIsNotRedone, IsNoNews, KeepsViews
    <2>1. /\ \A f \in build.pending : ~CachesTransforms(c, SourceOf[f])
          /\ \A u \in Targets \cap DOMAIN build.plans : IsNoNews(build.plans[u], u, c)
      BY <1>2 DEF StillOk, UnchangedIsNotRedone, IsNoNews, KeepsViews
    <2>2. /\ \A u \in DOMAIN plans : plans[u] = IF u = t THEN plan ELSE build.plans[u]
          /\ \A u \in DOMAIN plans : u # t => u \in DOMAIN build.plans
          /\ plans[t] = plan
      BY DEF plans, Put
    <2>3. IsPlanOf(plan, Taken, t)
      BY <1>15, <2>2, PlanTargetInv DEF t
    <2>4. output[t] = Fresh!Output(Taken, t)
      BY <1>3, <1>23 DEF Inv, CalmOk
    <2>5. IsNoNews(plan, t, c)
      BY <1>12, <1>23, <2>3, <2>4 DEF IsNoNews, IsPlanOf
    <2>6. QED
      BY <1>15, <2>1, <2>2, <2>5
  <1>26. QED
    BY <1>22, <1>24, <1>25 DEF StillOk

-----------------------------------------------------------------------------
(* A good build leaves everything settled, and nothing is done again then. *)

LEMMA PublishStill ==
    ASSUME Inv, StillOk, Publish
    PROVE  StillOk'
  <1> DEFINE c == build.project
             t == Target
             revision == memory.targets[t].revision
             last == build.at = Len(TargetOrder)
  <1>1. /\ Running /\ BuildOk /\ t \in Targets /\ t = TargetOrder[build.at]
        /\ writer' = [writer EXCEPT ![t] = revision]
        /\ UNCHANGED <<project, text, cached, memory>>
        /\ build' = IF last THEN NoBuild ELSE [build EXCEPT !.at = build.at + 1]
        /\ calm' = IF last THEN Taken = Now ELSE calm
    BY PublishFacts
  <1>2. build.pc = "publish" /\ ReadOk /\ Progress
    BY <1>1 DEF Publish, BuildOk, StillOk, ProgressOk
  <1>3. /\ IsCached(c, build.text) /\ StagesDone(memory, c, Read)
        /\ PlannedUpTo(Len(TargetOrder))
        /\ \A i \in DOMAIN TargetOrder : i < build.at =>
              writer[TargetOrder[i]] = memory.targets[TargetOrder[i]].revision
    BY <1>2 DEF Progress
  <1>4. build.at \in 1..Len(TargetOrder)
        /\ \A i \in DOMAIN TargetOrder : i # build.at => TargetOrder[i] # t
    BY <1>2, TargetFacts
  <1>5. Read' = Read
    BY <1>1 DEF Read
  <1> HIDE DEF t
  <1>6. /\ writer' = [u \in Targets |-> writer'[u]] /\ writer'[t] = revision
        /\ \A u \in Targets : u # t => writer'[u] = writer[u]
    <2>1. writer = [u \in Targets |-> writer[u]]
      BY DEF Inv, WrittenOk
    <2> HIDE DEF revision
    <2>2. QED
      BY <1>1, <2>1
  <1>7. \A i \in DOMAIN TargetOrder : i <= build.at =>
           writer'[TargetOrder[i]] = memory.targets[TargetOrder[i]].revision
    <2>1. ASSUME NEW i \in DOMAIN TargetOrder, i <= build.at
          PROVE  writer'[TargetOrder[i]] = memory.targets[TargetOrder[i]].revision
      <3>1. CASE i = build.at
        BY <1>1, <1>6, <3>1
      <3>2. CASE i # build.at
        <4>1. i < build.at
          BY <1>4, <2>1, <3>2, OrderFacts
        <4>2. TargetOrder[i] # t /\ TargetOrder[i] \in Targets
          BY <1>4, <3>2, OrderFacts
        <4>3. QED
          BY <1>3, <1>6, <4>1, <4>2
      <3>3. QED
        BY <3>1, <3>2
    <2>2. QED
      BY <2>1
  <1>8. CASE last
    <2>1. ~Running'
      BY <1>1, <1>8 DEF NoBuild, Running
    <2>2. SettledOk'
      <3> SUFFICES ASSUME Taken = Now PROVE Settled'
        BY <1>1, <1>8 DEF SettledOk
      <3>1. build.project = project /\ build.text = text
        BY DEF Taken, Now
      <3>2. memory.project = project
        BY <1>2, <3>1 DEF ReadOk
      <3>3. ASSUME NEW u \in Targets
            PROVE  IsPlannedNow(memory, c, Read, u) /\ writer'[u] = memory.targets[u].revision
        <4>1. PICK i \in DOMAIN TargetOrder : TargetOrder[i] = u
          BY OrderFacts
        <4>2. i <= Len(TargetOrder) /\ i <= build.at
          BY <1>8, OrderFacts
        <4>3. QED
          BY <1>3, <1>7, <4>1, <4>2 DEF PlannedUpTo
      <3>4. IsCached(project, text)'
        BY <1>1, <1>3, <3>1 DEF IsCached
      <3>5. QED
        BY <1>1, <1>3, <1>5, <3>1, <3>2, <3>3, <3>4 DEF Settled
    <2>3. QED
      BY <2>1, <2>2 DEF StillOk, ProgressOk, UnchangedIsNotRedone
  <1>9. CASE ~last
    <2>1. build' = [pc |-> build.pc, at |-> build.at + 1, failed |-> build.failed,
                    project |-> build.project, text |-> build.text,
                    groups |-> build.groups, pending |-> build.pending,
                    finals |-> build.finals, sets |-> build.sets, plans |-> build.plans]
      <3>1. build = [pc |-> build.pc, at |-> build.at, failed |-> build.failed,
                     project |-> build.project, text |-> build.text,
                     groups |-> build.groups, pending |-> build.pending,
                     finals |-> build.finals, sets |-> build.sets, plans |-> build.plans]
        BY <1>2 DEF ReadOk
      <3>2. build' = [build EXCEPT !.at = build.at + 1]
        BY <1>1, <1>9
      <3>3. QED
        BY <3>1, <3>2
    <2>2. /\ build'.pc = "publish" /\ build'.at = build.at + 1 /\ build'.project = c
          /\ build'.text = build.text /\ build'.plans = build.plans
          /\ build'.pending = build.pending /\ calm' = calm
      BY <1>1, <1>2, <1>9, <2>1
    <2>3. ProgressOk'
      <3>1. \A i \in DOMAIN TargetOrder : i < build'.at =>
               writer'[TargetOrder[i]] = memory'.targets[TargetOrder[i]].revision
        <4>1. \A i \in DOMAIN TargetOrder : i < build'.at => i <= build.at
          BY <1>4, <2>2, OrderFacts
        <4>2. QED
          BY <1>1, <1>7, <4>1
      <3>2. PlannedUpTo(Len(TargetOrder))'
        BY <1>1, <1>3, <1>5, <2>2 DEF PlannedUpTo
      <3>3. IsCached(build.project, build.text)'
        BY <1>1, <1>3, <2>2 DEF IsCached
      <3>4. StagesDone(memory', c, Read)
        BY <1>1, <1>3
      <3>5. QED
        BY <1>5, <2>2, <3>1, <3>2, <3>3, <3>4 DEF ProgressOk, Progress
    <2>4. calm => /\ Settled /\ Taken = Now
                  /\ KeepsViews(project) => writer' = writer
      <3> SUFFICES ASSUME calm
                   PROVE  /\ Settled /\ Taken = Now
                          /\ KeepsViews(project) => writer' = writer
        OBVIOUS
      <3>1. Settled /\ Taken = Now
        BY <1>1 DEF StillOk, SettledOk, Inv, CalmOk
      <3>2. KeepsViews(project) => writer[t] = revision
        BY <1>1, <3>1 DEF Settled
      <3> HIDE DEF revision
      <3>3. writer = [u \in Targets |-> writer[u]]
        BY DEF Inv, WrittenOk
      <3>4. QED
        BY <1>1, <3>1, <3>2, <3>3
    <2>5. SettledOk'
      <3> SUFFICES ASSUME calm PROVE Settled'
        BY <2>2 DEF SettledOk
      <3>1. Settled
        BY <2>4
      <3>2. ASSUME NEW u \in Targets, KeepsViews(project)
            PROVE  writer'[u] = memory.targets[u].revision
        BY <2>4, <3>1, <3>2 DEF Settled
      <3>3. QED
        BY <1>1, <1>5, <3>1, <3>2 DEF Settled, IsCached
    <2>6. UnchangedIsNotRedone'
      <3> SUFFICES ASSUME calm
                   PROVE  /\ \A f \in build'.pending : ~CachesTransforms(c, SourceOf[f])
                          /\ \A u \in Targets \cap DOMAIN build.plans :
                                IsNoNews(build.plans[u], u, c)'
        BY <2>2 DEF UnchangedIsNotRedone, IsNoNews, KeepsViews
      <3>1. /\ \A f \in build.pending : ~CachesTransforms(c, SourceOf[f])
            /\ \A u \in Targets \cap DOMAIN build.plans : IsNoNews(build.plans[u], u, c)
        BY <1>1 DEF StillOk, UnchangedIsNotRedone, IsNoNews, KeepsViews
      <3>2. /\ \A u \in Targets : output[u] = Fresh!Output(Now, u)
            /\ project = c
        BY <2>4 DEF Inv, CalmOk, Taken, Now
      <3>3. \A u \in Targets : output'[u] = Fresh!Output(Now, u)
        <4>1. Inv'
          BY PublishInv
        <4>2. Now' = Now
          BY <1>1 DEF Now
        <4>3. QED
          BY <2>2, <4>1, <4>2 DEF Inv, CalmOk
      <3>4. KeepsViews(c) => writer' = writer
        BY <2>4, <3>2
      <3>5. QED
        BY <2>2, <3>1, <3>2, <3>3, <3>4 DEF IsNoNews
    <2>7. QED
      BY <2>3, <2>5, <2>6 DEF StillOk
  <1>10. QED
    BY <1>8, <1>9

LEMMA InitStill == Init => StillOk
  BY DEF Init, StillOk, ProgressOk, SettledOk, UnchangedIsNotRedone, Running, NoBuild

\* When nothing changed since a build that succeeded, the next one runs no
\* transform that may be cached and plans for every target what is there, so
\* that nothing is written; when no view asks to be resolved again, at the very
\* revision that the writer wrote (transform.ts, prepare of engine.service.ts,
\* derive.ts, codegen.ts): every stage makes the very objects it made before,
\* by which all the later ones recognise their inputs.
THEOREM NothingIsRedone == Spec => []UnchangedIsNotRedone
  <1>1. Inv /\ StillOk /\ [Next]_vars => StillOk'
    <2> SUFFICES ASSUME Inv, StillOk, [Next]_vars PROVE StillOk'
      OBVIOUS
    <2>1. ASSUME NEW f \in Files, TransformDocument(f) PROVE StillOk'
      BY <2>1, TransformDocumentStill
    <2>2. ASSUME NEW f \in Files, TransformFails(f) PROVE StillOk'
      BY <2>2, TransformFailsStill
    <2>3. CASE Reconfigure \/ \E f \in Files : Edit(f)
      BY <2>3, EnvironmentStill
    <2>4. CASE Validate
      BY <2>4, ValidateStill
    <2>5. CASE Prepare
      BY <2>5, PrepareStill
    <2>6. CASE LinkTarget
      BY <2>6, LinkTargetStill
    <2>7. CASE PlanTarget
      BY <2>7, PlanTargetStill
    <2>8. CASE Publish
      BY <2>8, PublishStill
    <2>9. CASE Fail
      BY <2>9, FailStill
    <2>10. CASE Restart
      BY <2>10, RestartStill
    <2>11. CASE UNCHANGED vars
      BY <2>11, StutterStill
    <2>12. QED
      BY <2>1, <2>2, <2>3, <2>4, <2>5, <2>6, <2>7, <2>8, <2>9, <2>10, <2>11 DEF Next
  <1>2. StillOk => UnchangedIsNotRedone
    BY DEF StillOk
  <1>3. QED
    BY <1>1, <1>2, InitStill, MemoryIsSound, PTL DEF Spec
=============================================================================
