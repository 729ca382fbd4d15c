--------------------------- MODULE ProjectProofs ---------------------------
(***************************************************************************)
(* The table of names that resolve.ts keeps (SymbolTable) is enough: what  *)
(* codegen.ts generates for a config that was accepted has names of its    *)
(* own, for every config and however it is loaded.                         *)
(*                                                                         *)
(* The table is one long list of symbols, and so is what is generated, but *)
(* neither is a part of the other: codegen leaves some of them out and     *)
(* takes the others in an order of its own.  Each is a list of lists, one  *)
(* for an entry of the config.  A block that is generated lies within the  *)
(* block of the table (Within), and what lies within block by block does   *)
(* so when the blocks are joined: two symbols of different blocks are two  *)
(* symbols of the table.                                                   *)
(*                                                                         *)
(* The same configs have an order to link their sources in (embedOrder).   *)
(* A visit goes down with the names on its way, each of them once, so the  *)
(* names that are left (Left) become fewer, which is why it is defined     *)
(* (VisitIs).  Whatever a visit is called with, it takes nothing out of    *)
(* the order and puts nothing of its way into it (Leads), so that the name *)
(* it adds last is new, and comes after all it embeds (InOrder).           *)
(*                                                                         *)
(* Last, the folders of the accepted configs are walked.  A walk takes     *)
(* with it only the stages its patterns are at, and a pattern is matched   *)
(* as a whole elsewhere: StageOf is the stage after a path of any depth,   *)
(* and comes to the same (StageStep).  With it the tasks of a walk can be  *)
(* told apart from tasks nobody wanted (WalkInv), there is one on every    *)
(* way to a file that is still to be found (HeldInv), and each of them     *)
(* came down a way that was there (RightInv).  The folders of scopes are   *)
(* kept out of it by the check of the config alone (ScopesLieElsewhere).   *)
(***************************************************************************)
EXTENDS Project, FiniteSetTheorems, SequenceTheorems, TLAPS

\* What is the case at 0, and after every i at i + 1, is the case up to n.
LEMMA UpTo ==
    ASSUME NEW n \in Nat, NEW S, 0 \in S,
           \A i \in 0..(n - 1) : i \in S => i + 1 \in S
    PROVE  \A i \in 0..n : i \in S
  <1> SUFFICES ASSUME NEW m \in 0..n, m \notin S PROVE FALSE
    OBVIOUS
  <1> DEFINE T == {i \in 0..m : i \in S}
             U == T \ {0}
             f == [i \in T |-> i + 1]
  <1>1. IsFiniteSet(T) /\ Cardinality(T) \in Nat
    <2>1. IsFiniteSet(0..m)
      BY FS_Interval
    <2>2. T \in SUBSET (0..m)
      OBVIOUS
    <2>3. QED
      BY <2>1, <2>2, FS_Subset, FS_CardinalityType
  <1>2. IsFiniteSet(U) /\ Cardinality(U) = Cardinality(T) - 1
    <2>1. 0 \in T
      OBVIOUS
    <2> HIDE DEF T
    <2>2. QED
      BY <1>1, <2>1, FS_RemoveElement
  <1>3. f \in [T -> U]
    OBVIOUS
  <1>4. \A i, j \in T : f[i] = f[j] => i = j
    OBVIOUS
  <1> HIDE DEF T, U, f
  <1>5. QED
    BY <1>1, <1>2, <1>3, <1>4, FS_PigeonHole

-----------------------------------------------------------------------------
(* Lists of generated names.                                               *)

IsList(s) == s \in Seq(Elements(s))
\* No two symbols of a list have one name (NoCollision); the names of a list.
Distinct(s) == \A i, j \in DOMAIN s : SymbolKey(s[i]) = SymbolKey(s[j]) => i = j
Keys(s) == {SymbolKey(s[i]) : i \in DOMAIN s}
Disjoint(s, t) == Keys(s) \cap Keys(t) = {}

\* Two lists that are joined: their names, and when they differ.
LEMMA ListsJoin ==
    ASSUME NEW s, NEW t, IsList(s), IsList(t)
    PROVE  /\ IsList(s \o t)
           /\ Keys(s \o t) = Keys(s) \cup Keys(t)
           /\ Distinct(s \o t) <=> Distinct(s) /\ Distinct(t) /\ Disjoint(s, t)
  <1> DEFINE S == Elements(s) \cup Elements(t)
             m == Len(s)
             n == Len(t)
             u == s \o t
  <1>1. s \in Seq(S) /\ t \in Seq(S)
    BY SeqMonotonic DEF IsList
  <1>2. /\ m \in Nat /\ DOMAIN s = 1..m
        /\ n \in Nat /\ DOMAIN t = 1..n
    BY <1>1, LenProperties
  <1>3. /\ u \in Seq(S) /\ Len(u) = m + n
        /\ \A i \in 1..(m + n) : u[i] = IF i <= m THEN s[i] ELSE t[i - m]
    BY <1>1, ConcatProperties
  <1>4. DOMAIN u = 1..(m + n)
    BY <1>3, LenProperties
  <1>5. /\ \A i \in 1..m : i \in 1..(m + n) /\ u[i] = s[i]
        /\ \A i \in 1..n : m + i \in 1..(m + n) /\ u[m + i] = t[i]
    BY <1>2, <1>3
  <1>6. \A k \in 1..(m + n) : k \in 1..m \/ \E i \in 1..n : k = m + i
    <2> TAKE k \in 1..(m + n)
    <2>1. k \in 1..m \/ (k - m \in 1..n /\ k = m + (k - m))
      BY <1>2
    <2>2. QED BY <2>1
  <1> HIDE DEF u, m, n, S
  <1>7. IsList(u)
    <2>1. ASSUME NEW k \in 1..(m + n) PROVE u[k] \in S
      <3>1. CASE k \in 1..m
        BY <1>2, <1>5, <3>1 DEF S, Elements
      <3>2. ASSUME NEW i \in 1..n, k = m + i PROVE u[k] \in S
        BY <1>2, <1>5, <3>2 DEF S, Elements
      <3>3. QED BY <1>6, <3>1, <3>2
    <2>2. ASSUME NEW x \in S PROVE x \in Elements(u)
      <3>1. CASE x \in Elements(s)
        BY <1>2, <1>4, <1>5, <3>1 DEF Elements
      <3>2. CASE x \in Elements(t)
        BY <1>2, <1>4, <1>5, <3>2 DEF Elements
      <3>3. QED BY <2>2, <3>1, <3>2 DEF S
    <2>3. Elements(u) = S
      BY <1>4, <2>1, <2>2 DEF Elements
    <2>4. QED BY <1>3, <2>3 DEF IsList
  <1>8. Keys(u) = Keys(s) \cup Keys(t)
    <2>1. ASSUME NEW k \in 1..(m + n) PROVE SymbolKey(u[k]) \in Keys(s) \cup Keys(t)
      <3>1. CASE k \in 1..m
        BY <1>2, <1>5, <3>1 DEF Keys
      <3>2. ASSUME NEW i \in 1..n, k = m + i
            PROVE SymbolKey(u[k]) \in Keys(s) \cup Keys(t)
        BY <1>2, <1>5, <3>2 DEF Keys
      <3>3. QED BY <1>6, <3>1, <3>2
    <2>2. ASSUME NEW x \in Keys(s) \cup Keys(t) PROVE x \in Keys(u)
      <3>1. CASE x \in Keys(s)
        BY <1>2, <1>4, <1>5, <3>1 DEF Keys
      <3>2. CASE x \in Keys(t)
        BY <1>2, <1>4, <1>5, <3>2 DEF Keys
      <3>3. QED BY <2>2, <3>1, <3>2
    <2>3. Keys(u) \subseteq Keys(s) \cup Keys(t)
      BY <1>4, <2>1 DEF Keys
    <2>4. QED BY <2>2, <2>3
  <1>9. ASSUME Distinct(u) PROVE Distinct(s) /\ Distinct(t) /\ Disjoint(s, t)
    <2>1. Distinct(s)
      BY <1>2, <1>4, <1>5, <1>9 DEF Distinct
    <2>2. Distinct(t)
      <3> SUFFICES ASSUME NEW i \in 1..n, NEW j \in 1..n, SymbolKey(t[i]) = SymbolKey(t[j])
                   PROVE  i = j
        BY <1>2 DEF Distinct
      <3>1. m + i = m + j
        BY <1>4, <1>5, <1>9 DEF Distinct
      <3>2. QED BY <1>2, <3>1
    <2>3. Disjoint(s, t)
      <3> SUFFICES ASSUME NEW i \in 1..m, NEW j \in 1..n, SymbolKey(s[i]) = SymbolKey(t[j])
                   PROVE  FALSE
        BY <1>2 DEF Disjoint, Keys
      <3>1. i = m + j
        BY <1>4, <1>5, <1>9 DEF Distinct
      <3>2. QED BY <1>2, <3>1
    <2>4. QED BY <2>1, <2>2, <2>3
  <1>10. ASSUME Distinct(s), Distinct(t), Disjoint(s, t) PROVE Distinct(u)
    <2> SUFFICES ASSUME NEW i \in 1..(m + n), NEW j \in 1..(m + n),
                        SymbolKey(u[i]) = SymbolKey(u[j])
                 PROVE  i = j
      BY <1>4 DEF Distinct
    <2>1. CASE i \in 1..m /\ j \in 1..m
      BY <1>2, <1>5, <1>10, <2>1 DEF Distinct
    <2>2. ASSUME NEW k \in 1..n, i = m + k, j \in 1..m PROVE FALSE
      BY <1>2, <1>5, <1>10, <2>2 DEF Disjoint, Keys
    <2>3. ASSUME NEW k \in 1..n, j = m + k, i \in 1..m PROVE FALSE
      BY <1>2, <1>5, <1>10, <2>3 DEF Disjoint, Keys
    <2>4. ASSUME NEW k \in 1..n, i = m + k, NEW l \in 1..n, j = m + l PROVE i = j
      BY <1>2, <1>5, <1>10, <2>4 DEF Distinct
    <2>5. QED BY <1>6, <2>1, <2>2, <2>3, <2>4
  <1>11. QED BY <1>7, <1>8, <1>9, <1>10 DEF u

\* What the lists ss[1], ..., ss[k] have in common once they are one.
Joined(ss, k, u) ==
    /\ IsList(u)
    /\ Keys(u) = UNION {Keys(ss[i]) : i \in 1..k}
    /\ Distinct(u) <=> /\ \A i \in 1..k : Distinct(ss[i])
                       /\ \A i, j \in 1..k : i # j => Disjoint(ss[i], ss[j])

\* One list, and one more: what FlattenSeq does from the left.
LEMMA JoinOne ==
    ASSUME NEW ss, IsList(ss[1]) PROVE Joined(ss, 1, ss[1])
  <1>1. 1..1 = {1}
    OBVIOUS
  <1>2. QED BY <1>1 DEF Joined

LEMMA JoinNext ==
    ASSUME NEW ss, NEW k \in Nat \ {0}, NEW u, Joined(ss, k, u), IsList(ss[k + 1])
    PROVE  Joined(ss, k + 1, u \o ss[k + 1])
  <1> DEFINE v == u \o ss[k + 1]
  <1>1. /\ IsList(v)
        /\ Keys(v) = Keys(u) \cup Keys(ss[k + 1])
        /\ Distinct(v) <=> Distinct(u) /\ Distinct(ss[k + 1]) /\ Disjoint(u, ss[k + 1])
    BY ListsJoin DEF Joined
  <1>2. 1..(k + 1) = (1..k) \cup {k + 1} /\ k + 1 \notin 1..k
    OBVIOUS
  <1> HIDE DEF v
  <1>3. Keys(v) = UNION {Keys(ss[i]) : i \in 1..(k + 1)}
    BY <1>1, <1>2 DEF Joined
  <1>4. Disjoint(u, ss[k + 1]) <=> \A i \in 1..k : Disjoint(ss[i], ss[k + 1])
    BY DEF Joined, Disjoint
  <1>5. \A i \in 1..k : Disjoint(ss[i], ss[k + 1]) <=> Disjoint(ss[k + 1], ss[i])
    BY DEF Disjoint
  <1>6. Distinct(v) <=> /\ \A i \in 1..(k + 1) : Distinct(ss[i])
                        /\ \A i, j \in 1..(k + 1) : i # j => Disjoint(ss[i], ss[j])
    BY <1>1, <1>2, <1>4, <1>5, Zenon DEF Joined
  <1>7. QED BY <1>1, <1>3, <1>6 DEF Joined, v

\* The recursive function that FlattenSeq of the community modules is defined by.
Flattens(ss, k, f) ==
    f = [i \in 1..k |-> IF i = 1 THEN ss[i] ELSE f[i - 1] \o ss[i]]

\* There is one, for lists of every length.
LEMMA FlattenExists ==
    ASSUME NEW n \in Nat, NEW ss
    PROVE  \E f : Flattens(ss, n, f)
  <1> DEFINE S == {k \in 0..n : \E f : Flattens(ss, k, f)}
  <1>1. 0 \in S
    <2>1. Flattens(ss, 0, [i \in 1..0 |-> 0])
      BY DEF Flattens
    <2>2. QED BY <2>1
  <1>2. ASSUME NEW k \in 0..(n - 1), k \in S PROVE k + 1 \in S
    <2>1. PICK g : Flattens(ss, k, g)
      BY <1>2
    <2> DEFINE f == [i \in 1..(k + 1) |-> IF i \in 1..k THEN g[i]
                                          ELSE IF i = 1 THEN ss[i] ELSE g[k] \o ss[i]]
               value(i) == IF i = 1 THEN ss[i] ELSE f[i - 1] \o ss[i]
    <2>2. ASSUME NEW i \in 1..(k + 1) PROVE f[i] = value(i)
      <3>1. CASE i = 1
        <4>1. k >= 1 => g[1] = ss[1]
          BY <2>1 DEF Flattens
        <4>2. f[1] = ss[1]
          BY <4>1
        <4>3. QED BY <3>1, <4>2
      <3>2. CASE i = k + 1 /\ i # 1
        <4>1. k \in 1..k /\ k \in 1..(k + 1) /\ i \notin 1..k /\ i - 1 = k
          BY <3>2
        <4>2. f[k] = g[k] /\ f[i] = g[k] \o ss[i]
          BY <3>2, <4>1
        <4> HIDE DEF f
        <4>3. QED BY <3>2, <4>1, <4>2
      <3>3. CASE i \in 2..k
        <4>1. f[i] = g[i] /\ f[i - 1] = g[i - 1] /\ i # 1 /\ i \in 1..k
          BY <3>3
        <4>2. g[i] = g[i - 1] \o ss[i]
          BY <2>1, <4>1, Zenon DEF Flattens
        <4> HIDE DEF f
        <4>3. QED BY <4>1, <4>2
      <3>4. QED BY <3>1, <3>2, <3>3
    <2>3. f = [i \in 1..(k + 1) |-> f[i]]
      OBVIOUS
    <2> HIDE DEF f
    <2>4. f = [i \in 1..(k + 1) |-> value(i)]
      BY <2>2, <2>3
    <2>5. Flattens(ss, k + 1, f)
      BY <2>4 DEF Flattens
    <2>6. QED BY <2>5
  <1> HIDE DEF S
  <1>3. n \in S
    BY <1>1, <1>2, UpTo
  <1>4. QED BY <1>3 DEF S

\* So a list of lists is joined as if it were done by hand.
LEMMA ListsFlatten ==
    ASSUME NEW L, NEW ss \in Seq(L), \A i \in 1..Len(ss) : IsList(ss[i])
    PROVE  Joined(ss, Len(ss), FlattenSeq(ss))
  <1> DEFINE n == Len(ss)
  <1>0. n \in Nat
    OBVIOUS
  <1>1. CASE n = 0
    <2>1. FlattenSeq(ss) = <<>>
      BY <1>1, EmptySeq DEF FlattenSeq
    <2>2. 1..0 = {} /\ DOMAIN <<>> = {}
      OBVIOUS
    <2>3. IsList(<<>>) /\ Keys(<<>>) = {} /\ Distinct(<<>>)
      BY <2>2, EmptySeq DEF IsList, Keys, Distinct
    <2>4. QED BY <1>1, <2>1, <2>2, <2>3 DEF Joined
  <1>2. CASE n # 0
    <2> DEFINE f == CHOOSE f : f = [i \in 1..n |-> IF i = 1 THEN ss[i] ELSE f[i - 1] \o ss[i]]
    <2>1. f = [i \in 1..n |-> IF i = 1 THEN ss[i] ELSE f[i - 1] \o ss[i]]
      BY <1>0, FlattenExists, Zenon DEF Flattens
    <2>2. FlattenSeq(ss) = f[n]
      BY <1>2, Zenon DEF FlattenSeq
    <2> HIDE DEF f
    <2> DEFINE S == {k \in 0..n : k = 0 \/ Joined(ss, k, f[k])}
    <2>3. 0 \in S
      BY <1>0
    <2>4. ASSUME NEW k \in 0..(n - 1), k \in S PROVE k + 1 \in S
      <3>1. CASE k = 0
        <4>1. f[1] = ss[1] /\ IsList(ss[1])
          BY <1>0, <1>2, <2>1
        <4>2. Joined(ss, 1, f[1])
          BY <4>1, JoinOne
        <4>3. QED BY <1>0, <3>1, <4>2
      <3>2. CASE k # 0
        <4>1. k + 1 \in 1..n /\ k + 1 # 1 /\ (k + 1) - 1 = k /\ k \in Nat \ {0}
          BY <1>0, <3>2
        <4>2. f[k + 1] = f[k] \o ss[k + 1]
          BY <2>1, <4>1
        <4>3. Joined(ss, k, f[k]) /\ IsList(ss[k + 1])
          BY <2>4, <3>2, <4>1
        <4>4. Joined(ss, k + 1, f[k + 1])
          BY <4>1, <4>2, <4>3, JoinNext
        <4>5. QED BY <1>0, <4>4
      <3>3. QED BY <3>1, <3>2
    <2> HIDE DEF S
    <2>5. \A k \in 0..(n - 1) : k \in S => k + 1 \in S
      BY <2>4
    <2>6. n \in Nat /\ n \in 0..n
      BY <1>0
    <2> HIDE DEF n
    <2>7. n \in S
      BY <2>3, <2>5, <2>6, UpTo
    <2>8. QED BY <1>2, <2>2, <2>7 DEF S, n
  <1>3. QED BY <1>1, <1>2

-----------------------------------------------------------------------------
(* A block that is generated, and the block of the table.                  *)

\* The names of e are names of t, and differ if those of t do.
Within(e, t) ==
    /\ IsList(e) /\ IsList(t)
    /\ Keys(e) \subseteq Keys(t)
    /\ Distinct(t) => Distinct(e)

\* Joining as a name of its own: what follows needs no indexes.
Join(s, t) == s \o t

LEMMA JoinRules ==
    /\ \A s, t : IsList(s) /\ IsList(t) =>
           /\ IsList(Join(s, t))
           /\ Keys(Join(s, t)) = Keys(s) \cup Keys(t)
           /\ Distinct(Join(s, t)) <=> Distinct(s) /\ Distinct(t) /\ Disjoint(s, t)
    /\ \A s, t, u : IsList(s) /\ IsList(t) =>
           /\ Disjoint(Join(s, t), u) <=> Disjoint(s, u) /\ Disjoint(t, u)
           /\ Disjoint(u, Join(s, t)) <=> Disjoint(s, u) /\ Disjoint(t, u)
    /\ \A s, t : Disjoint(s, t) <=> Disjoint(t, s)
  <1>1. ASSUME NEW s, NEW t, IsList(s), IsList(t)
        PROVE  /\ IsList(Join(s, t))
               /\ Keys(Join(s, t)) = Keys(s) \cup Keys(t)
               /\ Distinct(Join(s, t)) <=> Distinct(s) /\ Distinct(t) /\ Disjoint(s, t)
    BY <1>1, ListsJoin DEF Join
  <1>2. ASSUME NEW s, NEW t, NEW u, IsList(s), IsList(t)
        PROVE  /\ Disjoint(Join(s, t), u) <=> Disjoint(s, u) /\ Disjoint(t, u)
               /\ Disjoint(u, Join(s, t)) <=> Disjoint(s, u) /\ Disjoint(t, u)
    <2>1. Keys(Join(s, t)) = Keys(s) \cup Keys(t)
      BY <1>1, <1>2
    <2>2. QED BY <2>1 DEF Disjoint
  <1>3. \A s, t : Disjoint(s, t) <=> Disjoint(t, s)
    BY DEF Disjoint
  <1>4. QED BY <1>1, <1>2, <1>3, Zenon

\* The empty list, and the lists that resolve.ts and codegen.ts begin with.
LEMMA NoNames == IsList(<<>>) /\ Keys(<<>>) = {} /\ Distinct(<<>>) /\ \A s : Disjoint(<<>>, s)
  <1>1. DOMAIN <<>> = {}
    OBVIOUS
  <1>2. QED BY <1>1, EmptySeq DEF IsList, Keys, Distinct, Disjoint

LEMMA NameLists ==
    /\ \A x : IsList(<<x>>)
    /\ \A x, y : IsList(<<x, y>>)
    /\ \A n : IsList(Type(n)) /\ IsList(Export(n))
    /\ \A c, s : IsList(s) => IsList(Option(c, s))
  <1>1. ASSUME NEW x PROVE IsList(<<x>>)
    <2>1. Elements(<<x>>) = {x}
      BY DEF Elements
    <2>2. QED BY <2>1 DEF IsList
  <1>2. ASSUME NEW x, NEW y PROVE IsList(<<x, y>>)
    <2>1. Elements(<<x, y>>) = {x, y}
      BY DEF Elements
    <2>2. QED BY <2>1 DEF IsList
  <1>3. \A n : IsList(Type(n)) /\ IsList(Export(n))
    BY <1>1, <1>2 DEF Type, Export
  <1>4. \A c, s : IsList(s) => IsList(Option(c, s))
    BY NoNames, Zenon DEF Option
  <1>5. QED BY <1>1, <1>2, <1>3, <1>4

\* The parts of a block that codegen leaves out (g, f) or moves: first those of a
\* collection, then of a singleton and of a view, an index or a group.
LEMMA CollectionParts ==
    ASSUME NEW a, NEW b, NEW c, NEW l, NEW g, NEW i, NEW s, NEW f, NEW h,
           IsList(a), IsList(b), IsList(c), IsList(l), IsList(g), IsList(i), IsList(s),
           IsList(f), h = Join(f, g) \/ h = <<>>
    PROVE  Within(Join(Join(Join(Join(Join(Join(a, b), c), i), s), l), h),
                  Join(Join(Join(Join(Join(Join(Join(a, b), c), l), g), i), s), f))
  <1> DEFINE e == Join(Join(Join(Join(Join(Join(a, b), c), i), s), l), h)
             t == Join(Join(Join(Join(Join(Join(Join(a, b), c), l), g), i), s), f)
  <1>1. IsList(h) /\ Keys(h) \subseteq Keys(f) \cup Keys(g)
    <2>1. CASE h = Join(f, g)
      BY <2>1, JoinRules
    <2>2. CASE h = <<>>
      BY <2>2, NoNames
    <2>3. QED BY <2>1, <2>2
  <1>2. IsList(e) /\ IsList(t)
    BY <1>1, JoinRules
  <1>3. Keys(e) \subseteq Keys(t)
    BY <1>1, JoinRules
  <1>4. ASSUME Distinct(t) PROVE Distinct(e)
    <2>1. /\ Distinct(h)
          /\ \A u \in {a, b, c, i, s, l} : Disjoint(u, h)
      <3>1. CASE h = Join(f, g)
        BY <1>4, <3>1, JoinRules
      <3>2. CASE h = <<>>
        BY <3>2, NoNames DEF Disjoint
      <3>3. QED BY <3>1, <3>2
    <2>2. QED BY <1>1, <1>4, <2>1, JoinRules
  <1>5. QED BY <1>2, <1>3, <1>4 DEF Within

LEMMA SingletonParts ==
    ASSUME NEW t, NEW x, NEW a, NEW g, NEW f, NEW h,
           IsList(t), IsList(x), IsList(a), IsList(g), IsList(f),
           h = Join(f, g) \/ h = <<>>
    PROVE  Within(Join(Join(Join(x, t), a), h), Join(Join(Join(Join(t, x), a), g), f))
  <1> DEFINE e == Join(Join(Join(x, t), a), h)
             s == Join(Join(Join(Join(t, x), a), g), f)
  <1>1. IsList(h) /\ Keys(h) \subseteq Keys(f) \cup Keys(g)
    <2>1. CASE h = Join(f, g)
      BY <2>1, JoinRules
    <2>2. CASE h = <<>>
      BY <2>2, NoNames
    <2>3. QED BY <2>1, <2>2
  <1>2. IsList(e) /\ IsList(s)
    BY <1>1, JoinRules
  <1>3. Keys(e) \subseteq Keys(s)
    BY <1>1, JoinRules
  <1>4. ASSUME Distinct(s) PROVE Distinct(e)
    <2>1. Distinct(h) /\ \A u \in {t, x, a} : Disjoint(u, h)
      <3>1. CASE h = Join(f, g)
        BY <1>4, <3>1, JoinRules
      <3>2. CASE h = <<>>
        BY <3>2, NoNames DEF Disjoint
      <3>3. QED BY <3>1, <3>2
    <2>2. QED BY <1>1, <1>4, <2>1, JoinRules
  <1>5. QED BY <1>2, <1>3, <1>4 DEF Within

LEMMA DerivedParts ==
    ASSUME NEW x, NEW i, NEW a, NEW r, NEW k, NEW g, NEW m,
           IsList(x), IsList(i), IsList(a), IsList(r), IsList(k), IsList(g),
           m \in {a, Join(k, r), Join(Join(k, g), a)}
    PROVE  Within(Join(Join(i, m), x), Join(Join(Join(Join(Join(x, i), a), r), k), g))
  <1> DEFINE e == Join(Join(i, m), x)
             s == Join(Join(Join(Join(Join(x, i), a), r), k), g)
  <1>1. IsList(m) /\ Keys(m) \subseteq Keys(a) \cup Keys(r) \cup Keys(k) \cup Keys(g)
    <2>1. CASE m = a
      BY <2>1
    <2>2. CASE m = Join(k, r)
      BY <2>2, JoinRules
    <2>3. CASE m = Join(Join(k, g), a)
      BY <2>3, JoinRules
    <2>4. QED BY <2>1, <2>2, <2>3
  <1>2. IsList(e) /\ IsList(s)
    BY <1>1, JoinRules
  <1>3. Keys(e) \subseteq Keys(s)
    BY <1>1, JoinRules
  <1>4. ASSUME Distinct(s) PROVE Distinct(e)
    <2>1. Distinct(m) /\ Disjoint(i, m) /\ Disjoint(m, x)
      <3>1. CASE m = a
        BY <1>4, <3>1, JoinRules
      <3>2. CASE m = Join(k, r)
        BY <1>4, <3>2, JoinRules
      <3>3. CASE m = Join(Join(k, g), a)
        BY <1>4, <3>3, JoinRules
      <3>4. QED BY <3>1, <3>2, <3>3
    <2>2. QED BY <1>1, <1>4, <2>1, JoinRules
  <1>5. QED BY <1>2, <1>3, <1>4 DEF Within

\* Blocks within blocks, joined.
LEMMA FlattenWithin ==
    ASSUME NEW L, NEW ss \in Seq(L), NEW tt \in Seq(L), Len(ss) = Len(tt),
           \A i \in 1..Len(ss) : Within(ss[i], tt[i])
    PROVE  Within(FlattenSeq(ss), FlattenSeq(tt))
  <1> DEFINE e == FlattenSeq(ss)
             t == FlattenSeq(tt)
             N == 1..Len(ss)
  <1>1. Joined(ss, Len(ss), e) /\ Joined(tt, Len(ss), t)
    BY ListsFlatten DEF Within
  <1> HIDE DEF e, t, N
  <1>2. \A i \in N : Keys(ss[i]) \subseteq Keys(tt[i]) /\ (Distinct(tt[i]) => Distinct(ss[i]))
    BY DEF Within, N
  <1>3. Keys(e) \subseteq Keys(t)
    BY <1>1, <1>2 DEF Joined, N
  <1>4. ASSUME Distinct(t) PROVE Distinct(e)
    <2>1. \A i \in N : Distinct(ss[i])
      BY <1>1, <1>2, <1>4 DEF Joined, N
    <2>2. \A i, j \in N : i # j => Disjoint(ss[i], ss[j])
      <3>1. \A i, j \in N : i # j => Disjoint(tt[i], tt[j])
        BY <1>1, <1>4 DEF Joined, N
      <3>2. QED BY <1>2, <3>1 DEF Disjoint
    <2>3. QED BY <1>1, <2>1, <2>2 DEF Joined, N
  <1>5. QED BY <1>1, <1>3, <1>4 DEF Within, Joined, e, t

\* The names every project has, and the blocks of its sources (S) and views (D).
LEMMA ProjectParts ==
    ASSUME NEW i, NEW l, NEW q, NEW S, NEW D, NEW E, NEW F, NEW o,
           IsList(i), IsList(l), IsList(q), Within(E, S), Within(F, D),
           o = Join(l, q) \/ o = <<>>
    PROVE  Within(Join(Join(Join(o, E), F), i), Join(Join(Join(Join(i, l), q), S), D))
  <1> DEFINE e == Join(Join(Join(o, E), F), i)
             t == Join(Join(Join(Join(i, l), q), S), D)
  <1>0. /\ IsList(E) /\ IsList(S) /\ IsList(F) /\ IsList(D)
        /\ Keys(E) \subseteq Keys(S) /\ Keys(F) \subseteq Keys(D)
        /\ (Distinct(S) => Distinct(E)) /\ (Distinct(D) => Distinct(F))
    BY DEF Within
  <1>1. IsList(o) /\ Keys(o) \subseteq Keys(l) \cup Keys(q)
    <2>1. CASE o = Join(l, q)
      BY <2>1, JoinRules
    <2>2. CASE o = <<>>
      BY <2>2, NoNames
    <2>3. QED BY <2>1, <2>2
  <1>2. IsList(e) /\ IsList(t)
    BY <1>0, <1>1, JoinRules
  <1>3. Keys(e) \subseteq Keys(t)
    BY <1>0, <1>1, JoinRules
  <1>4. ASSUME Distinct(t) PROVE Distinct(e)
    <2>1. /\ Disjoint(i, l) /\ Disjoint(i, q) /\ Disjoint(l, q)
          /\ Disjoint(i, S) /\ Disjoint(l, S) /\ Disjoint(q, S)
          /\ Disjoint(i, D) /\ Disjoint(l, D) /\ Disjoint(q, D)
          /\ Disjoint(S, D)
          /\ Distinct(i) /\ Distinct(l) /\ Distinct(q) /\ Distinct(E) /\ Distinct(F)
      BY <1>0, <1>4, JoinRules
    <2>2. Distinct(o)
      <3>1. CASE o = Join(l, q)
        BY <2>1, <3>1, JoinRules
      <3>2. CASE o = <<>>
        BY <3>2, NoNames
      <3>3. QED BY <3>1, <3>2
    <2>3. /\ Disjoint(o, E) /\ Disjoint(o, F) /\ Disjoint(o, i)
          /\ Disjoint(E, F) /\ Disjoint(E, i) /\ Disjoint(F, i)
      BY <1>0, <1>1, <2>1 DEF Disjoint
    <2>4. QED BY <1>0, <1>1, <2>1, <2>2, <2>3, JoinRules
  <1>5. QED BY <1>2, <1>3, <1>4 DEF Within

-----------------------------------------------------------------------------
(* What is generated for a project, and what the table of names has.       *)

\* Each block of codegen.ts lies within that of resolve.ts.
LEMMA CollectionWithin ==
    ASSUME NEW s PROVE Within(EmittedForCollection(s), CollectionSymbols(s))
  <1> DEFINE n == s.names
             a == Type(n.typeName)
             b == Type(n.listItemTypeName)
             c == Option(n.arrayTypeName # n.typeName, Type(n.arrayTypeName))
             l == Export(n.listName)
             g == Option(s.emitDocuments, Export(n.getterName))
             i == Option(s.emitIds, Type(n.idTypeName))
             w == Option(s.emitSlugs, Type(n.slugTypeName))
             f == <<Symbol("folder", s.documentsDir)>>
             h == Option(s.emitDocuments, f \o Export(n.getterName))
  <1>1. /\ IsList(a) /\ IsList(b) /\ IsList(c) /\ IsList(l) /\ IsList(g) /\ IsList(i)
        /\ IsList(w) /\ IsList(f)
    BY NameLists
  <1>2. h = Join(f, g) \/ h = <<>>
    BY DEF Option, Join
  <1>3. /\ EmittedForCollection(s)
            = Join(Join(Join(Join(Join(Join(a, b), c), i), w), l), h)
        /\ CollectionSymbols(s)
            = Join(Join(Join(Join(Join(Join(Join(a, b), c), l), g), i), w), f)
    BY Zenon DEF EmittedForCollection, CollectionSymbols, Join
  <1> HIDE DEF a, b, c, l, g, i, w, f, h
  <1>4. QED BY <1>1, <1>2, <1>3, CollectionParts

LEMMA SingletonWithin ==
    ASSUME NEW s PROVE Within(EmittedForSingleton(s), SingletonSymbols(s))
  <1> DEFINE n == s.names
             t == Type(n.typeName)
             x == Export(n.exportName)
             a == Option(s.emitAll, Export(n.variantsName))
             g == Option(s.emitDocuments, Export(n.getterName))
             f == <<Symbol("folder", s.documentsDir)>>
             h == Option(s.emitDocuments, f \o Export(n.getterName))
  <1>1. IsList(t) /\ IsList(x) /\ IsList(a) /\ IsList(g) /\ IsList(f)
    BY NameLists
  <1>2. h = Join(f, g) \/ h = <<>>
    BY DEF Option, Join
  <1>3. /\ EmittedForSingleton(s) = Join(Join(Join(x, t), a), h)
        /\ SingletonSymbols(s) = Join(Join(Join(Join(t, x), a), g), f)
    BY Zenon DEF EmittedForSingleton, SingletonSymbols, Join
  <1> HIDE DEF t, x, a, g, f, h
  <1>4. QED BY <1>1, <1>2, <1>3, SingletonParts

LEMMA DerivedWithin ==
    ASSUME NEW d, d.kind \in {"view", "index", "group"}
    PROVE  Within(EmittedForDerived(d), DerivedSymbols(d))
  <1> DEFINE n == d.names
             x == Export(n.exportName)
             i == Type(n.listItemTypeName)
             a == Option(d.kind # "index", Type(n.arrayTypeName))
             r == Option(d.kind = "index", Type(n.recordTypeName))
             k == Option(d.kind # "view", Type(n.keyTypeName))
             g == Option(d.kind = "group", Type(n.groupTypeName))
             m == CASE d.kind = "view" -> Type(n.arrayTypeName)
                    [] d.kind = "index" -> Type(n.keyTypeName) \o Type(n.recordTypeName)
                    [] d.kind = "group" -> Type(n.keyTypeName) \o Type(n.groupTypeName)
                                           \o Type(n.arrayTypeName)
  <1>1. IsList(x) /\ IsList(i) /\ IsList(a) /\ IsList(r) /\ IsList(k) /\ IsList(g)
    BY NameLists
  <1>2. m \in {a, Join(k, r), Join(Join(k, g), a)}
    BY DEF Option, Join
  <1>3. EmittedForDerived(d) = Join(Join(i, m), x)
    BY DEF EmittedForDerived, Join
  <1>4. DerivedSymbols(d) = Join(Join(Join(Join(Join(x, i), a), r), k), g)
    BY Zenon DEF DerivedSymbols, Join
  <1> HIDE DEF x, i, a, r, k, g, m
  <1>5. QED BY <1>1, <1>2, <1>3, <1>4, DerivedParts

LEMMA SourceWithin ==
    ASSUME NEW s
    PROVE  Within(IF s.kind = "collection" THEN EmittedForCollection(s)
                  ELSE EmittedForSingleton(s),
                  SourceSymbols(s))
  BY CollectionWithin, SingletonWithin DEF SourceSymbols

\* The types of a config (define/config.ts, define/derived.ts): it has lists of
\* entries and of views, a view is of one of three kinds, and the references of a
\* schema (resolve.ts, collectReferences) are a list.
IsTyped(config) ==
    /\ IsList(config.content) /\ IsList(config.views)
    /\ \A e \in Elements(config.views) : e.type \in {"view", "index", "group"}
    /\ \A e \in Elements(config.content) : IsList(e.schema.references)

\* What is made of every element of a list is a list as long.
LEMMA EachOf ==
    ASSUME NEW list, IsList(list), NEW ss, DOMAIN ss = DOMAIN list,
           ss = [i \in DOMAIN list |-> ss[i]]
    PROVE  ss \in Seq(Elements(ss)) /\ Len(ss) = Len(list)
  <1>1. Len(list) \in Nat /\ DOMAIN list = 1..Len(list)
    BY LenProperties DEF IsList
  <1>2. ss \in [1..Len(list) -> Elements(ss)]
    BY <1>1 DEF Elements
  <1>3. ss \in Seq(Elements(ss))
    BY <1>1, <1>2, SeqDef
  <1>4. Len(ss) \in Nat /\ 1..Len(ss) = 1..Len(list)
    BY <1>1, <1>3, LenProperties
  <1>5. QED BY <1>1, <1>3, <1>4

\* The names of the locales come with their file, or without.
LEMMA TupleJoins ==
    ASSUME NEW a, NEW b, NEW c, NEW d PROVE <<a>> \o <<b, c, d>> = <<a, b, c, d>>
  <1> DEFINE S == {a, b, c, d}
             s == <<a>>
             t == <<b, c, d>>
             u == <<a, b, c, d>>
  <1>1. /\ s \in Seq(S) /\ Len(s) = 1 /\ s[1] = a
        /\ t \in Seq(S) /\ Len(t) = 3 /\ t[1] = b /\ t[2] = c /\ t[3] = d
        /\ u \in Seq(S) /\ Len(u) = 4 /\ u[1] = a /\ u[2] = b /\ u[3] = c /\ u[4] = d
    OBVIOUS
  <1> HIDE DEF s, t, u, S
  <1>2. /\ s \o t \in Seq(S) /\ Len(s \o t) = 4
        /\ (s \o t)[1] = a /\ (s \o t)[2] = b /\ (s \o t)[3] = c /\ (s \o t)[4] = d
    <2>1. /\ s \o t \in Seq(S) /\ Len(s \o t) = Len(s) + Len(t)
          /\ \A i \in 1..(Len(s) + Len(t)) :
                 (s \o t)[i] = IF i <= Len(s) THEN s[i] ELSE t[i - Len(s)]
      BY <1>1, ConcatProperties
    <2>2. \A i \in 1..4 : (s \o t)[i] = IF i <= 1 THEN s[i] ELSE t[i - 1]
      <3>1. Len(s) + Len(t) = 4 /\ Len(s) = 1
        BY <1>1
      <3>2. QED BY <2>1, <3>1
    <2>3. /\ (s \o t)[1] = s[1] /\ (s \o t)[2] = t[2 - 1]
          /\ (s \o t)[3] = t[3 - 1] /\ (s \o t)[4] = t[4 - 1]
      <3>1. 1 \in 1..4 /\ 2 \in 1..4 /\ 3 \in 1..4 /\ 4 \in 1..4
        OBVIOUS
      <3>2. (1 <= 1) /\ ~(2 <= 1) /\ ~(3 <= 1) /\ ~(4 <= 1)
        OBVIOUS
      <3>3. QED BY <2>2, <3>1, <3>2, Zenon
    <2>4. 2 - 1 = 1 /\ 3 - 1 = 2 /\ 4 - 1 = 3 /\ 1 + 3 = 4
      OBVIOUS
    <2>5. QED BY <1>1, <2>1, <2>3, <2>4
  <1>3. \A i \in 1..4 : (s \o t)[i] = u[i]
    <2> TAKE i \in 1..4
    <2>1. i = 1 \/ i = 2 \/ i = 3 \/ i = 4
      OBVIOUS
    <2>2. QED BY <1>1, <1>2, <2>1
  <1>4. s \o t = u
    BY <1>1, <1>2, <1>3, SeqEqual
  <1>5. QED BY <1>4 DEF s, t, u

\* What is generated for a project lies within the table.
LEMMA EmittedWithin ==
    ASSUME NEW config, IsTyped(config)
    PROVE  Within(Emitted(ResolveProject(config)), Symbols(config))
  <1> DEFINE entries == Sources(config)
             derived == Derived(config)
             shown(s) == IF s.kind = "collection" THEN EmittedForCollection(s)
                         ELSE EmittedForSingleton(s)
             es == [k \in DOMAIN entries |-> shown(entries[k])]
             ss == [k \in DOMAIN entries |-> SourceSymbols(entries[k])]
             ed == [k \in DOMAIN derived |-> EmittedForDerived(derived[k])]
             sd == [k \in DOMAIN derived |-> DerivedSymbols(derived[k])]
  <1>1. Within(FlattenSeq(es), FlattenSeq(ss))
    <2>1. DOMAIN entries = DOMAIN config.content
      BY DEF Sources
    <2>2. /\ es \in Seq(Elements(es)) /\ Len(es) = Len(config.content)
          /\ ss \in Seq(Elements(ss)) /\ Len(ss) = Len(config.content)
      BY <2>1, EachOf DEF IsTyped
    <2>3. es \in Seq(Elements(es) \cup Elements(ss)) /\ ss \in Seq(Elements(es) \cup Elements(ss))
      BY <2>2, SeqMonotonic
    <2>4. DOMAIN es = 1..Len(es)
      BY <2>2, LenProperties
    <2>5. \A k \in 1..Len(es) : Within(es[k], ss[k])
      BY <2>4, SourceWithin
    <2> HIDE DEF es, ss
    <2>6. QED BY <2>2, <2>3, <2>5, FlattenWithin
  <1>2. Within(FlattenSeq(ed), FlattenSeq(sd))
    <2>1. DOMAIN derived = DOMAIN config.views
      BY DEF Derived
    <2>2. /\ ed \in Seq(Elements(ed)) /\ Len(ed) = Len(config.views)
          /\ sd \in Seq(Elements(sd)) /\ Len(sd) = Len(config.views)
      BY <2>1, EachOf DEF IsTyped
    <2>3. ed \in Seq(Elements(ed) \cup Elements(sd)) /\ sd \in Seq(Elements(ed) \cup Elements(sd))
      BY <2>2, SeqMonotonic
    <2>4. DOMAIN ed = 1..Len(ed)
      BY <2>2, LenProperties
    <2>5. \A k \in 1..Len(ed) : Within(ed[k], sd[k])
      <3> SUFFICES ASSUME NEW k \in DOMAIN derived
                   PROVE  Within(EmittedForDerived(derived[k]), DerivedSymbols(derived[k]))
        BY <2>4
      <3>1. derived[k].kind = config.views[k].type
        BY <2>1 DEF Derived
      <3>2. derived[k].kind \in {"view", "index", "group"}
        BY <2>1, <3>1 DEF IsTyped, Elements
      <3>3. QED BY <3>2, DerivedWithin
    <2> HIDE DEF ed, sd
    <2>6. QED BY <2>2, <2>3, <2>5, FlattenWithin
  <1> DEFINE x == Symbol("export", Camel(<<"locales">>))
             y == Symbol("export", Camel(<<"default", "locale">>))
             z == Symbol("type", Pascal(<<"locale">>))
             i == <<Symbol("file", Camel(<<"index">>))>>
             l == <<Symbol("file", Camel(<<"locales">>))>>
             q == Option(config.localization # None, <<x, y, z>>)
             o == Option(config.localization # None,
                         <<Symbol("file", Camel(<<"locales">>)), x, y, z>>)
  <1>3. IsList(i) /\ IsList(l) /\ IsList(q)
    <2>1. IsList(<<x, y, z>>)
      <3> HIDE DEF x, y, z
      <3>1. <<x, y, z>> \in Seq({x, y, z}) /\ Elements(<<x, y, z>>) = {x, y, z}
        BY DEF Elements
      <3>2. QED BY <3>1 DEF IsList
    <2>2. QED BY <2>1, NameLists
  <1>4. o = Join(l, q) \/ o = <<>>
    <2>1. \A a : <<a>> \o <<x, y, z>> = <<a, x, y, z>>
      BY TupleJoins
    <2>2. CASE config.localization # None
      BY <2>1, <2>2, Zenon DEF Join, Option
    <2>3. CASE config.localization = None
      BY <2>3 DEF Option
    <2>4. QED BY <2>2, <2>3
  <1>5. Symbols(config) = Join(Join(Join(Join(i, l), q), FlattenSeq(ss)), FlattenSeq(sd))
    <2>1. Reserved(config) = Join(Join(i, l), q)
      BY DEF Reserved, Join
    <2> HIDE DEF i, l, q
    <2>2. QED BY <2>1, Zenon DEF Symbols, Join
  <1>6. Emitted(ResolveProject(config))
            = Join(Join(Join(o, FlattenSeq(es)), FlattenSeq(ed)), i)
    <2>1. /\ ResolveProject(config).sources = entries
          /\ ResolveProject(config).derived = derived
          /\ ResolveProject(config).localization = config.localization
      BY DEF ResolveProject
    <2>2. QED BY <2>1 DEF Emitted, Join
  <1> HIDE DEF i, l, q, o, es, ss, ed, sd
  <1>7. QED BY <1>1, <1>2, <1>3, <1>4, <1>5, <1>6, ProjectParts

-----------------------------------------------------------------------------
(* The order in which embedded list are linked.                         *)

\* A recursion from 0 to n is defined.
Recursion(n, base, op, f) ==
    f = [k \in 0..n |-> IF k = 0 THEN base ELSE op[<<k, f[k - 1]>>]]

\* There is one, for every n.
LEMMA RecursionExists ==
    ASSUME NEW n \in Nat, NEW base, NEW op
    PROVE  \E f : Recursion(n, base, op, f)
  <1> DEFINE Upto(k, f) == f = [i \in 0..k |-> IF i = 0 THEN base ELSE op[<<i, f[i - 1]>>]]
             S == {k \in 0..n : \E f : Upto(k, f)}
  <1>1. 0 \in S
    <2> DEFINE f == [i \in 0..0 |-> base]
    <2>1. f = [i \in 0..0 |-> IF i = 0 THEN base ELSE op[<<i, f[i - 1]>>]]
      OBVIOUS
    <2> HIDE DEF f
    <2>2. Upto(0, f)
      BY <2>1
    <2>3. QED BY <2>2
  <1>2. ASSUME NEW k \in 0..(n - 1), k \in S PROVE k + 1 \in S
    <2>1. PICK g : Upto(k, g)
      BY <1>2
    <2> DEFINE f == [i \in 0..(k + 1) |-> IF i \in 0..k THEN g[i] ELSE op[<<i, g[k]>>]]
               value(i) == IF i = 0 THEN base ELSE op[<<i, f[i - 1]>>]
    <2>2. ASSUME NEW i \in 0..(k + 1) PROVE f[i] = value(i)
      <3>1. CASE i = 0
        <4>1. g[0] = base /\ f[0] = g[0]
          BY <2>1
        <4> HIDE DEF f
        <4>2. QED BY <3>1, <4>1
      <3>2. CASE i \in 1..k
        <4>1. f[i] = g[i] /\ f[i - 1] = g[i - 1] /\ i # 0
          BY <3>2
        <4>2. g[i] = op[<<i, g[i - 1]>>]
          BY <2>1, <3>2
        <4> HIDE DEF f
        <4>3. QED BY <4>1, <4>2
      <3>3. CASE i = k + 1
        <4>1. f[i] = op[<<i, g[k]>>] /\ f[k] = g[k] /\ i # 0 /\ i - 1 = k
          BY <3>3
        <4> HIDE DEF f
        <4>2. QED BY <4>1
      <3>4. QED BY <3>1, <3>2, <3>3
    <2>3. f = [i \in 0..(k + 1) |-> f[i]]
      OBVIOUS
    <2> HIDE DEF f
    <2>4. f = [i \in 0..(k + 1) |-> value(i)]
      BY <2>2, <2>3
    <2>5. QED BY <2>4
  <1> HIDE DEF S
  <1>3. n \in S
    BY <1>1, <1>2, UpTo
  <1>4. QED BY <1>3 DEF S, Recursion

NamesOf(list) == {s.name : s \in Elements(list)}
Walks(list) == [order : Seq(NamesOf(list)), cycle : BOOLEAN]
Calls(list) == Walks(list) \X NamesOf(list) \X Seq(NamesOf(list))

\* What EmbedOrder is made of, by names of its own.
AfterRefs(list, visit, walk, name, trail) ==
    CHOOSE after : after = [k \in 0..Len(ReferencesOf(list, name)) |->
        IF k = 0 THEN walk
        ELSE IF IsEmbedded(list, ReferencesOf(list, name)[k])
        THEN visit[<<after[k - 1], ReferencesOf(list, name)[k].collection, Append(trail, name)>>]
        ELSE after[k - 1]]
VisitOf(list, visit, call) ==
    IF call[2] \in Elements(call[1].order) THEN call[1]
    ELSE IF call[2] \in Elements(call[3]) THEN [call[1] EXCEPT !.cycle = TRUE]
    ELSE [AfterRefs(list, visit, call[1], call[2], call[3])
              [Len(ReferencesOf(list, call[2]))]
          EXCEPT !.order = Append(@, call[2])]
Visit(list) ==
    CHOOSE visit : visit = [call \in Calls(list) |-> VisitOf(list, visit, call)]
AllVisits(list, visit) ==
    CHOOSE all : all = [k \in 0..Len(list) |->
        IF k = 0 THEN [order |-> <<>>, cycle |-> FALSE]
        ELSE visit[<<all[k - 1], list[k].name, <<>>>>]]

\* The names say what EmbedOrder says.
LEMMA EmbedOrderIs ==
    ASSUME NEW list
    PROVE  EmbedOrder(list) = AllVisits(list, Visit(list))[Len(list)]
  BY Zenon DEF EmbedOrder, AllVisits, Visit, VisitOf, AfterRefs, Calls, Walks, NamesOf

\* A walk through the references of a source, one by one.
IsAfter(list, visit, walk, name, trail, after) ==
    LET refs == ReferencesOf(list, name)
    IN  /\ after \in [0..Len(refs) -> Walks(list)]
        /\ after[0] = walk
        /\ \A k \in 1..Len(refs) :
               after[k] = IF IsEmbedded(list, refs[k])
                          THEN visit[<<after[k - 1], refs[k].collection, Append(trail, name)>>]
                          ELSE after[k - 1]

\* What visit answers one step further down.
AnswersBelow(list, visit, name, trail) ==
    \A w \in Walks(list), m \in NamesOf(list) :
        visit[<<w, m, Append(trail, name)>>] \in Walks(list)

\* A step through the references makes a walk of a walk.
LEMMA WalkOn ==
    ASSUME NEW list, NEW visit, NEW walk \in Walks(list), NEW name, NEW trail,
           AnswersBelow(list, visit, name, trail), NEW r
    PROVE  (IF IsEmbedded(list, r) THEN visit[<<walk, r.collection, Append(trail, name)>>]
            ELSE walk) \in Walks(list)
  <1>1. IsEmbedded(list, r) => r.collection \in NamesOf(list)
    BY DEF IsEmbedded, NamesOf
  <1>2. QED BY <1>1 DEF AnswersBelow

\* What AfterRefs chooses is there, and is what its equation says.
LEMMA AfterIs ==
    ASSUME NEW list, NEW visit, NEW walk \in Walks(list), NEW name, NEW trail,
           AnswersBelow(list, visit, name, trail), IsList(ReferencesOf(list, name))
    PROVE  IsAfter(list, visit, walk, name, trail,
                   AfterRefs(list, visit, walk, name, trail))
  <1> DEFINE refs == ReferencesOf(list, name)
             n == Len(refs)
             on(k, w) == IF IsEmbedded(list, refs[k])
                         THEN visit[<<w, refs[k].collection, Append(trail, name)>>]
                         ELSE w
             op == [p \in (1..n) \X Walks(list) |-> on(p[1], p[2])]
             Is(f) == f = [k \in 0..n |-> IF k = 0 THEN walk ELSE on(k, f[k - 1])]
  <1>1. n \in Nat
    BY LenProperties DEF IsList
  <1>2. \A k \in 1..n, w \in Walks(list) : on(k, w) \in Walks(list) /\ op[<<k, w>>] = on(k, w)
    BY WalkOn
  <1> HIDE DEF on, op, n
  <1>a. PICK f : Recursion(n, walk, op, f)
    BY <1>1, RecursionExists
  <1>3. f = [k \in 0..n |-> IF k = 0 THEN walk ELSE op[<<k, f[k - 1]>>]]
    BY <1>a DEF Recursion
  <1>4. \A k \in 0..n : f[k] \in Walks(list)
    <2> DEFINE S == {k \in 0..n : f[k] \in Walks(list)}
    <2>1. 0 \in S
      BY <1>1, <1>3
    <2>2. ASSUME NEW k \in 0..(n - 1), k \in S PROVE k + 1 \in S
      <3>1. k + 1 \in 1..n /\ k + 1 \in 0..n /\ k + 1 # 0 /\ (k + 1) - 1 = k
        BY <1>1
      <3>2. f[k + 1] = op[<<k + 1, f[k]>>]
        BY <1>3, <3>1
      <3>3. QED BY <1>2, <2>2, <3>1, <3>2
    <2>3. \A k \in 0..n : k \in S
      <3> HIDE DEF S
      <3>1. QED BY <1>1, <2>1, <2>2, UpTo
    <2>4. QED BY <2>3
  <1>5. ASSUME NEW k \in 1..n PROVE op[<<k, f[k - 1]>>] = on(k, f[k - 1])
    BY <1>1, <1>2, <1>4
  <1>6. Is(f)
    BY <1>1, <1>3, <1>5
  <1>7. \A g : Is(g) => g = f
    <2> SUFFICES ASSUME NEW g, Is(g) PROVE g = f
      OBVIOUS
    <2> DEFINE S == {k \in 0..n : g[k] = f[k]}
    <2>1. 0 \in S
      BY <1>1, <1>6
    <2>2. ASSUME NEW k \in 0..(n - 1), k \in S PROVE k + 1 \in S
      <3>1. k + 1 \in 0..n /\ k + 1 # 0 /\ (k + 1) - 1 = k
        BY <1>1
      <3>2. f[k + 1] = on(k + 1, f[k]) /\ g[k + 1] = on(k + 1, g[k])
        BY <1>6, <3>1
      <3>3. QED BY <2>2, <3>1, <3>2
    <2>3. \A k \in 0..n : k \in S
      <3> HIDE DEF S
      <3>1. QED BY <1>1, <2>1, <2>2, UpTo
    <2>4. \A k \in 0..n : g[k] = f[k]
      BY <2>3
    <2>5. QED BY <1>6, <2>4
  <1>8. AfterRefs(list, visit, walk, name, trail) = CHOOSE g : Is(g)
    BY Zenon DEF AfterRefs, on, n
  <1>9. AfterRefs(list, visit, walk, name, trail) = f
    BY <1>6, <1>7, <1>8, Zenon
  <1>10. /\ f \in [0..n -> Walks(list)] /\ f[0] = walk
         /\ \A k \in 1..n : f[k] = on(k, f[k - 1])
    BY <1>1, <1>4, <1>6
  <1>11. QED BY <1>9, <1>10, Zenon DEF IsAfter, on, n

\* What visit answers for other trails has no part in it.
LEMMA AfterAgrees ==
    ASSUME NEW list, NEW name, IsList(ReferencesOf(list, name)),
           NEW visit, NEW other, NEW walk, NEW trail, NEW f, NEW g,
           IsAfter(list, visit, walk, name, trail, f),
           IsAfter(list, other, walk, name, trail, g),
           \A w \in Walks(list), m \in NamesOf(list) :
               visit[<<w, m, Append(trail, name)>>] = other[<<w, m, Append(trail, name)>>]
    PROVE  f = g
  <1> DEFINE refs == ReferencesOf(list, name)
             n == Len(refs)
             S == {k \in 0..n : f[k] = g[k]}
  <1>1. n \in Nat
    BY LenProperties DEF IsList
  <1>2. /\ f \in [0..n -> Walks(list)] /\ g \in [0..n -> Walks(list)]
        /\ f[0] = walk /\ g[0] = walk
    BY DEF IsAfter
  <1>3. ASSUME NEW k \in 0..(n - 1), f[k] = g[k] PROVE f[k + 1] = g[k + 1]
    <2> DEFINE r == refs[k + 1]
               on(v) == IF IsEmbedded(list, r)
                        THEN v[<<f[k], r.collection, Append(trail, name)>>]
                        ELSE f[k]
    <2>1. k \in 0..n /\ k + 1 \in 1..n /\ (k + 1) - 1 = k
      BY <1>1
    <2>2. f[k + 1] = on(visit) /\ g[k + 1] = on(other)
      BY <1>3, <2>1 DEF IsAfter
    <2>3. f[k] \in Walks(list)
      BY <1>2, <2>1
    <2>4. IsEmbedded(list, r) => r.collection \in NamesOf(list)
      BY DEF IsEmbedded, NamesOf
    <2>5. on(visit) = on(other)
      <3> HIDE DEF r
      <3>1. QED BY <2>3, <2>4
    <2> HIDE DEF on, r
    <2>6. QED BY <2>2, <2>5
  <1>4. 0 \in S /\ \A k \in 0..(n - 1) : k \in S => k + 1 \in S
    BY <1>1, <1>2, <1>3
  <1>5. \A k \in 0..n : k \in S
    <2> HIDE DEF S, n
    <2>1. QED BY <1>1, <1>4, UpTo
  <1>6. \A k \in 0..n : f[k] = g[k]
    BY <1>5
  <1>7. QED BY <1>2, <1>6
-----------------------------------------------------------------------------
(* A visit is defined: its way holds a name at most once.                  *)

Left(list, trail) == Cardinality(NamesOf(list) \ Elements(trail))

\* A name fewer is left on the way down.
LEMMA LeftFacts ==
    ASSUME NEW list, IsFiniteSet(NamesOf(list)),
           NEW trail \in Seq(NamesOf(list))
    PROVE  /\ Left(list, trail) \in 0..Cardinality(NamesOf(list))
           /\ \A name \in NamesOf(list) \ Elements(trail) :
                  /\ Append(trail, name) \in Seq(NamesOf(list))
                  /\ Elements(Append(trail, name)) = Elements(trail) \cup {name}
                  /\ Left(list, trail) > 0
                  /\ Left(list, Append(trail, name)) = Left(list, trail) - 1
  <1> DEFINE N == NamesOf(list)
             L == N \ Elements(trail)
  <1>1. /\ IsFiniteSet(L) /\ Cardinality(L) \in Nat
        /\ Cardinality(L) <= Cardinality(N) /\ Cardinality(N) \in Nat
    <2>1. L \in SUBSET N
      OBVIOUS
    <2>2. QED BY <2>1, FS_Subset, FS_CardinalityType
  <1>2. ASSUME NEW name \in L
        PROVE  /\ Append(trail, name) \in Seq(N)
               /\ Elements(Append(trail, name)) = Elements(trail) \cup {name}
               /\ Cardinality(L \ {name}) = Cardinality(L) - 1
               /\ Cardinality(L \ {name}) \in Nat
    <2>1. /\ Append(trail, name) \in Seq(N) /\ Len(Append(trail, name)) = Len(trail) + 1
          /\ \A i \in 1..(Len(trail) + 1) :
                 Append(trail, name)[i] = IF i <= Len(trail) THEN trail[i] ELSE name
      BY AppendProperties
    <2>2. Elements(Append(trail, name)) = Elements(trail) \cup {name}
      <3>1. DOMAIN trail = 1..Len(trail) /\ Len(trail) \in Nat
            /\ DOMAIN Append(trail, name) = 1..(Len(trail) + 1)
        BY <2>1, LenProperties
      <3>2. \A x : x \in Elements(Append(trail, name)) <=> x \in Elements(trail) \/ x = name
        <4> TAKE x
        <4>1. ASSUME x \in Elements(Append(trail, name)) PROVE x \in Elements(trail) \/ x = name
          BY <2>1, <3>1, <4>1 DEF Elements
        <4>2. ASSUME x \in Elements(trail) PROVE x \in Elements(Append(trail, name))
          <5>1. PICK i \in 1..Len(trail) : x = trail[i]
            BY <3>1, <4>2 DEF Elements
          <5>2. i \in 1..(Len(trail) + 1) /\ Append(trail, name)[i] = x
            BY <2>1, <3>1, <5>1
          <5>3. QED BY <3>1, <5>2 DEF Elements
        <4>3. ASSUME x = name PROVE x \in Elements(Append(trail, name))
          <5>1. Len(trail) + 1 \in 1..(Len(trail) + 1) /\ Append(trail, name)[Len(trail) + 1] = x
            BY <2>1, <3>1, <4>3
          <5>2. QED BY <3>1, <5>1 DEF Elements
        <4>4. QED BY <4>1, <4>2, <4>3
      <3>3. QED BY <3>2
    <2>3. Cardinality(L \ {name}) = Cardinality(L) - 1 /\ IsFiniteSet(L \ {name})
      BY <1>1, FS_RemoveElement
    <2>4. QED BY <2>1, <2>2, <2>3, FS_CardinalityType
  <1>3. ASSUME NEW name \in L
        PROVE  /\ Left(list, trail) > 0
               /\ Left(list, Append(trail, name)) = Left(list, trail) - 1
    <2>1. N \ Elements(Append(trail, name)) = L \ {name}
      BY <1>2
    <2> HIDE DEF L
    <2>2. Left(list, trail) = Cardinality(L)
          /\ Left(list, Append(trail, name)) = Cardinality(L \ {name})
      BY <2>1 DEF Left, L
    <2>3. QED BY <1>1, <1>2, <2>2
  <1>4. Left(list, trail) \in 0..Cardinality(N)
    BY <1>1 DEF Left
  <1>5. QED BY <1>2, <1>3, <1>4

HasLists(list) ==
    /\ IsList(list)
    /\ \A s \in Elements(list) : IsList(s.references)

\* A list has finitely many names, and every name has a list of references.
LEMMA NamesAreFinite ==
    ASSUME NEW list, HasLists(list)
    PROVE  /\ IsFiniteSet(NamesOf(list))
           /\ \A name \in NamesOf(list) : IsList(ReferencesOf(list, name))
  <1>1. IsFiniteSet(NamesOf(list))
    <2> DEFINE f == [i \in 1..Len(list) |-> list[i].name]
    <2>1. Len(list) \in Nat /\ DOMAIN list = 1..Len(list)
      BY LenProperties DEF HasLists, IsList
    <2>2. IsFiniteSet(1..Len(list))
      BY <2>1, FS_Interval
    <2>3. f \in [1..Len(list) -> NamesOf(list)]
      BY <2>1 DEF NamesOf, Elements
    <2>4. \A n \in NamesOf(list) : \E i \in 1..Len(list) : f[i] = n
      BY <2>1 DEF NamesOf, Elements
    <2> HIDE DEF f
    <2>5. f \in Surjection(1..Len(list), NamesOf(list))
      BY <2>3, <2>4 DEF Surjection
    <2>6. QED BY <2>2, <2>5, FS_Surjection
  <1>2. ASSUME NEW name \in NamesOf(list) PROVE IsList(ReferencesOf(list, name))
    <2> DEFINE Named(s) == s.name = name
    <2>1. \E s \in Elements(list) : Named(s)
      BY DEF NamesOf
    <2>2. (CHOOSE s \in Elements(list) : Named(s)) \in Elements(list)
      BY <2>1
    <2>3. QED BY <2>2 DEF ReferencesOf, HasLists
  <1>3. QED BY <1>1, <1>2
\* A visit makes a walk of a walk, if it does so one step further down.
LEMMA VisitTyped ==
    ASSUME NEW list, HasLists(list), NEW visit, NEW call \in Calls(list),
           call[2] \notin Elements(call[3]) => AnswersBelow(list, visit, call[2], call[3])
    PROVE  VisitOf(list, visit, call) \in Walks(list)
  <1> DEFINE walk == call[1]
             name == call[2]
             trail == call[3]
             n == Len(ReferencesOf(list, name))
             after == AfterRefs(list, visit, walk, name, trail)
  <1>1. walk \in Walks(list) /\ name \in NamesOf(list) /\ trail \in Seq(NamesOf(list))
    BY DEF Calls
  <1>2. IsList(ReferencesOf(list, name)) /\ n \in Nat
    BY <1>1, NamesAreFinite, LenProperties DEF IsList
  <1>3. [walk EXCEPT !.cycle = TRUE] \in Walks(list)
    BY <1>1 DEF Walks
  <1>4. ASSUME name \notin Elements(trail)
        PROVE  [after[n] EXCEPT !.order = Append(@, name)] \in Walks(list)
    <2>1. IsAfter(list, visit, walk, name, trail, after)
      BY <1>1, <1>2, <1>4, AfterIs
    <2>2. after[n] \in Walks(list)
      BY <1>2, <2>1 DEF IsAfter
    <2> HIDE DEF after, n, name
    <2>3. Append(after[n].order, name) \in Seq(NamesOf(list))
      BY <1>1, <2>2, AppendProperties DEF Walks
    <2>4. QED BY <2>2, <2>3 DEF Walks
  <1> HIDE DEF after, n
  <1>5. QED BY <1>1, <1>3, <1>4 DEF VisitOf, after, n

\* Two that answer the same one step further down answer the same.
LEMMA VisitAgrees ==
    ASSUME NEW list, HasLists(list), NEW visit, NEW other, NEW call \in Calls(list),
           call[2] \notin Elements(call[3]) =>
               /\ AnswersBelow(list, visit, call[2], call[3])
               /\ \A w \in Walks(list), m \in NamesOf(list) :
                      visit[<<w, m, Append(call[3], call[2])>>]
                          = other[<<w, m, Append(call[3], call[2])>>]
    PROVE  VisitOf(list, visit, call) = VisitOf(list, other, call)
  <1> DEFINE f == AfterRefs(list, visit, call[1], call[2], call[3])
             g == AfterRefs(list, other, call[1], call[2], call[3])
  <1>1. call[1] \in Walks(list) /\ call[2] \in NamesOf(list)
    BY DEF Calls
  <1>2. IsList(ReferencesOf(list, call[2]))
    BY <1>1, NamesAreFinite
  <1>3. ASSUME call[2] \notin Elements(call[3]) PROVE f = g
    <2>1. AnswersBelow(list, other, call[2], call[3])
      BY <1>3 DEF AnswersBelow
    <2>2. /\ IsAfter(list, visit, call[1], call[2], call[3], f)
          /\ IsAfter(list, other, call[1], call[2], call[3], g)
      BY <1>1, <1>2, <1>3, <2>1, AfterIs
    <2> HIDE DEF f, g
    <2>3. QED BY <1>2, <1>3, <2>2, AfterAgrees
  <1> HIDE DEF f, g
  <1>4. QED BY <1>3 DEF VisitOf, f, g

\* There is a visit: by the names that are left, the fewest first.
LEMMA VisitExists ==
    ASSUME NEW list, HasLists(list)
    PROVE  \E visit : visit = [call \in Calls(list) |-> VisitOf(list, visit, call)]
  <1> DEFINE N == Cardinality(NamesOf(list))
             Upto(k, v) == \A call \in Calls(list) :
                               Left(list, call[3]) < k => v[call] = VisitOf(list, v, call)
             S == {k \in 0..(N + 1) :
                       \E v \in [Calls(list) -> Walks(list)] : Upto(k, v)}
  <1>1. IsFiniteSet(NamesOf(list)) /\ N \in Nat
    BY NamesAreFinite, FS_CardinalityType
  <1>2. \A call \in Calls(list) :
            /\ call[1] \in Walks(list) /\ call[2] \in NamesOf(list)
            /\ call[3] \in Seq(NamesOf(list))
            /\ Left(list, call[3]) \in 0..N
    BY <1>1, LeftFacts DEF Calls
  <1> HIDE DEF N
  <1>3. 0 \in S
    <2> DEFINE v == [call \in Calls(list) |-> call[1]]
    <2>1. v \in [Calls(list) -> Walks(list)]
      BY <1>2
    <2>2. Upto(0, v)
      BY <1>1, <1>2
    <2> HIDE DEF v
    <2>3. QED BY <1>1, <2>1, <2>2
  <1>4. ASSUME NEW k \in 0..N, k \in S PROVE k + 1 \in S
    <2>1. PICK v \in [Calls(list) -> Walks(list)] : Upto(k, v)
      BY <1>4
    <2> DEFINE u == [call \in Calls(list) |->
                        IF Left(list, call[3]) < k THEN v[call] ELSE VisitOf(list, v, call)]
    <2>2. ASSUME NEW call \in Calls(list)
          PROVE  VisitOf(list, v, call) \in Walks(list)
      <3>1. ASSUME call[2] \notin Elements(call[3])
            PROVE  AnswersBelow(list, v, call[2], call[3])
        <4>1. Append(call[3], call[2]) \in Seq(NamesOf(list))
          BY <1>1, <1>2, <3>1, LeftFacts
        <4>2. QED BY <4>1 DEF AnswersBelow, Calls
      <3>2. QED BY <3>1, VisitTyped
    <2>3. u \in [Calls(list) -> Walks(list)]
      BY <2>2
    <2>4. ASSUME NEW call \in Calls(list), Left(list, call[3]) < k + 1
          PROVE  u[call] = VisitOf(list, u, call)
      <3>1. u[call] = VisitOf(list, v, call)
        BY <2>1
      <3>2. ASSUME call[2] \notin Elements(call[3])
            PROVE  /\ AnswersBelow(list, v, call[2], call[3])
                   /\ \A w \in Walks(list), m \in NamesOf(list) :
                          v[<<w, m, Append(call[3], call[2])>>]
                              = u[<<w, m, Append(call[3], call[2])>>]
        <4> DEFINE t == Append(call[3], call[2])
        <4>1. t \in Seq(NamesOf(list)) /\ Left(list, t) = Left(list, call[3]) - 1
          BY <1>1, <1>2, <3>2, LeftFacts
        <4>2. Left(list, t) < k
          BY <1>2, <2>4, <4>1
        <4> HIDE DEF t
        <4>3. ASSUME NEW w \in Walks(list), NEW m \in NamesOf(list)
              PROVE  <<w, m, t>> \in Calls(list) /\ v[<<w, m, t>>] = u[<<w, m, t>>]
          <5>1. <<w, m, t>> \in Calls(list) /\ <<w, m, t>>[3] = t
            BY <4>1 DEF Calls
          <5>2. QED BY <4>2, <5>1
        <4> HIDE DEF u
        <4>4. QED BY <4>3 DEF AnswersBelow, t
      <3> HIDE DEF u
      <3>3. QED BY <3>1, <3>2, VisitAgrees
    <2> HIDE DEF u
    <2>5. Upto(k + 1, u)
      BY <2>4
    <2>6. QED BY <1>1, <2>3, <2>5
  <1> HIDE DEF S
  <1>5. N + 1 \in S
    <2>1. N + 1 \in Nat /\ (N + 1) - 1 = N /\ N + 1 \in 0..(N + 1)
      BY <1>1
    <2>2. \A k \in 0..((N + 1) - 1) : k \in S => k + 1 \in S
      BY <1>4, <2>1
    <2> DEFINE M == N + 1
    <2> HIDE DEF M
    <2>3. M \in Nat /\ M \in 0..M /\ \A k \in 0..(M - 1) : k \in S => k + 1 \in S
      BY <2>1, <2>2 DEF M
    <2>4. M \in S
      BY <1>3, <2>3, UpTo
    <2>5. QED BY <2>4 DEF M
  <1>6. PICK v \in [Calls(list) -> Walks(list)] : Upto(N + 1, v)
    BY <1>5 DEF S
  <1>7. \A call \in Calls(list) : v[call] = VisitOf(list, v, call)
    BY <1>1, <1>2, <1>6
  <1>8. QED BY <1>7

\* So what Visit chooses is there, and every call answers with a walk.
LEMMA VisitIs ==
    ASSUME NEW list, HasLists(list)
    PROVE  /\ Visit(list) \in [Calls(list) -> Walks(list)]
           /\ \A call \in Calls(list) :
                  Visit(list)[call] = VisitOf(list, Visit(list), call)
  <1> DEFINE v == Visit(list)
             N == Cardinality(NamesOf(list))
  <1>1. v = [call \in Calls(list) |-> VisitOf(list, v, call)]
    BY VisitExists, Zenon DEF Visit
  <1>2. IsFiniteSet(NamesOf(list)) /\ N \in Nat
    BY NamesAreFinite, FS_CardinalityType
  <1>3. \A call \in Calls(list) :
            /\ call[2] \in NamesOf(list) /\ call[3] \in Seq(NamesOf(list))
            /\ Left(list, call[3]) \in 0..N
    BY <1>2, LeftFacts DEF Calls
  <1> HIDE DEF v, N
  <1>4. \A call \in Calls(list) : v[call] = VisitOf(list, v, call)
    BY <1>1
  <1> DEFINE S == {k \in 0..N : \A call \in Calls(list) :
                       Left(list, call[3]) <= k => v[call] \in Walks(list)}
  <1>5. ASSUME NEW call \in Calls(list),
               \A other \in Calls(list) :
                   Left(list, other[3]) < Left(list, call[3]) => v[other] \in Walks(list)
        PROVE  v[call] \in Walks(list)
    <2>1. ASSUME call[2] \notin Elements(call[3])
          PROVE  AnswersBelow(list, v, call[2], call[3])
      <3> DEFINE t == Append(call[3], call[2])
      <3>1. /\ t \in Seq(NamesOf(list))
            /\ Left(list, t) = Left(list, call[3]) - 1
        BY <1>2, <1>3, <2>1, LeftFacts
      <3>2. Left(list, t) < Left(list, call[3])
        BY <1>3, <3>1
      <3> HIDE DEF t
      <3>3. ASSUME NEW w \in Walks(list), NEW m \in NamesOf(list)
            PROVE  v[<<w, m, t>>] \in Walks(list)
        <4>1. <<w, m, t>> \in Calls(list) /\ <<w, m, t>>[3] = t
          BY <3>1 DEF Calls
        <4>2. QED BY <1>5, <3>2, <4>1
      <3>4. QED BY <3>3 DEF AnswersBelow, t
    <2>2. QED BY <1>4, <2>1, VisitTyped
  <1>6. 0 \in S
    <2>1. ASSUME NEW call \in Calls(list), Left(list, call[3]) <= 0
          PROVE  v[call] \in Walks(list)
      <3>1. \A other \in Calls(list) : ~(Left(list, other[3]) < Left(list, call[3]))
        BY <1>2, <1>3, <2>1
      <3>2. QED BY <1>5, <3>1
    <2>2. QED BY <1>2, <2>1
  <1>7. ASSUME NEW k \in 0..(N - 1), k \in S PROVE k + 1 \in S
    <2>1. ASSUME NEW call \in Calls(list), Left(list, call[3]) <= k + 1
          PROVE  v[call] \in Walks(list)
      <3>1. ASSUME NEW other \in Calls(list),
                   Left(list, other[3]) < Left(list, call[3])
            PROVE  v[other] \in Walks(list)
        <4>1. Left(list, other[3]) <= k
          BY <1>2, <1>3, <2>1, <3>1
        <4>2. QED BY <1>7, <4>1
      <3>2. QED BY <1>5, <3>1
    <2>2. QED BY <1>2, <2>1
  <1>8. N \in S
    <2>1. \A k \in 0..(N - 1) : k \in S => k + 1 \in S
      BY <1>7
    <2>2. N \in 0..N
      BY <1>2
    <2> HIDE DEF S
    <2>3. QED BY <1>2, <1>6, <2>1, <2>2, UpTo
  <1>9. \A call \in Calls(list) : v[call] \in Walks(list)
    BY <1>2, <1>3, <1>8
  <1>10. QED BY <1>1, <1>4, <1>9 DEF v

-----------------------------------------------------------------------------
(* A walk that met no cycle is in order.                                   *)

\* What a list has once more is at its end.
LEMMA AppendElements ==
    ASSUME NEW S, NEW s \in Seq(S), NEW x \in S
    PROVE  Elements(Append(s, x)) = Elements(s) \cup {x}
  <1> DEFINE n == Len(s)
             u == Append(s, x)
  <1>1. /\ u \in Seq(S) /\ Len(u) = n + 1 /\ n \in Nat
        /\ \A i \in 1..(n + 1) : u[i] = IF i <= n THEN s[i] ELSE x
    BY AppendProperties, LenProperties
  <1>2. DOMAIN s = 1..n /\ DOMAIN u = 1..(n + 1)
    BY <1>1, LenProperties
  <1> HIDE DEF u, n
  <1>3. u[n + 1] = x /\ \A i \in 1..n : i \in 1..(n + 1) /\ u[i] = s[i]
    BY <1>1
  <1>4. \A i \in 1..(n + 1) : i \in 1..n \/ i = n + 1
    BY <1>1
  <1>5. ASSUME NEW y \in Elements(u) PROVE y \in Elements(s) \cup {x}
    <2>1. PICK i \in 1..(n + 1) : y = u[i]
      BY <1>2 DEF Elements
    <2>2. QED BY <1>2, <1>3, <1>4, <2>1 DEF Elements
  <1>6. ASSUME NEW y \in Elements(s) PROVE y \in Elements(u)
    <2>1. PICK i \in 1..n : y = s[i]
      BY <1>2 DEF Elements
    <2>2. QED BY <1>2, <1>3, <2>1 DEF Elements
  <1>7. x \in Elements(u)
    <2>1. n + 1 \in 1..(n + 1)
      BY <1>1
    <2>2. QED BY <1>2, <1>3, <2>1 DEF Elements
  <1>8. QED BY <1>5, <1>6, <1>7 DEF u

\* Every name is there once, and what it embeds is there before it.
InOrder(list, order) ==
    /\ \A i, j \in DOMAIN order : order[i] = order[j] => i = j
    /\ \A k \in DOMAIN order :
           \A i \in 1..Len(ReferencesOf(list, order[k])) :
               IsEmbedded(list, ReferencesOf(list, order[k])[i]) =>
                   \E j \in DOMAIN order :
                       j < k /\ order[j] = ReferencesOf(list, order[k])[i].collection

\* A name that comes after all it embeds leaves the order one.
LEMMA AppendInOrder ==
    ASSUME NEW list, NEW order \in Seq(NamesOf(list)), InOrder(list, order),
           NEW name \in NamesOf(list), name \notin Elements(order),
           \A i \in 1..Len(ReferencesOf(list, name)) :
               IsEmbedded(list, ReferencesOf(list, name)[i]) =>
                   ReferencesOf(list, name)[i].collection \in Elements(order)
    PROVE  InOrder(list, Append(order, name))
  <1> DEFINE n == Len(order)
             u == Append(order, name)
             Embeds(k, target) == \E i \in 1..Len(ReferencesOf(list, k)) :
                                      /\ IsEmbedded(list, ReferencesOf(list, k)[i])
                                      /\ target = ReferencesOf(list, k)[i].collection
  <1>1. /\ u \in Seq(NamesOf(list)) /\ Len(u) = n + 1 /\ n \in Nat
        /\ \A i \in 1..(n + 1) : u[i] = IF i <= n THEN order[i] ELSE name
    BY AppendProperties, LenProperties
  <1>2. DOMAIN order = 1..n /\ DOMAIN u = 1..(n + 1)
    BY <1>1, LenProperties
  <1>3. /\ \A i, j \in 1..n : order[i] = order[j] => i = j
        /\ \A k \in 1..n : \A target : Embeds(order[k], target) =>
               \E j \in 1..n : j < k /\ order[j] = target
        /\ \A target : Embeds(name, target) => target \in Elements(order)
    BY <1>2 DEF InOrder
  <1> HIDE DEF u, n, Embeds
  <1>4. u[n + 1] = name /\ \A i \in 1..n : i \in 1..(n + 1) /\ u[i] = order[i]
    BY <1>1
  <1>5. \A i \in 1..(n + 1) : i \in 1..n \/ i = n + 1
    BY <1>1
  <1>6. \A i \in 1..n : order[i] # name
    BY <1>2 DEF Elements
  <1>7. \A i, j \in 1..(n + 1) : u[i] = u[j] => i = j
    BY <1>3, <1>4, <1>5, <1>6
  <1>8. ASSUME NEW k \in 1..(n + 1), NEW target, Embeds(u[k], target)
        PROVE  \E j \in 1..(n + 1) : j < k /\ u[j] = target
    <2>1. CASE k \in 1..n
      <3>1. PICK j \in 1..n : j < k /\ order[j] = target
        BY <1>3, <1>4, <1>8, <2>1
      <3>2. QED BY <1>4, <3>1
    <2>2. CASE k = n + 1
      <3>1. target \in Elements(order)
        BY <1>3, <1>4, <1>8, <2>2
      <3>2. PICK j \in 1..n : order[j] = target
        BY <1>2, <3>1 DEF Elements
      <3>3. j < k
        BY <1>1, <2>2, <3>2
      <3>4. QED BY <1>4, <3>2, <3>3
    <2>3. QED BY <1>5, <2>1, <2>2
  <1>9. ASSUME NEW k \in DOMAIN u, NEW i \in 1..Len(ReferencesOf(list, u[k])),
               IsEmbedded(list, ReferencesOf(list, u[k])[i])
        PROVE  \E j \in DOMAIN u : j < k /\ u[j] = ReferencesOf(list, u[k])[i].collection
    <2> DEFINE target == ReferencesOf(list, u[k])[i].collection
    <2>1. Embeds(u[k], target)
      BY <1>9 DEF Embeds
    <2> HIDE DEF target
    <2>2. \E j \in DOMAIN u : j < k /\ u[j] = target
      BY <1>2, <1>8, <2>1
    <2>3. QED BY <2>2 DEF target
  <1>10. \A i, j \in DOMAIN u : u[i] = u[j] => i = j
    BY <1>2, <1>7
  <1>11. InOrder(list, u)
    BY <1>9, <1>10, Zenon DEF InOrder
  <1>12. QED BY <1>11 DEF u

\* What a part of the walk does to it: a cycle stays one, nothing is taken out,
\* nothing of the way (trail) is put in, and the order remains one.
Leads(list, trail, walk, next) ==
    /\ walk.cycle => next.cycle
    /\ Elements(walk.order) \subseteq Elements(next.order)
    /\ Elements(trail) \cap Elements(next.order) \subseteq Elements(walk.order)
    /\ InOrder(list, walk.order) /\ ~next.cycle => InOrder(list, next.order)
Arrives(list, trail, walk, name, next) ==
    /\ Leads(list, trail, walk, next)
    /\ ~next.cycle => name \in Elements(next.order)

\* A visit arrives, if it does so one step further down.
LEMMA VisitNext ==
    ASSUME NEW list, HasLists(list), NEW call \in Calls(list),
           call[2] \notin Elements(call[3]) =>
               \A w \in Walks(list), m \in NamesOf(list) :
                   Arrives(list, Append(call[3], call[2]), w, m,
                           Visit(list)[<<w, m, Append(call[3], call[2])>>])
    PROVE  Arrives(list, call[3], call[1], call[2], Visit(list)[call])
  <1> DEFINE visit == Visit(list)
             walk == call[1]
             name == call[2]
             trail == call[3]
             way == Append(trail, name)
             refs == ReferencesOf(list, name)
             n == Len(refs)
             f == AfterRefs(list, visit, walk, name, trail)
             next == visit[call]
  <1>1. /\ walk \in Walks(list) /\ name \in NamesOf(list) /\ trail \in Seq(NamesOf(list))
        /\ next = VisitOf(list, visit, call)
        /\ walk.order \in Seq(NamesOf(list)) /\ walk.cycle \in BOOLEAN
    BY VisitIs DEF Calls, Walks
  <1>2. CASE name \in Elements(walk.order)
    <2>1. next = walk
      BY <1>1, <1>2 DEF VisitOf
    <2> HIDE DEF next
    <2>2. QED BY <1>2, <2>1 DEF Arrives, Leads, next
  <1>3. CASE name \notin Elements(walk.order) /\ name \in Elements(trail)
    <2>1. next = [walk EXCEPT !.cycle = TRUE]
      BY <1>1, <1>3 DEF VisitOf
    <2>2. next.order = walk.order /\ next.cycle = TRUE
      BY <1>1, <2>1 DEF Walks
    <2> HIDE DEF next
    <2>3. QED BY <2>2 DEF Arrives, Leads, next
  <1>4. CASE name \notin Elements(walk.order) /\ name \notin Elements(trail)
    <2>1. /\ way \in Seq(NamesOf(list))
          /\ Elements(way) = Elements(trail) \cup {name}
      BY <1>1, AppendElements, AppendProperties
    <2>2. IsList(refs) /\ n \in Nat
      BY <1>1, NamesAreFinite, LenProperties DEF IsList
    <2>3. AnswersBelow(list, visit, name, trail)
      <3> HIDE DEF visit, way
      <3>1. ASSUME NEW w \in Walks(list), NEW m \in NamesOf(list)
            PROVE  visit[<<w, m, way>>] \in Walks(list)
        <4>1. <<w, m, way>> \in Calls(list)
          BY <2>1 DEF Calls
        <4>2. QED BY <4>1, VisitIs DEF visit
      <3>2. QED BY <3>1 DEF AnswersBelow, way
    <2>4. IsAfter(list, visit, walk, name, trail, f)
      BY <1>1, <2>2, <2>3, AfterIs
    <2>5. /\ f \in [0..n -> Walks(list)] /\ f[0] = walk
          /\ \A k \in 1..n : f[k] = IF IsEmbedded(list, refs[k])
                                    THEN visit[<<f[k - 1], refs[k].collection, way>>]
                                    ELSE f[k - 1]
      BY <2>4, Zenon DEF IsAfter
    <2>6. \A w \in Walks(list), m \in NamesOf(list) :
              Arrives(list, way, w, m, visit[<<w, m, way>>])
      BY <1>4
    <2>7. \A r : IsEmbedded(list, r) => r.collection \in NamesOf(list)
      BY DEF IsEmbedded, NamesOf
    <2>8. next = [f[n] EXCEPT !.order = Append(@, name)]
      BY <1>1, <1>4, Zenon DEF VisitOf
    <2> HIDE DEF f, visit, walk, name, trail, way, refs, n, next
    <2> DEFINE S == {k \in 0..n :
                        /\ Leads(list, way, walk, f[k])
                        /\ ~f[k].cycle => \A i \in 1..k : IsEmbedded(list, refs[i]) =>
                               refs[i].collection \in Elements(f[k].order)}
    <2>9. 0 \in S
      BY <2>2, <2>5 DEF Leads
    <2>10. ASSUME NEW k \in 0..(n - 1), k \in S PROVE k + 1 \in S
      <3>1. k \in 0..n /\ k + 1 \in 1..n /\ k + 1 \in 0..n /\ (k + 1) - 1 = k
            /\ 1..(k + 1) = (1..k) \cup {k + 1}
        BY <2>2
      <3>2. f[k] \in Walks(list)
        BY <2>5, <3>1
      <3>3. /\ Leads(list, way, f[k], f[k + 1])
            /\ ~f[k + 1].cycle /\ IsEmbedded(list, refs[k + 1]) =>
                   refs[k + 1].collection \in Elements(f[k + 1].order)
        <4>1. CASE IsEmbedded(list, refs[k + 1])
          <5>1. f[k + 1] = visit[<<f[k], refs[k + 1].collection, way>>]
            BY <2>5, <3>1, <4>1
          <5>2. Arrives(list, way, f[k], refs[k + 1].collection, f[k + 1])
            BY <2>6, <2>7, <3>2, <4>1, <5>1
          <5>3. QED BY <5>2 DEF Arrives
        <4>2. CASE ~IsEmbedded(list, refs[k + 1])
          <5>1. f[k + 1] = f[k]
            BY <2>5, <3>1, <4>2
          <5>2. QED BY <4>2, <5>1 DEF Leads
        <4>3. QED BY <4>1, <4>2
      <3>4. Leads(list, way, walk, f[k + 1])
        BY <2>10, <3>3 DEF Leads
      <3>5. ASSUME ~f[k + 1].cycle, NEW i \in 1..(k + 1), IsEmbedded(list, refs[i])
            PROVE  refs[i].collection \in Elements(f[k + 1].order)
        <4>1. CASE i = k + 1
          BY <3>3, <3>5, <4>1
        <4>2. CASE i \in 1..k
          <5>1. ~f[k].cycle /\ Elements(f[k].order) \subseteq Elements(f[k + 1].order)
            BY <3>3, <3>5 DEF Leads
          <5>2. QED BY <2>10, <3>5, <4>2, <5>1
        <4>3. QED BY <3>1, <4>1, <4>2
      <3>6. QED BY <3>1, <3>4, <3>5
    <2>11. n \in S
      <3>1. \A k \in 0..(n - 1) : k \in S => k + 1 \in S
        BY <2>10
      <3>2. n \in 0..n
        BY <2>2
      <3> HIDE DEF S
      <3>3. QED BY <2>2, <2>9, <3>1, <3>2, UpTo
    <2> DEFINE last == f[n]
    <2>12. /\ Leads(list, way, walk, last)
           /\ ~last.cycle => \A i \in 1..n : IsEmbedded(list, refs[i]) =>
                  refs[i].collection \in Elements(last.order)
           /\ last \in Walks(list)
      BY <2>2, <2>5, <2>11
    <2> HIDE DEF S, last
    <2>13. last.order \in Seq(NamesOf(list)) /\ last.cycle \in BOOLEAN
      BY <2>12 DEF Walks
    <2>14. next.order = Append(last.order, name) /\ next.cycle = last.cycle
      BY <2>8, <2>12 DEF Walks, last
    <2>15. Elements(next.order) = Elements(last.order) \cup {name}
      BY <1>1, <2>13, <2>14, AppendElements
    <2>16. name \notin Elements(last.order)
      BY <1>4, <2>1, <2>12 DEF Leads
    <2>17. ASSUME InOrder(list, walk.order), ~next.cycle PROVE InOrder(list, next.order)
      <3>1. InOrder(list, last.order) /\ ~last.cycle
        BY <2>12, <2>14, <2>17 DEF Leads
      <3>2. \A i \in 1..Len(ReferencesOf(list, name)) :
                IsEmbedded(list, ReferencesOf(list, name)[i]) =>
                    ReferencesOf(list, name)[i].collection \in Elements(last.order)
        BY <2>12, <3>1 DEF refs, n
      <3>3. QED BY <1>1, <2>13, <2>14, <2>16, <3>1, <3>2, AppendInOrder
    <2>18. Leads(list, trail, walk, next)
      BY <1>4, <2>1, <2>12, <2>14, <2>15, <2>17 DEF Leads
    <2>19. Arrives(list, trail, walk, name, next)
      BY <2>15, <2>18 DEF Arrives
    <2>20. QED BY <2>19, Zenon DEF trail, walk, name, next, visit
  <1>5. QED BY <1>2, <1>3, <1>4

\* So every visit arrives, again by the names that are left.
LEMMA VisitArrives ==
    ASSUME NEW list, HasLists(list)
    PROVE  \A call \in Calls(list) :
               Arrives(list, call[3], call[1], call[2], Visit(list)[call])
  <1> DEFINE N == Cardinality(NamesOf(list))
             Ok(call) == Arrives(list, call[3], call[1], call[2], Visit(list)[call])
             S == {k \in 0..N : \A call \in Calls(list) : Left(list, call[3]) <= k => Ok(call)}
  <1>1. IsFiniteSet(NamesOf(list)) /\ N \in Nat
    BY NamesAreFinite, FS_CardinalityType
  <1>2. \A call \in Calls(list) :
            /\ call[2] \in NamesOf(list) /\ call[3] \in Seq(NamesOf(list))
            /\ Left(list, call[3]) \in 0..N
    BY <1>1, LeftFacts DEF Calls
  <1> HIDE DEF N
  <1>3. ASSUME NEW call \in Calls(list),
               \A other \in Calls(list) :
                   Left(list, other[3]) < Left(list, call[3]) => Ok(other)
        PROVE  Ok(call)
    <2> DEFINE t == Append(call[3], call[2])
    <2>1. ASSUME call[2] \notin Elements(call[3]), NEW w \in Walks(list), NEW m \in NamesOf(list)
          PROVE  Arrives(list, t, w, m, Visit(list)[<<w, m, t>>])
      <3>1. t \in Seq(NamesOf(list)) /\ Left(list, t) = Left(list, call[3]) - 1
        BY <1>1, <1>2, <2>1, LeftFacts
      <3>2. Left(list, t) < Left(list, call[3])
        BY <1>2, <3>1
      <3> HIDE DEF t
      <3> DEFINE other == <<w, m, t>>
      <3>3. other \in Calls(list) /\ other[1] = w /\ other[2] = m /\ other[3] = t
        BY <3>1 DEF Calls
      <3> HIDE DEF other
      <3>4. Ok(other)
        BY <1>3, <3>2, <3>3
      <3>5. QED BY <3>3, <3>4 DEF other
    <2>2. QED BY <2>1, VisitNext
  <1> HIDE DEF Ok
  <1>4. 0 \in S
    <2>1. ASSUME NEW call \in Calls(list), Left(list, call[3]) <= 0 PROVE Ok(call)
      <3>1. \A other \in Calls(list) : ~(Left(list, other[3]) < Left(list, call[3]))
        BY <1>1, <1>2, <2>1
      <3>2. QED BY <1>3, <3>1
    <2>2. QED BY <1>1, <2>1
  <1>5. ASSUME NEW k \in 0..(N - 1), k \in S PROVE k + 1 \in S
    <2>1. ASSUME NEW call \in Calls(list), Left(list, call[3]) <= k + 1 PROVE Ok(call)
      <3>1. ASSUME NEW other \in Calls(list), Left(list, other[3]) < Left(list, call[3])
            PROVE  Ok(other)
        <4>1. Left(list, other[3]) <= k
          BY <1>1, <1>2, <2>1, <3>1
        <4>2. QED BY <1>5, <4>1
      <3>2. QED BY <1>3, <3>1
    <2>2. QED BY <1>1, <2>1
  <1>6. N \in S
    <2>1. \A k \in 0..(N - 1) : k \in S => k + 1 \in S
      BY <1>5
    <2>2. N \in 0..N
      BY <1>1
    <2> HIDE DEF S
    <2>3. QED BY <1>1, <1>4, <2>1, <2>2, UpTo
  <1>7. \A call \in Calls(list) : Ok(call)
    BY <1>1, <1>2, <1>6
  <1>8. QED BY <1>7 DEF Ok

\* So the order that was found without a cycle has every source, once, and after
\* the sources it embeds.
LEMMA EmbedOrderIsOne ==
    ASSUME NEW list, HasLists(list), ~EmbedOrder(list).cycle
    PROVE  LET order == EmbedOrder(list).order
           IN  /\ order \in Seq(NamesOf(list))
               /\ InOrder(list, order)
               /\ Elements(order) = NamesOf(list)
  <1> DEFINE visit == Visit(list)
             n == Len(list)
             first == [order |-> <<>>, cycle |-> FALSE]
             op == [p \in (1..n) \X Walks(list) |-> visit[<<p[2], list[p[1]].name, <<>>>>]]
             all == AllVisits(list, visit)
  <1>1. n \in Nat /\ DOMAIN list = 1..n
    BY LenProperties DEF HasLists, IsList
  <1>2. /\ first \in Walks(list) /\ ~first.cycle /\ Elements(first.order) = {}
        /\ InOrder(list, first.order)
    <2>1. <<>> \in Seq(NamesOf(list)) /\ DOMAIN <<>> = {}
      OBVIOUS
    <2>2. first.order = <<>> /\ ~first.cycle /\ first \in Walks(list)
      BY <2>1 DEF Walks
    <2> HIDE DEF first
    <2>3. QED BY <2>1, <2>2 DEF InOrder, Elements
  <1>3. ASSUME NEW k \in 1..n, NEW w \in Walks(list)
        PROVE  /\ <<w, list[k].name, <<>>>> \in Calls(list)
               /\ visit[<<w, list[k].name, <<>>>>] \in Walks(list)
               /\ Arrives(list, <<>>, w, list[k].name, visit[<<w, list[k].name, <<>>>>])
    <2> DEFINE call == <<w, list[k].name, <<>>>>
    <2>1. list[k].name \in NamesOf(list) /\ <<>> \in Seq(NamesOf(list))
      BY <1>1 DEF NamesOf, Elements
    <2>2. call \in Calls(list)
      BY <2>1 DEF Calls
    <2>3. call[1] = w /\ call[2] = list[k].name /\ call[3] = <<>>
      OBVIOUS
    <2> HIDE DEF call
    <2>4. visit[call] \in Walks(list) /\ Arrives(list, <<>>, w, list[k].name, visit[call])
      BY <2>2, <2>3, VisitIs, VisitArrives
    <2>5. QED BY <2>2, <2>4 DEF call
  <1> HIDE DEF visit, n, first, op
  <1>4. PICK f : Recursion(n, first, op, f)
    BY <1>1, RecursionExists
  <1> DEFINE Is(g) == g = [k \in 0..n |-> IF k = 0 THEN first
                                          ELSE visit[<<g[k - 1], list[k].name, <<>>>>]]
             S == {k \in 0..n :
                      /\ f[k] \in Walks(list)
                      /\ ~f[k].cycle => /\ InOrder(list, f[k].order)
                                        /\ \A i \in 1..k : list[i].name \in Elements(f[k].order)}
  <1>5. /\ f[0] = first
        /\ \A k \in 1..n : f[k] = op[<<k, f[k - 1]>>]
        /\ f = [k \in 0..n |-> f[k]]
    BY <1>1, <1>4 DEF Recursion
  <1>6. \A k \in 1..n, w \in Walks(list) : op[<<k, w>>] = visit[<<w, list[k].name, <<>>>>]
    BY DEF op
  <1>7. 0 \in S
    BY <1>1, <1>2, <1>5
  <1>8. ASSUME NEW k \in 0..(n - 1), k \in S PROVE k + 1 \in S
    <2>1. k + 1 \in 1..n /\ k + 1 \in 0..n /\ (k + 1) - 1 = k
          /\ 1..(k + 1) = (1..k) \cup {k + 1}
      BY <1>1
    <2>2. f[k] \in Walks(list)
      BY <1>8
    <2>3. f[k + 1] = visit[<<f[k], list[k + 1].name, <<>>>>]
      BY <1>5, <1>6, <2>1, <2>2
    <2>4. f[k + 1] \in Walks(list) /\ Arrives(list, <<>>, f[k], list[k + 1].name, f[k + 1])
      BY <1>3, <2>1, <2>2, <2>3
    <2>5. ASSUME ~f[k + 1].cycle
          PROVE  /\ InOrder(list, f[k + 1].order)
                 /\ \A i \in 1..(k + 1) : list[i].name \in Elements(f[k + 1].order)
      <3>1. /\ ~f[k].cycle
            /\ Elements(f[k].order) \subseteq Elements(f[k + 1].order)
            /\ InOrder(list, f[k].order) => InOrder(list, f[k + 1].order)
            /\ list[k + 1].name \in Elements(f[k + 1].order)
        BY <2>4, <2>5 DEF Arrives, Leads
      <3>2. QED BY <1>8, <2>1, <3>1
    <2>6. QED BY <2>1, <2>4, <2>5
  <1>9. \A k \in 0..n : k \in S
    <2>1. \A k \in 0..(n - 1) : k \in S => k + 1 \in S
      BY <1>8
    <2> HIDE DEF S
    <2>2. QED BY <1>1, <1>7, <2>1, UpTo
  <1>10. \A k \in 1..n : f[k] = visit[<<f[k - 1], list[k].name, <<>>>>]
    <2> TAKE k \in 1..n
    <2>1. f[k - 1] \in Walks(list)
      BY <1>1, <1>9
    <2>2. QED BY <1>5, <1>6, <2>1
  <1>11. Is(f)
    <2> DEFINE value(k) == IF k = 0 THEN first ELSE visit[<<f[k - 1], list[k].name, <<>>>>]
    <2>1. \A k \in 0..n : k = 0 \/ k \in 1..n
      BY <1>1
    <2>2. \A k \in 0..n : f[k] = value(k)
      BY <1>5, <1>10, <2>1
    <2>3. f = [k \in 0..n |-> value(k)]
      <3> HIDE DEF value
      <3>1. QED BY <1>5, <2>2, Zenon
    <2>4. QED BY <2>3, Zenon
  <1>12. ASSUME NEW g, Is(g) PROVE g = f
    <2> DEFINE T == {k \in 0..n : g[k] = f[k]}
    <2>1. 0 \in T
      BY <1>1, <1>11, <1>12
    <2>2. ASSUME NEW k \in 0..(n - 1), k \in T PROVE k + 1 \in T
      <3>1. k + 1 \in 0..n /\ k + 1 # 0 /\ (k + 1) - 1 = k
        BY <1>1
      <3>2. /\ f[k + 1] = visit[<<f[k], list[k + 1].name, <<>>>>]
            /\ g[k + 1] = visit[<<g[k], list[k + 1].name, <<>>>>]
        BY <1>11, <1>12, <3>1
      <3>3. QED BY <2>2, <3>1, <3>2
    <2>3. \A k \in 0..n : k \in T
      <3>1. \A k \in 0..(n - 1) : k \in T => k + 1 \in T
        BY <2>2
      <3> HIDE DEF T
      <3>2. QED BY <1>1, <2>1, <3>1, UpTo
    <2>4. \A k \in 0..n : g[k] = f[k]
      BY <2>3
    <2>5. QED BY <1>11, <1>12, <2>4
  <1>13. all = f
    <2>1. all = CHOOSE g : Is(g)
      BY Zenon DEF AllVisits, n, first
    <2> HIDE DEF all, Is
    <2>2. QED BY <1>11, <1>12, <2>1, Zenon
  <1>14. EmbedOrder(list) = f[n]
    BY <1>13, EmbedOrderIs DEF n, visit
  <1>15. /\ f[n] \in Walks(list) /\ ~f[n].cycle
         /\ InOrder(list, f[n].order)
         /\ \A i \in 1..n : list[i].name \in Elements(f[n].order)
    BY <1>1, <1>9, <1>14
  <1>16. f[n].order \in Seq(NamesOf(list))
    BY <1>15 DEF Walks
  <1>17. Elements(f[n].order) = NamesOf(list)
    <2>1. Elements(f[n].order) \subseteq NamesOf(list)
      BY <1>16, LenProperties DEF Elements
    <2>2. NamesOf(list) \subseteq Elements(f[n].order)
      BY <1>1, <1>15 DEF NamesOf, Elements
    <2>3. QED BY <2>1, <2>2
  <1>18. QED BY <1>14, <1>15, <1>16, <1>17

-----------------------------------------------------------------------------
(* What is loaded was accepted.                                            *)

\* What the sources of a config make has the types above, unless it is refused.
ConfigsAreTyped ==
    \A texts : Accepted(ConfigOf(texts)) => IsTyped(ConfigOf(texts))

\* A project that some texts make, and that was not refused.
IsAccepted(project) ==
    \E texts : /\ Accepted(ConfigOf(texts))
               /\ project = ResolveProject(ConfigOf(texts))

\* A project that waits for its setup, and the one that is loaded, were accepted.
NamesInv ==
    /\ DOMAIN jobs = Actors
    /\ \A a \in Actors : jobs[a] # None => {"pc", "project"} \subseteq DOMAIN jobs[a]
    /\ jobs["load"] # None /\ jobs["load"].pc = "setup" =>
           IsAccepted(jobs["load"].project.resolved)
    /\ loaded # None => IsAccepted(loaded.project)

\* A job that goes on keeps what it made, unless it makes a project.
LEMMA JobGoesOn ==
    ASSUME NamesInv, UNCHANGED loaded, NEW a \in Actors, NEW job,
           jobs' = [jobs EXCEPT ![a] = job],
           job # None => /\ {"pc", "project"} \subseteq DOMAIN job
                         /\ a = "load" /\ job.pc = "setup" => IsAccepted(job.project.resolved)
    PROVE  NamesInv'
  <1>1. /\ DOMAIN jobs' = Actors
        /\ jobs'[a] = job
        /\ \A b \in Actors : b # a => jobs'[b] = jobs[b]
    BY DEF NamesInv
  <1>2. \A b \in Actors : jobs'[b] # None => {"pc", "project"} \subseteq DOMAIN jobs'[b]
    BY <1>1 DEF NamesInv
  <1>3. jobs'["load"] # None /\ jobs'["load"].pc = "setup" =>
            IsAccepted(jobs'["load"].project.resolved)
    <2>1. CASE a = "load"
      BY <1>1, <2>1
    <2>2. CASE a # "load"
      <3>1. jobs'["load"] = jobs["load"]
        BY <1>1, <2>2 DEF Actors
      <3>2. QED BY <3>1 DEF NamesInv
    <2>3. QED BY <2>1, <2>2
  <1>4. loaded' # None => IsAccepted(loaded'.project)
    BY DEF NamesInv
  <1>5. QED BY <1>1, <1>2, <1>3, <1>4 DEF NamesInv, IsAccepted

\* Nothing is loaded at first.
LEMMA InitNames == Init => NamesInv
  <1> SUFFICES ASSUME Init PROVE NamesInv
    OBVIOUS
  <1>1. jobs = [a \in Actors |-> None] /\ loaded = None
    BY DEF Init, LoaderInit
  <1>2. QED BY <1>1 DEF NamesInv, Actors

\* The steps of a load.
LEMMA BeginNames ==
    ASSUME NamesInv, NEW a \in Actors, Begin(a) PROVE NamesInv'
  <1>1. CASE UNCHANGED <<jobs, loaded>>
    BY <1>1, Zenon DEF NamesInv, IsAccepted
  <1>2. CASE jobs' = [jobs EXCEPT ![a] = NewJob(Lockfile)] /\ UNCHANGED loaded
    <2>1. NewJob(Lockfile).pc = "collect"
          /\ {"pc", "project"} \subseteq DOMAIN NewJob(Lockfile)
      BY DEF NewJob
    <2>2. QED BY <1>2, <2>1, JobGoesOn
  <1>3. QED BY <1>1, <1>2 DEF Begin

LEMMA ReadNames ==
    ASSUME NamesInv, NEW a \in Actors, ReadModule(a) PROVE NamesInv'
  <1> DEFINE j == jobs[a]
  <1>1. j # None /\ j.pc = "collect" /\ UNCHANGED loaded
    BY DEF ReadModule
  <1>2. {"pc", "project"} \subseteq DOMAIN j /\ a \in DOMAIN jobs
    BY <1>1 DEF NamesInv
  <1> DEFINE OtherJob == \E job : /\ jobs' = [jobs EXCEPT ![a] = job]
                                  /\ DOMAIN job = DOMAIN j /\ job.pc = j.pc
  <1>3. OtherJob
    <2>1. ASSUME NEW queue, jobs' = [jobs EXCEPT ![a].queue = queue]
          PROVE  OtherJob
      <3> WITNESS [j EXCEPT !.queue = queue]
      <3>1. QED BY <1>2, <2>1
    <2>2. ASSUME NEW queue, NEW complete,
                 jobs' = [jobs EXCEPT ![a].queue = queue, ![a].complete = complete]
          PROVE  OtherJob
      <3> WITNESS [j EXCEPT !.queue = queue, !.complete = complete]
      <3>1. QED BY <1>2, <2>2
    <2>3. ASSUME NEW queue, NEW seen, NEW installed,
                 jobs' = [jobs EXCEPT ![a].queue = queue, ![a].seen = seen,
                                      ![a].installed = installed]
          PROVE  OtherJob
      <3> WITNESS [j EXCEPT !.queue = queue, !.seen = seen, !.installed = installed]
      <3>1. QED BY <1>2, <2>3
    <2> HIDE DEF OtherJob
    <2>4. CASE Head(j.queue) \in DOMAIN j.seen
      BY <2>1, <2>4 DEF ReadModule
    <2>5. CASE /\ Head(j.queue) \notin DOMAIN j.seen
               /\ Cardinality(DOMAIN j.seen) >= MaxModules
      BY <2>2, <2>5 DEF ReadModule
    <2>6. CASE /\ Head(j.queue) \notin DOMAIN j.seen
               /\ ~(Cardinality(DOMAIN j.seen) >= MaxModules)
      <3> DEFINE packages(record) == {f \in Elements(record.installed) : f \notin DOMAIN j.installed}
                 Seen(record, entry) ==
                     jobs' = [jobs EXCEPT
                         ![a].queue = Tail(@) \o record.local,
                         ![a].seen = (Head(j.queue) :> record.text) @@ @,
                         ![a].installed = [f \in packages(record) |-> entry[f].text] @@ @]
      <3>1. PICK record, entry : Seen(record, entry)
        <4>1. \E record \in RecordOf(Head(j.queue), TRUE) :
                 \E entry \in [packages(record) -> UNION {RecordOf(f, FALSE) : f \in packages(record)}] :
                     /\ \A f \in packages(record) : entry[f] \in RecordOf(f, FALSE)
                     /\ records' = (Head(j.queue) :> record) @@ entry @@ records
                     /\ Seen(record, entry)
          BY <2>6, Zenon DEF ReadModule
        <4> HIDE DEF Seen
        <4>2. QED BY <4>1
      <3> HIDE DEF packages
      <3>2. \E queue, seen, installed :
                jobs' = [jobs EXCEPT ![a].queue = queue, ![a].seen = seen,
                                     ![a].installed = installed]
        BY <3>1, Zenon
      <3>3. QED BY <3>2, <2>3
    <2>7. QED BY <2>4, <2>5, <2>6
  <1>4. PICK job : /\ jobs' = [jobs EXCEPT ![a] = job]
                   /\ DOMAIN job = DOMAIN j /\ job.pc = j.pc
    BY <1>3
  <1>5. QED BY <1>1, <1>2, <1>4, JobGoesOn

LEMMA CollectedNames ==
    ASSUME NamesInv, NEW a \in Actors, Collected(a) PROVE NamesInv'
  <1> DEFINE j == jobs[a]
             f == Fingerprint(j)
  <1>1. j # None /\ j.pc = "collect" /\ UNCHANGED loaded
    BY DEF Collected
  <1>2. {"pc", "project"} \subseteq DOMAIN j /\ a \in DOMAIN jobs
    BY <1>1 DEF NamesInv
  <1>3. CASE jobs' = [jobs EXCEPT ![a] = None]
    BY <1>1, <1>3, JobGoesOn
  <1>4. CASE jobs' = [jobs EXCEPT ![a].pc = "import", ![a].fingerprint = f]
    <2> DEFINE job == [j EXCEPT !.pc = "import", !.fingerprint = f]
    <2>1. jobs' = [jobs EXCEPT ![a] = job]
      BY <1>2, <1>4
    <2>2. DOMAIN job = DOMAIN j /\ job.pc = "import"
      BY <1>2
    <2> HIDE DEF job
    <2>3. QED BY <1>1, <1>2, <2>1, <2>2, JobGoesOn
  <1>5. QED BY <1>3, <1>4, Zenon DEF Collected

LEMMA ImportNames ==
    ASSUME NamesInv, ImportConfig PROVE NamesInv'
  <1> DEFINE j == jobs["load"]
             texts == [f \in Modules |-> disk[f]]
             project == [resolved |-> ResolveProject(ConfigOf(texts)), texts |-> texts]
  <1>1. j # None /\ UNCHANGED loaded /\ "load" \in Actors
    BY DEF ImportConfig, Actors
  <1>2. {"pc", "project"} \subseteq DOMAIN j /\ "load" \in DOMAIN jobs
    BY <1>1 DEF NamesInv
  <1>3. CASE jobs' = [jobs EXCEPT !["load"] = None]
    BY <1>1, <1>3, JobGoesOn
  <1>4. CASE /\ Accepted(ConfigOf(texts))
             /\ jobs' = [jobs EXCEPT !["load"].pc = "setup", !["load"].project = project]
    <2> DEFINE job == [j EXCEPT !.pc = "setup", !.project = project]
    <2>1. jobs' = [jobs EXCEPT !["load"] = job]
      BY <1>2, <1>4
    <2>2. DOMAIN job = DOMAIN j /\ job.project = project
      BY <1>2
    <2>3. IsAccepted(project.resolved)
      BY <1>4 DEF IsAccepted
    <2> HIDE DEF job, project
    <2>4. QED BY <1>1, <1>2, <2>1, <2>2, <2>3, JobGoesOn
  <1>5. QED BY <1>3, <1>4, Zenon DEF ImportConfig

LEMMA SetupNames ==
    ASSUME NamesInv, RunSetup PROVE NamesInv'
  <1> DEFINE j == jobs["load"]
  <1>1. j # None /\ j.pc = "setup" /\ jobs' = [jobs EXCEPT !["load"] = None]
    BY DEF RunSetup
  <1>2. IsAccepted(j.project.resolved)
    BY <1>1 DEF NamesInv
  <1>3. CASE UNCHANGED loaded
    BY <1>1, <1>3, JobGoesOn DEF Actors
  <1>4. CASE loaded'.project = j.project.resolved
    <2>1. /\ DOMAIN jobs' = Actors /\ jobs'["load"] = None
          /\ \A b \in Actors : b # "load" => jobs'[b] = jobs[b]
      BY <1>1 DEF NamesInv, Actors
    <2>2. IsAccepted(loaded'.project)
      BY <1>2, <1>4
    <2>3. \A b \in Actors : jobs'[b] # None => {"pc", "project"} \subseteq DOMAIN jobs'[b]
      BY <2>1 DEF NamesInv
    <2>4. QED BY <2>1, <2>2, <2>3 DEF NamesInv, IsAccepted
  <1>5. QED BY <1>3, <1>4 DEF RunSetup

\* Edits and the walk over the content leave the loader alone.
LEMMA NamesNextInv == NamesInv /\ [Next]_vars => NamesInv'
  <1> SUFFICES ASSUME NamesInv, [Next]_vars PROVE NamesInv'
    OBVIOUS
  <1>1. CASE BeginLoad
    BY <1>1, BeginNames DEF BeginLoad, Actors
  <1>2. CASE LoadNext
    BY <1>2, BeginNames, ReadNames, CollectedNames, ImportNames, SetupNames
    DEF LoadNext, BeginInspect, Actors
  <1>3. CASE UNCHANGED loading
    BY <1>3, Zenon DEF loading, NamesInv, IsAccepted
  <1>4. CASE UNCHANGED vars
    BY <1>3, <1>4 DEF vars
  <1>5. ASSUME NEW i, WalkNext(i) PROVE UNCHANGED loading
    BY <1>5 DEF WalkNext, BeginSource, BeginLocale, ReadFolder, CannotRead, ListingFails,
       LookAtLink, FindTarget, FindRoot, EnterLink, EndLocale, SetWalk
  <1>6. CASE Next
    BY <1>1, <1>2, <1>3, <1>5, <1>6
    DEF Next, EditModule, BeginDiscovery, EndDiscovery, Interrupt, EditTree
  <1>7. QED BY <1>4, <1>6

\* For every config that is accepted: what is written for it has names of its own.
LEMMA AcceptedAreUnique ==
    ASSUME ConfigsAreTyped, NamesInv PROVE NamesAreUnique
  <1> SUFFICES ASSUME loaded # None
               PROVE  Distinct(Emitted(loaded.project))
    BY Zenon DEF NamesAreUnique, Distinct, SymbolKey, IsInjective
  <1>1. PICK texts : /\ Accepted(ConfigOf(texts))
                     /\ loaded.project = ResolveProject(ConfigOf(texts))
    BY DEF NamesInv, IsAccepted
  <1>2. Distinct(Symbols(ConfigOf(texts)))
    BY <1>1 DEF Accepted, NoCollision, Distinct
  <1>3. IsTyped(ConfigOf(texts))
    BY <1>1 DEF ConfigsAreTyped
  <1>4. QED BY <1>1, <1>2, <1>3, EmittedWithin DEF Within

\* What is accepted has the sources of its entries, each with a name of its own.
LEMMA AcceptedSources ==
    ASSUME NEW config, IsTyped(config), Accepted(config)
    PROVE  /\ HasLists(Sources(config))
           /\ \A s, t \in Elements(Sources(config)) : s.name = t.name => s = t
  <1> DEFINE entered == config.content
             entries == entered \o config.views
             ss == Sources(config)
             n == Len(entered)
  <1>1. n \in Nat /\ DOMAIN entered = 1..n
    BY LenProperties DEF IsTyped, IsList
  <1>2. /\ ss = [i \in DOMAIN entered |-> ss[i]] /\ DOMAIN ss = 1..n
        /\ \A i \in 1..n : /\ ss[i].name = entered[i].name
                           /\ ss[i].references = entered[i].schema.references
    <2>1. ss = [i \in DOMAIN entered |-> ss[i]] /\ DOMAIN ss = 1..n
      BY <1>1 DEF Sources
    <2>2. ASSUME NEW i \in 1..n
          PROVE  ss[i] \in {ResolvedCollection(config, entered[i]),
                            ResolvedSingleton(config, entered[i])}
      BY <1>1 DEF Sources
    <2>3. \A e : /\ ResolvedCollection(config, e).name = e.name
                 /\ ResolvedCollection(config, e).references = e.schema.references
      BY DEF ResolvedCollection
    <2>4. \A e : /\ ResolvedSingleton(config, e).name = e.name
                 /\ ResolvedSingleton(config, e).references = e.schema.references
      BY DEF ResolvedSingleton
    <2> HIDE DEF ss
    <2>5. ASSUME NEW i \in 1..n
          PROVE  /\ ss[i].name = entered[i].name
                 /\ ss[i].references = entered[i].schema.references
      BY <2>2, <2>3, <2>4
    <2>6. QED BY <2>1, <2>5
  <1> HIDE DEF ss
  <1>3. HasLists(ss)
    <2>1. ss \in Seq(Elements(ss))
      BY <1>1, <1>2, EachOf DEF IsTyped
    <2>2. ASSUME NEW i \in 1..n PROVE IsList(ss[i].references)
      <3>1. entered[i] \in Elements(entered)
        BY <1>1 DEF Elements
      <3>2. QED BY <1>2, <3>1 DEF IsTyped
    <2>3. \A s \in Elements(ss) : IsList(s.references)
      BY <1>2, <2>2 DEF Elements
    <2>4. QED BY <2>1, <2>3 DEF HasLists, IsList
  <1>4. ASSUME NEW i \in 1..n, NEW j \in 1..n, ss[i].name = ss[j].name PROVE i = j
    <2> DEFINE S == Elements(entered) \cup Elements(config.views)
    <2>1. entered \in Seq(S) /\ config.views \in Seq(S)
      BY SeqMonotonic DEF IsTyped, IsList
    <2>2. /\ entries \in Seq(S) /\ Len(entries) = n + Len(config.views)
          /\ Len(config.views) \in Nat
          /\ \A k \in 1..n : entries[k] = entered[k]
      <3>1. /\ entries \in Seq(S) /\ Len(entries) = n + Len(config.views)
            /\ \A k \in 1..(n + Len(config.views)) :
                   entries[k] = IF k <= n THEN entered[k] ELSE config.views[k - n]
        BY <2>1, ConcatProperties
      <3>2. Len(config.views) \in Nat
        BY <2>1, LenProperties
      <3> HIDE DEF entries, n, entered, S
      <3>3. ASSUME NEW k \in 1..n PROVE entries[k] = entered[k]
        <4>1. k \in 1..(n + Len(config.views)) /\ k <= n
          BY <1>1, <3>2
        <4>2. QED BY <3>1, <4>1
      <3>4. QED BY <3>1, <3>2, <3>3
    <2>3. DOMAIN entries = 1..Len(entries)
      BY <2>2, LenProperties
    <2>4. i \in DOMAIN entries /\ j \in DOMAIN entries
      <3> HIDE DEF entries, n, entered
      <3>1. QED BY <1>1, <2>2, <2>3
    <2>5. \A a, b \in DOMAIN entries : entries[a].name = entries[b].name => a = b
      BY DEF Accepted, EntriesOk, IsInjective
    <2> HIDE DEF entries
    <2>6. QED BY <1>2, <1>4, <2>2, <2>4, <2>5
  <1>5. \A s, t \in Elements(ss) : s.name = t.name => s = t
    <2> SUFFICES ASSUME NEW s \in Elements(ss), NEW t \in Elements(ss), s.name = t.name
                 PROVE  s = t
      OBVIOUS
    <2>1. PICK i \in 1..n : s = ss[i]
      BY <1>2 DEF Elements
    <2>2. PICK j \in 1..n : t = ss[j]
      BY <1>2 DEF Elements
    <2>3. QED BY <1>4, <2>1, <2>2
  <1>6. QED BY <1>3, <1>5 DEF ss

\* What EmbedsComeFirst says of an order and the sources it is for.
EmbedsAreFirst(order, all) ==
    /\ IsInjective(order) /\ Elements(order) = {s.name : s \in all}
    /\ \A s \in all : \A r \in Elements(s.references) :
           r.embed => \E j, k \in DOMAIN order :
               order[j] = r.collection /\ order[k] = s.name /\ j < k

\* For every config that is accepted: its embedded sources are linked first.
LEMMA AcceptedAreInOrder ==
    ASSUME NEW config, IsTyped(config), Accepted(config)
    PROVE  EmbedsAreFirst(EmbedOrder(Sources(config)).order, Elements(Sources(config)))
  <1> DEFINE ss == Sources(config)
             order == EmbedOrder(ss).order
             all == Elements(ss)
  <1>1. HasLists(ss) /\ \A s, t \in all : s.name = t.name => s = t
    BY AcceptedSources
  <1>2. ReferencesOk(ss) /\ ~EmbedOrder(ss).cycle
    BY DEF Accepted
  <1> HIDE DEF ss
  <1>3. /\ order \in Seq(NamesOf(ss)) /\ InOrder(ss, order)
        /\ Elements(order) = NamesOf(ss)
    BY <1>1, <1>2, EmbedOrderIsOne
  <1> HIDE DEF order
  <1>4. ASSUME NEW s \in all, NEW r \in Elements(s.references), r.embed
        PROVE  \E j, k \in DOMAIN order :
                   order[j] = r.collection /\ order[k] = s.name /\ j < k
    <2>1. IsEmbedded(ss, r)
      BY <1>2, <1>4 DEF ReferencesOk, IsEmbedded
    <2>2. ReferencesOf(ss, s.name) = s.references
      <3> DEFINE named == CHOOSE t \in all : t.name = s.name
      <3>1. named \in all /\ named.name = s.name
        OBVIOUS
      <3>2. named = s
        BY <1>1, <3>1
      <3>3. QED BY <3>2 DEF ReferencesOf
    <2>3. PICK k \in DOMAIN order : order[k] = s.name
      <3>1. s.name \in Elements(order)
        BY <1>3 DEF NamesOf
      <3>2. QED BY <3>1 DEF Elements
    <2>4. PICK i \in 1..Len(s.references) : r = s.references[i]
      <3>1. DOMAIN s.references = 1..Len(s.references)
        BY <1>1, LenProperties DEF HasLists, IsList
      <3>2. QED BY <3>1 DEF Elements
    <2>5. /\ i \in 1..Len(ReferencesOf(ss, order[k]))
          /\ ReferencesOf(ss, order[k])[i] = r
      BY <2>2, <2>3, <2>4
    <2>6. \E j \in DOMAIN order : j < k /\ order[j] = r.collection
      BY <1>3, <2>1, <2>5, Zenon DEF InOrder
    <2>7. QED BY <2>3, <2>6
  <1>5. IsInjective(order)
    BY <1>3 DEF InOrder, IsInjective
  <1>6. QED BY <1>3, <1>4, <1>5, Zenon DEF EmbedsAreFirst, order, ss, NamesOf

\* What a loaded project exports, declares and writes has names of its own, for
\* every config that resolve.ts accepts: the table of names it keeps
\* (SymbolTable) has everything that codegen.ts generates (planOutput).
THEOREM GeneratedNamesDiffer ==
    ASSUME ConfigsAreTyped PROVE Spec => []NamesAreUnique
  <1>1. Init => NamesInv
    BY InitNames
  <1>2. NamesInv /\ [Next]_vars => NamesInv'
    BY NamesNextInv
  <1>3. NamesInv => NamesAreUnique
    BY AcceptedAreUnique
  <1>4. QED BY <1>1, <1>2, <1>3, PTL DEF Spec

\* A loaded project has an order to link its sources in that has each of them
\* once, and after every source it embeds, however many there are and whatever
\* they embed: a config whose sources embed each other in a circle is refused
\* (embedOrder).
THEOREM EmbeddedAreLinkedFirst ==
    ASSUME ConfigsAreTyped PROVE Spec => []EmbedsComeFirst
  <1>1. Init => NamesInv
    BY InitNames
  <1>2. NamesInv /\ [Next]_vars => NamesInv'
    BY NamesNextInv
  <1>3. NamesInv => EmbedsComeFirst
    <2> SUFFICES ASSUME NamesInv, loaded # None PROVE EmbedsComeFirst
      BY DEF EmbedsComeFirst
    <2>1. PICK texts : /\ Accepted(ConfigOf(texts))
                       /\ loaded.project = ResolveProject(ConfigOf(texts))
      BY DEF NamesInv, IsAccepted
    <2> DEFINE config == ConfigOf(texts)
    <2>2. IsTyped(config)
      BY <2>1 DEF ConfigsAreTyped
    <2>3. /\ loaded.project.embedOrder = EmbedOrder(Sources(config)).order
          /\ loaded.project.sources = Sources(config)
      BY <2>1 DEF ResolveProject
    <2> HIDE DEF config
    <2>4. Accepted(config)
      BY <2>1 DEF config
    <2>5. EmbedsAreFirst(loaded.project.embedOrder, Elements(loaded.project.sources))
      BY <2>2, <2>3, <2>4, AcceptedAreInOrder
    <2>6. QED BY <2>5, Zenon DEF EmbedsComeFirst, EmbedsAreFirst
  <1>4. QED BY <1>1, <1>2, <1>3, PTL DEF Spec

-----------------------------------------------------------------------------
(* The stages of include patterns, and the paths the patterns name.        *)

\* What is left of a pattern (readSegments): neighbouring `**' became one.
IsPattern(a) ==
    /\ IsList(a) /\ Len(a) > 0
    /\ \A m \in 1..Len(a) : a[m].deep \in BOOLEAN /\ a[m].literal \in BOOLEAN
    /\ \A m \in 1..(Len(a) - 1) : ~(a[m].deep /\ a[m + 1].deep)
ArePatterns(globs) == \A a \in FileAlternatives(globs) : IsPattern(a)

\* A segment takes a name; that of a link only if it is a literal one.
Takes(a, m, name, link) ==
    IF link THEN ~a[m].deep /\ a[m].literal /\ name \in a[m].names
    ELSE a[m].deep \/ name \in a[m].names

\* The segment after one that took a name: the next, or one behind a `**' that
\* stands for nothing, or the same `**' again.
Follows(a, before, m) ==
    /\ m \in 1..Len(a)
    /\ before < m \/ (before = m /\ a[m].deep)
    /\ \A j \in (before + 1)..(m - 1) : a[j].deep

LastOf(way, k) == IF k = 0 THEN 0 ELSE way[k]

\* A way to read the first k names of a path, of which some are links.
Reads(a, path, links, k, way) ==
    /\ way \in [1..k -> 1..Len(a)]
    /\ \A i \in 1..k : /\ Takes(a, way[i], path[i], i \in links)
                       /\ Follows(a, LastOf(way, i - 1), way[i])
\* A segment that the name after them can be read by.
Reach(a, path, links, k, m) ==
    \E way : Reads(a, path, links, k, way) /\ Follows(a, LastOf(way, k), m)

\* Name by name.
LEMMA ReadsNext ==
    ASSUME NEW a, NEW path, NEW links, NEW k \in Nat, NEW l \in 1..Len(a)
    PROVE  (\E way : Reads(a, path, links, k + 1, way) /\ way[k + 1] = l) <=>
               Reach(a, path, links, k, l) /\ Takes(a, l, path[k + 1], k + 1 \in links)
  <1>1. /\ k + 1 \in 1..(k + 1) /\ (k + 1) - 1 = k /\ k + 1 # 0
        /\ \A i \in 1..k : i \in 1..(k + 1) /\ i - 1 \in 0..k /\ (i - 1 # 0 => i - 1 \in 1..k)
        /\ \A i \in 1..(k + 1) : i \in 1..k \/ i = k + 1
        /\ k # 0 => k \in 1..k
    OBVIOUS
  <1>2. ASSUME NEW way, Reads(a, path, links, k + 1, way), way[k + 1] = l
        PROVE  Reach(a, path, links, k, l) /\ Takes(a, l, path[k + 1], k + 1 \in links)
    <2> DEFINE less == [i \in 1..k |-> way[i]]
    <2>1. Takes(a, l, path[k + 1], k + 1 \in links) /\ Follows(a, LastOf(way, k), l)
      BY <1>1, <1>2 DEF Reads, LastOf
    <2>2. /\ less \in [1..k -> 1..Len(a)]
          /\ \A i \in 1..k : less[i] = way[i] /\ LastOf(less, i - 1) = LastOf(way, i - 1)
          /\ LastOf(less, k) = LastOf(way, k)
      BY <1>1, <1>2 DEF Reads, LastOf
    <2> HIDE DEF less
    <2>3. Reads(a, path, links, k, less)
      BY <1>1, <1>2, <2>2 DEF Reads
    <2>4. QED BY <2>1, <2>2, <2>3 DEF Reach
  <1>3. ASSUME Reach(a, path, links, k, l), Takes(a, l, path[k + 1], k + 1 \in links)
        PROVE  \E way : Reads(a, path, links, k + 1, way) /\ way[k + 1] = l
    <2>1. PICK way : Reads(a, path, links, k, way) /\ Follows(a, LastOf(way, k), l)
      BY <1>3 DEF Reach
    <2> DEFINE more == [i \in 1..(k + 1) |-> IF i = k + 1 THEN l ELSE way[i]]
    <2>2. /\ more \in [1..(k + 1) -> 1..Len(a)]
          /\ \A i \in 1..k : more[i] = way[i] /\ LastOf(more, i - 1) = LastOf(way, i - 1)
          /\ LastOf(more, k) = LastOf(way, k)
          /\ more[k + 1] = l
      BY <1>1, <2>1 DEF Reads, LastOf
    <2> HIDE DEF more
    <2>3. ASSUME NEW i \in 1..(k + 1)
          PROVE  /\ Takes(a, more[i], path[i], i \in links)
                 /\ Follows(a, LastOf(more, i - 1), more[i])
      <3>1. CASE i = k + 1
        BY <1>1, <1>3, <2>1, <2>2, <3>1
      <3>2. CASE i \in 1..k
        <4>1. /\ Takes(a, way[i], path[i], i \in links)
              /\ Follows(a, LastOf(way, i - 1), way[i])
          BY <2>1, <3>2 DEF Reads
        <4>2. more[i] = way[i] /\ LastOf(more, i - 1) = LastOf(way, i - 1)
          BY <2>2, <3>2
        <4>3. QED BY <4>1, <4>2
      <3>3. QED BY <1>1, <3>1, <3>2
    <2>4. Reads(a, path, links, k + 1, more)
      BY <2>2, <2>3 DEF Reads
    <2>5. QED BY <2>2, <2>4
  <1>4. QED BY <1>2, <1>3

\* A segment is reached if one before it is, takes the name, and it follows that.
LEMMA ReachNext ==
    ASSUME NEW a, NEW path, NEW links, NEW k \in Nat, NEW m
    PROVE  Reach(a, path, links, k + 1, m) <=>
               \E l \in 1..Len(a) : /\ Reach(a, path, links, k, l)
                                    /\ Takes(a, l, path[k + 1], k + 1 \in links)
                                    /\ Follows(a, l, m)
  <1>1. k + 1 # 0 /\ k + 1 \in 1..(k + 1)
    OBVIOUS
  <1>2. Reach(a, path, links, k + 1, m) <=>
            \E way : Reads(a, path, links, k + 1, way) /\ Follows(a, way[k + 1], m)
    BY <1>1 DEF Reach, LastOf
  <1>3. \A way : Reads(a, path, links, k + 1, way) => way[k + 1] \in 1..Len(a)
    BY <1>1 DEF Reads
  <1>4. Reach(a, path, links, k + 1, m) <=>
            \E l \in 1..Len(a) :
                /\ \E way : Reads(a, path, links, k + 1, way) /\ way[k + 1] = l
                /\ Follows(a, l, m)
    BY <1>2, <1>3
  <1>5. ASSUME NEW l \in 1..Len(a)
        PROVE  (\E way : Reads(a, path, links, k + 1, way) /\ way[k + 1] = l) <=>
                   Reach(a, path, links, k, l) /\ Takes(a, l, path[k + 1], k + 1 \in links)
    BY ReadsNext, Zenon
  <1>6. QED BY <1>4, <1>5, Zenon

\* Only the names so far have a part in it.
LEMMA ReachSame ==
    ASSUME NEW a, NEW k \in Nat, NEW m, NEW path, NEW other, NEW links, NEW more,
           \A i \in 1..k : path[i] = other[i] /\ (i \in links <=> i \in more)
    PROVE  Reach(a, path, links, k, m) <=> Reach(a, other, more, k, m)
  <1>1. \A way : Reads(a, path, links, k, way) <=> Reads(a, other, more, k, way)
    BY DEF Reads, Takes
  <1>2. QED BY <1>1 DEF Reach

\* As `**' has no neighbour of its kind, what follows is near.
LEMMA FollowsNear ==
    ASSUME NEW a, IsPattern(a), NEW l \in 0..Len(a), NEW m
    PROVE  Follows(a, l, m) <=>
               /\ m \in 1..Len(a)
               /\ \/ m = l /\ a[l].deep
                  \/ m = l + 1
                  \/ m = l + 2 /\ a[l + 1].deep
  <1>1. Len(a) \in Nat
    BY LenProperties DEF IsPattern, IsList
  <1>2. ASSUME Follows(a, l, m), m > l + 2 PROVE FALSE
    <2>1. a[l + 1].deep /\ a[l + 2].deep /\ l + 1 \in 1..(Len(a) - 1)
      BY <1>1, <1>2 DEF Follows
    <2>2. (l + 1) + 1 = l + 2
      OBVIOUS
    <2>3. QED BY <2>1, <2>2 DEF IsPattern
  <1>3. ASSUME Follows(a, l, m), m = l + 2 PROVE a[l + 1].deep
    BY <1>1, <1>3 DEF Follows
  <1>4. QED BY <1>1, <1>2, <1>3 DEF Follows

\* The places of the patterns, and those from which the walk goes on below a path.
Places(globs) == UNION {{<<a, m>> : m \in 1..Len(a)} : a \in FileAlternatives(globs)}
StageOf(globs, path, links) ==
    {p \in Places(globs) : Reach(p[1], path, links, Len(path), p[2])}

\* What a place is.
LEMMA PlaceFacts ==
    ASSUME NEW globs, ArePatterns(globs)
    PROVE  /\ \A a \in FileAlternatives(globs) : IsPattern(a) /\ Len(a) \in Nat \ {0}
           /\ \A a \in FileAlternatives(globs) : \A m \in 1..Len(a) : <<a, m>> \in Places(globs)
           /\ \A a, m : <<a, m>> \in Places(globs) =>
                  a \in FileAlternatives(globs) /\ m \in 1..Len(a)
           /\ \A p \in Places(globs) :
                  /\ p = <<p[1], p[2]>> /\ p[1] \in FileAlternatives(globs) /\ p[2] \in 1..Len(p[1])
                  /\ IsLast(p) <=> p[2] = Len(p[1])
                  /\ Segment(p) = p[1][p[2]] /\ NextPlace(p) = <<p[1], p[2] + 1>>
                  /\ ~IsLast(p) => p[2] + 1 \in 1..Len(p[1]) /\ NextPlace(p) \in Places(globs)
  <1>1. \A a \in FileAlternatives(globs) : IsPattern(a) /\ Len(a) \in Nat \ {0}
    BY LenProperties DEF ArePatterns, IsPattern, IsList
  <1>2. \A p \in Places(globs) :
            p = <<p[1], p[2]>> /\ p[1] \in FileAlternatives(globs) /\ p[2] \in 1..Len(p[1])
    BY DEF Places
  <1>3. \A a \in FileAlternatives(globs) : \A m \in 1..Len(a) : <<a, m>> \in Places(globs)
    BY DEF Places
  <1>4. \A a, m : <<a, m>> \in Places(globs) =>
            a \in FileAlternatives(globs) /\ m \in 1..Len(a)
    BY DEF Places
  <1>5. ASSUME NEW p \in Places(globs)
        PROVE  /\ IsLast(p) <=> p[2] = Len(p[1])
               /\ Segment(p) = p[1][p[2]] /\ NextPlace(p) = <<p[1], p[2] + 1>>
               /\ ~IsLast(p) => p[2] + 1 \in 1..Len(p[1]) /\ NextPlace(p) \in Places(globs)
    <2>1. p[1] \in FileAlternatives(globs) /\ p[2] \in 1..Len(p[1]) /\ Len(p[1]) \in Nat
      BY <1>1, <1>2
    <2>2. p[2] # Len(p[1]) => p[2] + 1 \in 1..Len(p[1])
      BY <2>1
    <2>3. QED BY <1>3, <2>1, <2>2 DEF IsLast, Segment, NextPlace
  <1>6. QED BY <1>1, <1>2, <1>3, <1>4, <1>5

\* The place after these.
LEMMA NextPlaces ==
    ASSUME NEW globs, ArePatterns(globs), NEW S, S \subseteq Places(globs),
           \A p \in S : ~IsLast(p)
    PROVE  /\ {NextPlace(p) : p \in S} \subseteq Places(globs)
           /\ \A a \in FileAlternatives(globs) : \A m \in 1..Len(a) :
                  <<a, m>> \in {NextPlace(p) : p \in S} <=> m > 1 /\ <<a, m - 1>> \in S
  <1>1. {NextPlace(p) : p \in S} \subseteq Places(globs)
    BY PlaceFacts
  <1>2. ASSUME NEW a \in FileAlternatives(globs), NEW m \in 1..Len(a)
        PROVE  <<a, m>> \in {NextPlace(p) : p \in S} <=> m > 1 /\ <<a, m - 1>> \in S
    <2>0. m \in Nat \ {0}
      BY PlaceFacts
    <2>1. ASSUME NEW p \in S, <<a, m>> = NextPlace(p) PROVE m > 1 /\ <<a, m - 1>> \in S
      <3>1. /\ p = <<p[1], p[2]>> /\ NextPlace(p) = <<p[1], p[2] + 1>>
            /\ p[2] \in 1..Len(p[1])
        BY PlaceFacts
      <3>2. p[1] = a /\ p[2] + 1 = m
        BY <2>1, <3>1
      <3>3. p[2] = m - 1 /\ m > 1
        BY <3>1, <3>2
      <3>4. QED BY <3>1, <3>2, <3>3
    <2>2. ASSUME m > 1, <<a, m - 1>> \in S PROVE <<a, m>> \in {NextPlace(p) : p \in S}
      <3>1. NextPlace(<<a, m - 1>>) = <<a, m>>
        BY <2>0, <2>2 DEF NextPlace
      <3>2. QED BY <2>2, <3>1
    <2>3. QED BY <2>1, <2>2
  <1>3. QED BY <1>1, <1>2

\* These and, after a `**', the place behind it.
LEMMA OpenPlaces ==
    ASSUME NEW globs, ArePatterns(globs), NEW S, S \subseteq Places(globs)
    PROVE  /\ Open(S) \subseteq Places(globs)
           /\ \A a \in FileAlternatives(globs) : \A m \in 1..Len(a) :
                  <<a, m>> \in Open(S) <=>
                      \/ <<a, m>> \in S
                      \/ m > 1 /\ <<a, m - 1>> \in S /\ a[m - 1].deep
  <1> DEFINE T == {p \in S : Segment(p).deep /\ ~IsLast(p)}
             U == {NextPlace(p) : p \in T}
  <1>1. Open(S) = S \cup U
    BY DEF Open
  <1>2. /\ U \subseteq Places(globs)
        /\ \A a \in FileAlternatives(globs) : \A m \in 1..Len(a) :
               <<a, m>> \in U <=> m > 1 /\ <<a, m - 1>> \in T
    <2>1. T \subseteq Places(globs) /\ \A p \in T : ~IsLast(p)
      OBVIOUS
    <2> HIDE DEF T
    <2>2. QED BY <2>1, NextPlaces
  <1>3. ASSUME NEW a \in FileAlternatives(globs), NEW m \in 1..Len(a), m > 1
        PROVE  <<a, m - 1>> \in T <=> <<a, m - 1>> \in S /\ a[m - 1].deep
    <2>1. m - 1 # Len(a)
      BY PlaceFacts
    <2>2. Segment(<<a, m - 1>>) = a[m - 1] /\ ~IsLast(<<a, m - 1>>)
      BY <2>1 DEF Segment, IsLast
    <2>3. QED BY <2>2
  <1> HIDE DEF T, U
  <1>4. QED BY <1>1, <1>2, <1>3

\* Into a folder: what follows a segment that takes its name.
LEMMA EnterPlaces ==
    ASSUME NEW globs, ArePatterns(globs), NEW stage, stage \subseteq Places(globs), NEW name
    PROVE  /\ Enter(stage, name) \subseteq Places(globs)
           /\ \A a \in FileAlternatives(globs) : \A m \in 1..Len(a) :
                  <<a, m>> \in Enter(stage, name) <=>
                      \E l \in 1..Len(a) : /\ <<a, l>> \in stage
                                           /\ Takes(a, l, name, FALSE)
                                           /\ Follows(a, l, m)
  <1> DEFINE T == After(stage, name)
             D == {p \in stage : Segment(p).deep}
             N == {NextPlace(p) : p \in T}
  <1>1. Enter(stage, name) = Open(N \cup D)
    BY DEF Enter
  <1>2. /\ N \subseteq Places(globs)
        /\ \A a \in FileAlternatives(globs) : \A m \in 1..Len(a) :
               <<a, m>> \in N <=> m > 1 /\ <<a, m - 1>> \in T
    <2>1. T \subseteq Places(globs) /\ \A p \in T : ~IsLast(p)
      BY DEF After
    <2> HIDE DEF T
    <2>2. QED BY <2>1, NextPlaces
  <1>3. D \subseteq Places(globs)
    OBVIOUS
  <1>4. ASSUME NEW a \in FileAlternatives(globs), NEW m \in 1..Len(a)
        PROVE  /\ <<a, m>> \in D <=> <<a, m>> \in stage /\ a[m].deep
               /\ m < Len(a) => (<<a, m>> \in T <=>
                      <<a, m>> \in stage /\ ~a[m].deep /\ name \in a[m].names)
    <2>1. Segment(<<a, m>>) = a[m] /\ (m < Len(a) => ~IsLast(<<a, m>>))
      BY PlaceFacts DEF Segment, IsLast
    <2>2. QED BY <2>1 DEF After
  <1> HIDE DEF T, D, N
  <1>5. /\ Enter(stage, name) \subseteq Places(globs)
        /\ \A a \in FileAlternatives(globs) : \A m \in 1..Len(a) :
               <<a, m>> \in Enter(stage, name) <=>
                   \/ <<a, m>> \in N \cup D
                   \/ m > 1 /\ <<a, m - 1>> \in N \cup D /\ a[m - 1].deep
    BY <1>1, <1>2, <1>3, OpenPlaces
  <1>6. ASSUME NEW a \in FileAlternatives(globs), NEW m \in 1..Len(a)
        PROVE  <<a, m>> \in Enter(stage, name) <=>
                   \E l \in 1..Len(a) : /\ <<a, l>> \in stage
                                        /\ Takes(a, l, name, FALSE)
                                        /\ Follows(a, l, m)
    <2> DEFINE In(l) == <<a, l>> \in stage
               Fits(l) == name \in a[l].names
    <2>1. IsPattern(a) /\ Len(a) \in Nat \ {0}
      BY PlaceFacts
    <2>2. \A l \in 1..Len(a) : Follows(a, l, m) <=>
              (m = l /\ a[l].deep) \/ m = l + 1 \/ (m = l + 2 /\ a[l + 1].deep)
      BY <2>1, FollowsNear
    <2>3. \A l \in 1..Len(a) : l > 1 => ~(a[l - 1].deep /\ a[l].deep)
      <3> SUFFICES ASSUME NEW l \in 1..Len(a), l > 1 PROVE ~(a[l - 1].deep /\ a[l].deep)
        OBVIOUS
      <3>1. l - 1 \in 1..(Len(a) - 1) /\ (l - 1) + 1 = l
        BY <2>1
      <3>2. QED BY <2>1, <3>1 DEF IsPattern
    <2>4. \A l \in 1..Len(a) : <<a, l>> \in N \cup D <=>
              \/ l > 1 /\ In(l - 1) /\ ~a[l - 1].deep /\ Fits(l - 1)
              \/ In(l) /\ a[l].deep
      <3> SUFFICES ASSUME NEW l \in 1..Len(a)
                   PROVE  <<a, l>> \in N \cup D <=>
                              \/ l > 1 /\ In(l - 1) /\ ~a[l - 1].deep /\ Fits(l - 1)
                              \/ In(l) /\ a[l].deep
        OBVIOUS
      <3>1. l > 1 => l - 1 \in 1..Len(a) /\ l - 1 < Len(a)
        BY <2>1
      <3>2. QED BY <1>2, <1>4, <3>1
    <2>5. <<a, m>> \in Enter(stage, name) <=>
              \/ m > 1 /\ In(m - 1) /\ ~a[m - 1].deep /\ Fits(m - 1)
              \/ In(m) /\ a[m].deep
              \/ /\ m > 1 /\ a[m - 1].deep
                 /\ \/ m > 2 /\ In(m - 2) /\ ~a[m - 2].deep /\ Fits(m - 2)
                    \/ In(m - 1)
      <3>1. m > 1 => m - 1 \in 1..Len(a) /\ (m - 1) - 1 = m - 2 /\ (m - 1 > 1 <=> m > 2)
        BY <2>1
      <3> HIDE DEF In, Fits
      <3>2. QED BY <1>5, <2>1, <2>4, <3>1
    <2>6. ASSUME <<a, m>> \in Enter(stage, name)
          PROVE  \E l \in 1..Len(a) : In(l) /\ (a[l].deep \/ Fits(l)) /\ Follows(a, l, m)
      <3> HIDE DEF In, Fits
      <3>1. CASE m > 1 /\ In(m - 1) /\ ~a[m - 1].deep /\ Fits(m - 1)
        <4>1. m - 1 \in 1..Len(a) /\ m = (m - 1) + 1
          BY <2>1, <3>1
        <4>2. QED BY <2>2, <3>1, <4>1
      <3>2. CASE In(m) /\ a[m].deep
        BY <2>2, <3>2
      <3>3. CASE m > 1 /\ a[m - 1].deep /\ In(m - 1)
        <4>1. m - 1 \in 1..Len(a) /\ m = (m - 1) + 1
          BY <2>1, <3>3
        <4>2. QED BY <2>2, <3>3, <4>1
      <3>4. CASE m > 2 /\ a[m - 1].deep /\ In(m - 2) /\ Fits(m - 2)
        <4>1. m - 2 \in 1..Len(a) /\ m = (m - 2) + 2 /\ (m - 2) + 1 = m - 1
          BY <2>1, <3>4
        <4>2. QED BY <2>2, <3>4, <4>1
      <3>5. QED BY <2>5, <2>6, <3>1, <3>2, <3>3, <3>4
    <2>7. ASSUME NEW l \in 1..Len(a), In(l), a[l].deep \/ Fits(l), Follows(a, l, m)
          PROVE  <<a, m>> \in Enter(stage, name)
      <3> HIDE DEF In, Fits
      <3>1. CASE m = l /\ a[l].deep
        BY <2>5, <2>7, <3>1
      <3>2. CASE m = l + 1
        <4>1. m > 1 /\ m - 1 = l
          BY <3>2
        <4>2. QED BY <2>1, <2>5, <2>7, <4>1 DEF IsPattern
      <3>3. CASE m = l + 2 /\ a[l + 1].deep
        <4>1. /\ m > 2 /\ m > 1 /\ m - 2 = l /\ m - 1 = l + 1
              /\ l + 1 \in 1..Len(a) /\ l + 1 > 1 /\ (l + 1) - 1 = l
          BY <2>1, <3>3
        <4>2. ~a[l].deep
          BY <2>3, <3>3, <4>1
        <4>3. QED BY <2>5, <2>7, <3>3, <4>1, <4>2
      <3>4. QED BY <2>2, <2>7, <3>1, <3>2, <3>3
    <2>8. QED BY <2>6, <2>7 DEF Takes
  <1>7. QED BY <1>5, <1>6

\* Behind a link, where only literal segments take the name.
LEMMA FollowPlaces ==
    ASSUME NEW globs, ArePatterns(globs), NEW stage, stage \subseteq Places(globs), NEW name
    PROVE  /\ Follow(stage, name) \subseteq Places(globs)
           /\ \A a \in FileAlternatives(globs) : \A m \in 1..Len(a) :
                  <<a, m>> \in Follow(stage, name) <=>
                      \E l \in 1..Len(a) : /\ <<a, l>> \in stage
                                           /\ Takes(a, l, name, TRUE)
                                           /\ Follows(a, l, m)
  <1> DEFINE T == {q \in After(stage, name) : Segment(q).literal}
             N == {NextPlace(p) : p \in T}
  <1>1. Follow(stage, name) = Open(N)
    BY DEF Follow
  <1>2. /\ N \subseteq Places(globs)
        /\ \A a \in FileAlternatives(globs) : \A m \in 1..Len(a) :
               <<a, m>> \in N <=> m > 1 /\ <<a, m - 1>> \in T
    <2>1. T \subseteq Places(globs) /\ \A p \in T : ~IsLast(p)
      BY DEF After
    <2> HIDE DEF T
    <2>2. QED BY <2>1, NextPlaces
  <1>4. ASSUME NEW a \in FileAlternatives(globs), NEW m \in 1..Len(a), m < Len(a)
        PROVE  <<a, m>> \in T <=>
                   <<a, m>> \in stage /\ ~a[m].deep /\ name \in a[m].names /\ a[m].literal
    <2>1. Segment(<<a, m>>) = a[m] /\ ~IsLast(<<a, m>>)
      BY <1>4, PlaceFacts DEF Segment, IsLast
    <2>2. QED BY <2>1 DEF After
  <1> HIDE DEF T, N
  <1>5. /\ Follow(stage, name) \subseteq Places(globs)
        /\ \A a \in FileAlternatives(globs) : \A m \in 1..Len(a) :
               <<a, m>> \in Follow(stage, name) <=>
                   <<a, m>> \in N \/ (m > 1 /\ <<a, m - 1>> \in N /\ a[m - 1].deep)
    BY <1>1, <1>2, OpenPlaces
  <1>6. ASSUME NEW a \in FileAlternatives(globs), NEW m \in 1..Len(a)
        PROVE  <<a, m>> \in Follow(stage, name) <=>
                   \E l \in 1..Len(a) : /\ <<a, l>> \in stage
                                        /\ Takes(a, l, name, TRUE)
                                        /\ Follows(a, l, m)
    <2> DEFINE In(l) == /\ <<a, l>> \in stage /\ ~a[l].deep
                        /\ name \in a[l].names /\ a[l].literal
    <2>1. IsPattern(a) /\ Len(a) \in Nat \ {0}
      BY PlaceFacts
    <2>2. \A l \in 1..Len(a) : Follows(a, l, m) <=>
              (m = l /\ a[l].deep) \/ m = l + 1 \/ (m = l + 2 /\ a[l + 1].deep)
      BY <2>1, FollowsNear
    <2>3. \A l \in 1..Len(a) : <<a, l>> \in N <=> l > 1 /\ In(l - 1)
      <3> SUFFICES ASSUME NEW l \in 1..Len(a) PROVE <<a, l>> \in N <=> l > 1 /\ In(l - 1)
        OBVIOUS
      <3>1. l > 1 => l - 1 \in 1..Len(a) /\ l - 1 < Len(a)
        BY <2>1
      <3>2. QED BY <1>2, <1>4, <3>1
    <2>4. \A l \in 1..Len(a) : In(l) => ~a[l].deep
      OBVIOUS
    <2>5. \A l \in 1..Len(a) : In(l) <=> <<a, l>> \in stage /\ Takes(a, l, name, TRUE)
      BY DEF Takes
    <2> HIDE DEF In
    <2>6. <<a, m>> \in Follow(stage, name) <=>
              \/ m > 1 /\ In(m - 1)
              \/ m > 1 /\ a[m - 1].deep /\ m > 2 /\ In(m - 2)
      <3>1. m > 1 => m - 1 \in 1..Len(a) /\ (m - 1) - 1 = m - 2 /\ (m - 1 > 1 <=> m > 2)
        BY <2>1
      <3>2. QED BY <1>5, <2>3, <3>1
    <2>7. ASSUME <<a, m>> \in Follow(stage, name)
          PROVE  \E l \in 1..Len(a) : In(l) /\ Follows(a, l, m)
      <3>1. CASE m > 1 /\ In(m - 1)
        <4>1. m - 1 \in 1..Len(a) /\ m = (m - 1) + 1
          BY <2>1, <3>1
        <4>2. QED BY <2>2, <3>1, <4>1
      <3>2. CASE m > 2 /\ a[m - 1].deep /\ In(m - 2)
        <4>1. m - 2 \in 1..Len(a) /\ m = (m - 2) + 2 /\ (m - 2) + 1 = m - 1
          BY <2>1, <3>2
        <4>2. QED BY <2>2, <3>2, <4>1
      <3>3. QED BY <2>6, <2>7, <3>1, <3>2
    <2>8. ASSUME NEW l \in 1..Len(a), In(l), Follows(a, l, m)
          PROVE  <<a, m>> \in Follow(stage, name)
      <3>1. CASE m = l + 1
        <4>1. m > 1 /\ m - 1 = l
          BY <3>1
        <4>2. QED BY <2>6, <2>8, <4>1
      <3>2. CASE m = l + 2 /\ a[l + 1].deep
        <4>1. m > 2 /\ m > 1 /\ m - 2 = l /\ m - 1 = l + 1
          BY <3>2
        <4>2. QED BY <2>6, <2>8, <3>2, <4>1
      <3>3. QED BY <2>2, <2>4, <2>8, <3>1, <3>2
    <2>9. QED BY <2>5, <2>7, <2>8
  <1>7. QED BY <1>5, <1>6

\* At the root: what follows nothing.
LEMMA StartPlaces ==
    ASSUME NEW globs, ArePatterns(globs)
    PROVE  /\ Start(globs) \subseteq Places(globs)
           /\ \A a \in FileAlternatives(globs) : \A m \in 1..Len(a) :
                  <<a, m>> \in Start(globs) <=> Follows(a, 0, m)
  <1> DEFINE S == {<<a, 1>> : a \in FileAlternatives(globs)}
  <1>1. \A a \in FileAlternatives(globs) : 1 \in 1..Len(a)
    BY PlaceFacts
  <1>2. S \subseteq Places(globs)
    BY <1>1, PlaceFacts
  <1>3. \A a \in FileAlternatives(globs) : \A m \in 1..Len(a) : <<a, m>> \in S <=> m = 1
    OBVIOUS
  <1>4. Start(globs) = Open(S)
    BY DEF Start
  <1> HIDE DEF S
  <1>5. /\ Start(globs) \subseteq Places(globs)
        /\ \A a \in FileAlternatives(globs) : \A m \in 1..Len(a) :
               <<a, m>> \in Start(globs) <=>
                   <<a, m>> \in S \/ (m > 1 /\ <<a, m - 1>> \in S /\ a[m - 1].deep)
    BY <1>2, <1>4, OpenPlaces
  <1>6. ASSUME NEW a \in FileAlternatives(globs), NEW m \in 1..Len(a)
        PROVE  <<a, m>> \in Start(globs) <=> Follows(a, 0, m)
    <2>1. IsPattern(a) /\ Len(a) \in Nat \ {0}
      BY PlaceFacts
    <2>2. Follows(a, 0, m) <=> m = 1 \/ (m = 2 /\ a[1].deep)
      <3>1. \A l \in 0..Len(a) : Follows(a, l, m) <=>
                (m = l /\ a[l].deep) \/ m = l + 1 \/ (m = l + 2 /\ a[l + 1].deep)
        BY <2>1, FollowsNear
      <3>2. 0 \in 0..Len(a) /\ 0 + 1 = 1 /\ 0 + 2 = 2 /\ m # 0
        BY <2>1
      <3>3. Follows(a, 0, m) <=>
                (m = 0 /\ a[0].deep) \/ m = 0 + 1 \/ (m = 0 + 2 /\ a[0 + 1].deep)
        BY <3>1, <3>2, Zenon
      <3>4. QED BY <3>2, <3>3
    <2>3. (m > 1 => m - 1 \in 1..Len(a)) /\ (m > 1 /\ m - 1 = 1 <=> m = 2)
      BY <2>1
    <2>4. <<a, m>> \in Start(globs) <=> m = 1 \/ (m > 1 /\ m - 1 = 1 /\ a[m - 1].deep)
      BY <1>3, <1>5, <2>3
    <2>5. CASE m = 2
      <3>1. m - 1 = 1 /\ m > 1 /\ m # 1
        BY <2>5
      <3>2. QED BY <2>2, <2>4, <2>5, <3>1
    <2>6. CASE m # 2
      BY <2>2, <2>3, <2>4, <2>6
    <2>7. QED BY <2>5, <2>6
  <1>7. QED BY <1>5, <1>6

\* So the stage of the walk is that of the path it went.
LEMMA StageStart ==
    ASSUME NEW globs, ArePatterns(globs), NEW links
    PROVE  Start(globs) = StageOf(globs, <<>>, links)
  <1>1. ASSUME NEW a, NEW m PROVE Reach(a, <<>>, links, 0, m) <=> Follows(a, 0, m)
    <2> DEFINE none == [i \in 1..0 |-> 0]
    <2>1. Reads(a, <<>>, links, 0, none)
      BY DEF Reads
    <2>2. \A way : LastOf(way, 0) = 0
      BY DEF LastOf
    <2> HIDE DEF none
    <2>3. QED BY <2>1, <2>2 DEF Reach
  <1>2. Len(<<>>) = 0
    OBVIOUS
  <1>3. \A a \in FileAlternatives(globs) : \A m \in 1..Len(a) :
            <<a, m>> \in Start(globs) <=> <<a, m>> \in StageOf(globs, <<>>, links)
    <2> TAKE a \in FileAlternatives(globs)
    <2> TAKE m \in 1..Len(a)
    <2>1. <<a, m>> \in Places(globs)
      BY PlaceFacts
    <2>2. <<a, m>> \in StageOf(globs, <<>>, links) <=> Reach(a, <<>>, links, 0, m)
      BY <1>2, <2>1 DEF StageOf
    <2>3. <<a, m>> \in Start(globs) <=> Follows(a, 0, m)
      BY StartPlaces
    <2>4. QED BY <1>1, <2>2, <2>3
  <1>4. Start(globs) \subseteq Places(globs) /\ StageOf(globs, <<>>, links) \subseteq Places(globs)
    BY StartPlaces DEF StageOf
  <1>5. \A p \in Places(globs) : p \in Start(globs) <=> p \in StageOf(globs, <<>>, links)
    BY <1>3, PlaceFacts
  <1>6. QED BY <1>4, <1>5

\* Each of the names that are links is one of the path.
AreLinks(links, path) == links \subseteq 1..Len(path)

\* Into the next folder, or behind the next link.
LEMMA StageStep ==
    ASSUME NEW globs, ArePatterns(globs), NEW path, IsList(path),
           NEW links, AreLinks(links, path), NEW name
    PROVE  /\ Enter(StageOf(globs, path, links), name)
                  = StageOf(globs, Append(path, name), links)
           /\ Follow(StageOf(globs, path, links), name)
                  = StageOf(globs, Append(path, name), links \cup {Len(path) + 1})
  <1> DEFINE n == Len(path)
             stage == StageOf(globs, path, links)
             longer == Append(path, name)
  <1>1. /\ n \in Nat /\ Len(longer) = n + 1 /\ longer[n + 1] = name
        /\ \A i \in 1..n : longer[i] = path[i]
        /\ n + 1 \notin 1..n
    <2>1. path \in Seq(Elements(path) \cup {name})
      BY SeqMonotonic DEF IsList
    <2>2. /\ n \in Nat /\ Len(longer) = n + 1
          /\ \A i \in 1..(n + 1) : longer[i] = IF i <= n THEN path[i] ELSE name
      BY <2>1, AppendProperties, LenProperties
    <2> HIDE DEF longer, n
    <2>3. QED BY <2>2
  <1>2. stage \subseteq Places(globs)
    BY DEF StageOf
  <1>3. \A a \in FileAlternatives(globs) : \A l \in 1..Len(a) :
            <<a, l>> \in stage <=> Reach(a, path, links, n, l)
    BY PlaceFacts DEF StageOf
  <1> HIDE DEF stage, longer, n
  <1>4. ASSUME NEW more, \A i \in 1..n : i \in links <=> i \in more,
               NEW a \in FileAlternatives(globs), NEW m \in 1..Len(a)
        PROVE  <<a, m>> \in StageOf(globs, longer, more) <=>
                   \E l \in 1..Len(a) : /\ <<a, l>> \in stage
                                        /\ Takes(a, l, name, n + 1 \in more)
                                        /\ Follows(a, l, m)
    <2>1. <<a, m>> \in StageOf(globs, longer, more) <=> Reach(a, longer, more, n + 1, m)
      BY <1>1, PlaceFacts DEF StageOf
    <2>2. Reach(a, longer, more, n + 1, m) <=>
              \E l \in 1..Len(a) : /\ Reach(a, longer, more, n, l)
                                   /\ Takes(a, l, name, n + 1 \in more)
                                   /\ Follows(a, l, m)
      BY <1>1, ReachNext
    <2>3. \A l : Reach(a, path, links, n, l) <=> Reach(a, longer, more, n, l)
      BY <1>1, <1>4, ReachSame
    <2>4. QED BY <1>3, <2>1, <2>2, <2>3
  <1>5. /\ n + 1 \notin links
        /\ \A i \in 1..n : i \in links <=> i \in links \cup {n + 1}
    BY <1>1 DEF n, AreLinks
  <1>6. ASSUME NEW S, NEW T, S \subseteq Places(globs), T \subseteq Places(globs),
               \A a \in FileAlternatives(globs) : \A m \in 1..Len(a) :
                   <<a, m>> \in S <=> <<a, m>> \in T
        PROVE  S = T
    <2>1. \A p \in Places(globs) : p \in S <=> p \in T
      BY <1>6, PlaceFacts
    <2>2. QED BY <1>6, <2>1
  <1>7. \A more : StageOf(globs, longer, more) \subseteq Places(globs)
    BY DEF StageOf
  <1>8. Enter(stage, name) = StageOf(globs, longer, links)
    <2> DEFINE S == Enter(stage, name)
               T == StageOf(globs, longer, links)
    <2>1. S \subseteq Places(globs) /\ T \subseteq Places(globs)
      BY <1>2, <1>7, EnterPlaces
    <2>2. ASSUME NEW a \in FileAlternatives(globs), NEW m \in 1..Len(a)
          PROVE  <<a, m>> \in S <=> <<a, m>> \in T
      <3>1. <<a, m>> \in S <=> \E l \in 1..Len(a) : /\ <<a, l>> \in stage
                                                   /\ Takes(a, l, name, FALSE)
                                                   /\ Follows(a, l, m)
        BY <1>2, EnterPlaces
      <3>2. <<a, m>> \in T <=> \E l \in 1..Len(a) : /\ <<a, l>> \in stage
                                                   /\ Takes(a, l, name, n + 1 \in links)
                                                   /\ Follows(a, l, m)
        BY <1>4
      <3>3. \A l : Takes(a, l, name, FALSE) <=> Takes(a, l, name, n + 1 \in links)
        BY <1>5 DEF Takes
      <3>4. QED BY <3>1, <3>2, <3>3
    <2> HIDE DEF S, T
    <2>3. S = T
      BY <1>6, <2>1, <2>2
    <2>4. QED BY <2>3 DEF S, T
  <1>9. Follow(stage, name) = StageOf(globs, longer, links \cup {n + 1})
    <2> DEFINE more == links \cup {n + 1}
               S == Follow(stage, name)
               T == StageOf(globs, longer, more)
    <2>1. S \subseteq Places(globs) /\ T \subseteq Places(globs)
      BY <1>2, <1>7, FollowPlaces
    <2>2. n + 1 \in more /\ \A i \in 1..n : i \in links <=> i \in more
      BY <1>5
    <2> HIDE DEF more
    <2>3. ASSUME NEW a \in FileAlternatives(globs), NEW m \in 1..Len(a)
          PROVE  <<a, m>> \in S <=> <<a, m>> \in T
      <3>1. <<a, m>> \in S <=> \E l \in 1..Len(a) : /\ <<a, l>> \in stage
                                                   /\ Takes(a, l, name, TRUE)
                                                   /\ Follows(a, l, m)
        BY <1>2, FollowPlaces
      <3>2. <<a, m>> \in T <=> \E l \in 1..Len(a) : /\ <<a, l>> \in stage
                                                   /\ Takes(a, l, name, n + 1 \in more)
                                                   /\ Follows(a, l, m)
        BY <1>4, <2>2
      <3>3. \A l : Takes(a, l, name, TRUE) <=> Takes(a, l, name, n + 1 \in more)
        BY <2>2 DEF Takes
      <3>4. QED BY <3>1, <3>2, <3>3
    <2> HIDE DEF S, T
    <2>4. S = T
      BY <1>6, <2>1, <2>3
    <2>5. QED BY <2>4 DEF S, T, more
  <1>10. QED BY <1>8, <1>9 DEF stage, longer, n

\* A pattern names the path with these links on the way.
Names(globs, path, links) ==
    \E a \in FileAlternatives(globs) : \E read \in Ways(a, path) :
        \A k \in links : ~a[read[k]].deep /\ a[read[k]].literal

\* A way of the patterns (Ways) is one the stages read.
LEMMA WaysAreReads ==
    ASSUME NEW a, IsPattern(a), NEW path, IsList(path), Len(path) > 0,
           NEW links, links \subseteq 1..Len(path)
    PROVE  (\E read \in Ways(a, path) : \A k \in links : ~a[read[k]].deep /\ a[read[k]].literal)
               <=> \E read : Reads(a, path, links, Len(path), read) /\ read[Len(path)] = Len(a)
  <1> DEFINE n == Len(path)
  <1>1. /\ n \in Nat \ {0} /\ DOMAIN path = 1..n /\ DOMAIN a = 1..Len(a) /\ Len(a) \in Nat
        /\ n \in 1..n /\ links \subseteq 1..n
    BY LenProperties DEF IsPattern, IsList
  <1> HIDE DEF n
  <1>2. ASSUME NEW read \in [1..n -> 1..Len(a)], NEW i \in 1..n
        PROVE  LastOf(read, i - 1) = IF i = 1 THEN 0 ELSE read[i - 1]
    BY DEF LastOf
  <1>3. ASSUME NEW read \in [1..n -> 1..Len(a)]
        PROVE  (read \in Ways(a, path) /\ \A k \in links : ~a[read[k]].deep /\ a[read[k]].literal)
                   <=> Reads(a, path, links, n, read) /\ read[n] = Len(a)
    <2> DEFINE before(i) == IF i = 1 THEN 0 ELSE read[i - 1]
    <2>1. read \in Ways(a, path) <=>
              /\ read[n] = Len(a)
              /\ \A i \in 1..n :
                     /\ a[read[i]].deep \/ path[i] \in a[read[i]].names
                     /\ before(i) < read[i] \/ (before(i) = read[i] /\ a[read[i]].deep)
                     /\ \A k \in (before(i) + 1)..(read[i] - 1) : a[k].deep
      BY <1>1 DEF Ways, n
    <2>2. Reads(a, path, links, n, read) <=>
              \A i \in 1..n :
                     /\ Takes(a, read[i], path[i], i \in links)
                     /\ before(i) < read[i] \/ (before(i) = read[i] /\ a[read[i]].deep)
                     /\ \A k \in (before(i) + 1)..(read[i] - 1) : a[k].deep
      <3>1. \A i \in 1..n : LastOf(read, i - 1) = before(i) /\ read[i] \in 1..Len(a)
        BY <1>2
      <3> HIDE DEF before
      <3>2. QED BY <3>1 DEF Reads, Follows
    <2> DEFINE Steps(i) ==
                   /\ before(i) < read[i] \/ (before(i) = read[i] /\ a[read[i]].deep)
                   /\ \A k \in (before(i) + 1)..(read[i] - 1) : a[k].deep
    <2>3. ASSUME NEW i \in 1..n
          PROVE  Takes(a, read[i], path[i], i \in links) <=>
                     /\ a[read[i]].deep \/ path[i] \in a[read[i]].names
                     /\ i \in links => ~a[read[i]].deep /\ a[read[i]].literal
      BY DEF Takes
    <2>4. /\ read \in Ways(a, path) <=>
                 /\ read[n] = Len(a)
                 /\ \A i \in 1..n :
                        (a[read[i]].deep \/ path[i] \in a[read[i]].names) /\ Steps(i)
          /\ Reads(a, path, links, n, read) <=>
                 \A i \in 1..n : Takes(a, read[i], path[i], i \in links) /\ Steps(i)
      BY <2>1, <2>2, Zenon
    <2> HIDE DEF Steps
    <2>5. QED BY <1>1, <2>3, <2>4
  <1>4. Ways(a, path) \subseteq [1..n -> 1..Len(a)]
    BY <1>1 DEF Ways
  <1>5. \A read : Reads(a, path, links, n, read) => read \in [1..n -> 1..Len(a)]
    BY DEF Reads
  <1>6. QED BY <1>3, <1>4, <1>5 DEF n

\* A file is taken if a pattern names its path, whether it is a link or not.
LEMMA StageMatches ==
    ASSUME NEW globs, ArePatterns(globs), NEW path, IsList(path),
           NEW links, links \subseteq 1..Len(path), NEW name
    PROVE  /\ FileMatches(StageOf(globs, path, links), name)
                  <=> Names(globs, Append(path, name), links)
           /\ Names(globs, Append(path, name), links \cup {Len(path) + 1})
                  => FileMatches(StageOf(globs, path, links), name)
  <1> DEFINE n == Len(path)
             stage == StageOf(globs, path, links)
             longer == Append(path, name)
  <1>1. /\ n \in Nat /\ Len(longer) = n + 1 /\ longer[n + 1] = name /\ IsList(longer)
        /\ \A i \in 1..n : longer[i] = path[i]
        /\ n + 1 \notin 1..n /\ 1..n \subseteq 1..(n + 1) /\ links \subseteq 1..n
    <2>1. path \in Seq(Elements(path) \cup {name})
      BY SeqMonotonic DEF IsList
    <2>2. /\ n \in Nat /\ Len(longer) = n + 1
          /\ longer \in Seq(Elements(path) \cup {name})
          /\ \A i \in 1..(n + 1) : longer[i] = IF i <= n THEN path[i] ELSE name
      BY <2>1, AppendProperties, LenProperties
    <2>3. longer \in Seq(Elements(longer))
      <3>1. DOMAIN longer = 1..(n + 1) /\ longer = [i \in 1..(n + 1) |-> longer[i]]
        BY <2>2, LenProperties
      <3>2. longer \in [1..(n + 1) -> Elements(longer)]
        BY <3>1 DEF Elements
      <3>3. n + 1 \in Nat
        BY <2>2
      <3>4. longer \in UNION {[1..k -> Elements(longer)] : k \in Nat}
        BY <3>2, <3>3
      <3>5. QED BY <3>4, SeqDef, Zenon
    <2>4. links \subseteq 1..n
      OBVIOUS
    <2> HIDE DEF longer, n
    <2>5. QED BY <2>2, <2>3, <2>4 DEF IsList
  <1>2. FileMatches(stage, name) <=>
            \E a \in FileAlternatives(globs) :
                /\ Reach(a, path, links, n, Len(a))
                /\ a[Len(a)].deep \/ name \in a[Len(a)].names
    <2>1. ASSUME NEW p \in stage, IsLast(p), Segment(p).deep \/ name \in Segment(p).names
          PROVE  \E a \in FileAlternatives(globs) :
                     /\ Reach(a, path, links, n, Len(a))
                     /\ a[Len(a)].deep \/ name \in a[Len(a)].names
      <3>1. p \in Places(globs) /\ Reach(p[1], path, links, n, p[2])
        BY DEF StageOf
      <3>2. p[1] \in FileAlternatives(globs) /\ p[2] = Len(p[1]) /\ Segment(p) = p[1][p[2]]
        BY <2>1, <3>1, PlaceFacts
      <3> HIDE DEF n, stage
      <3>3. QED BY <2>1, <3>1, <3>2
    <2>2. ASSUME NEW a \in FileAlternatives(globs), Reach(a, path, links, n, Len(a)),
                 a[Len(a)].deep \/ name \in a[Len(a)].names
          PROVE  \E p \in stage :
                     IsLast(p) /\ (Segment(p).deep \/ name \in Segment(p).names)
      <3> DEFINE p == <<a, Len(a)>>
      <3>1. p \in Places(globs)
        BY PlaceFacts
      <3>2. p \in stage
        BY <2>2, <3>1 DEF StageOf
      <3>3. IsLast(p) /\ Segment(p) = a[Len(a)]
        BY DEF IsLast, Segment
      <3>4. QED BY <2>2, <3>2, <3>3
    <2>3. QED BY <2>1, <2>2 DEF FileMatches
  <1> HIDE DEF n, stage, longer
  <1>3. ASSUME NEW more, more \subseteq 1..(n + 1), \A i \in 1..n : i \in links <=> i \in more
        PROVE  Names(globs, longer, more) <=>
                   \E a \in FileAlternatives(globs) :
                       /\ Reach(a, path, links, n, Len(a))
                       /\ Takes(a, Len(a), name, n + 1 \in more)
    <2>1. Len(longer) > 0 /\ more \subseteq 1..Len(longer)
      BY <1>1, <1>3
    <2>2. ASSUME NEW a \in FileAlternatives(globs)
          PROVE  (\E read \in Ways(a, longer) :
                      \A k \in more : ~a[read[k]].deep /\ a[read[k]].literal)
                 <=> Reach(a, path, links, n, Len(a)) /\ Takes(a, Len(a), name, n + 1 \in more)
      <3>1. IsPattern(a) /\ Len(a) \in 1..Len(a)
        BY PlaceFacts
      <3>2. (\E read \in Ways(a, longer) :
                 \A k \in more : ~a[read[k]].deep /\ a[read[k]].literal)
            <=> \E read : Reads(a, longer, more, n + 1, read) /\ read[n + 1] = Len(a)
        <4>1. (\E read \in Ways(a, longer) :
                   \A k \in more : ~a[read[k]].deep /\ a[read[k]].literal)
              <=> \E read : /\ Reads(a, longer, more, Len(longer), read)
                            /\ read[Len(longer)] = Len(a)
          BY <1>1, <2>1, <3>1, WaysAreReads, Zenon
        <4>2. QED BY <1>1, <4>1, Zenon
      <3>3. (\E read : Reads(a, longer, more, n + 1, read) /\ read[n + 1] = Len(a))
            <=> Reach(a, longer, more, n, Len(a)) /\ Takes(a, Len(a), name, n + 1 \in more)
        <4>1. (\E read : Reads(a, longer, more, n + 1, read) /\ read[n + 1] = Len(a))
              <=> /\ Reach(a, longer, more, n, Len(a))
                  /\ Takes(a, Len(a), longer[n + 1], n + 1 \in more)
          BY <1>1, <3>1, ReadsNext, Zenon
        <4>2. QED BY <1>1, <4>1
      <3>4. Reach(a, path, links, n, Len(a)) <=> Reach(a, longer, more, n, Len(a))
        BY <1>1, <1>3, ReachSame
      <3>5. QED BY <3>2, <3>3, <3>4
    <2>3. QED BY <2>2 DEF Names
  <1>4. FileMatches(stage, name) <=> Names(globs, longer, links)
    <2>1. links \subseteq 1..(n + 1) /\ n + 1 \notin links
      BY <1>1
    <2>2. \A a : Takes(a, Len(a), name, n + 1 \in links) <=>
                     a[Len(a)].deep \/ name \in a[Len(a)].names
      BY <2>1 DEF Takes
    <2>3. QED BY <1>2, <1>3, <2>1, <2>2
  <1>5. Names(globs, longer, links \cup {n + 1}) => FileMatches(stage, name)
    <2> DEFINE more == links \cup {n + 1}
    <2>1. more \subseteq 1..(n + 1) /\ n + 1 \in more /\ \A i \in 1..n : i \in links <=> i \in more
      BY <1>1
    <2> HIDE DEF more
    <2>2. \A a : Takes(a, Len(a), name, n + 1 \in more) =>
                     a[Len(a)].deep \/ name \in a[Len(a)].names
      BY <2>1 DEF Takes
    <2>3. Names(globs, longer, more) => FileMatches(stage, name)
      BY <1>2, <1>3, <2>1, <2>2
    <2>4. QED BY <2>3 DEF more
  <1>6. QED BY <1>4, <1>5 DEF stage, longer, n

\* A name more, and the beginnings of a path.
LEMMA PathFacts ==
    ASSUME NEW path, IsList(path), NEW name
    PROVE  /\ IsList(Append(path, name)) /\ Len(Append(path, name)) = Len(path) + 1
           /\ Append(path, name)[Len(path) + 1] = name
           /\ \A i \in 1..Len(path) : Append(path, name)[i] = path[i]
           /\ \A k \in 0..Len(path) : SubSeq(Append(path, name), 1, k) = SubSeq(path, 1, k)
           /\ SubSeq(path, 1, Len(path)) = path
  <1> DEFINE n == Len(path)
             longer == Append(path, name)
             S == Elements(path) \cup {name}
  <1>1. path \in Seq(S)
    BY SeqMonotonic DEF IsList
  <1>2. /\ n \in Nat /\ Len(longer) = n + 1 /\ longer \in Seq(S)
        /\ \A i \in 1..(n + 1) : longer[i] = IF i <= n THEN path[i] ELSE name
        /\ longer = path \o <<name>>
    BY <1>1, AppendProperties, LenProperties
  <1>3. IsList(longer)
    <2>1. DOMAIN longer = 1..(n + 1) /\ longer = [i \in 1..(n + 1) |-> longer[i]]
      BY <1>2, LenProperties
    <2>2. longer \in [1..(n + 1) -> Elements(longer)]
      BY <2>1 DEF Elements
    <2>3. n + 1 \in Nat
      BY <1>2
    <2>4. longer \in UNION {[1..k -> Elements(longer)] : k \in Nat}
      BY <2>2, <2>3
    <2>5. QED BY <2>4, SeqDef, Zenon DEF IsList
  <1>4. SubSeq(path, 1, n) = path
    BY <1>1, SubSeqFull
  <1> HIDE DEF longer, S, n
  <1>5. ASSUME NEW k \in 0..n PROVE SubSeq(longer, 1, k) = SubSeq(path, 1, k)
    <2>1. /\ SubSeq(longer, 1, k) = Restrict(longer, 1..k)
          /\ SubSeq(path, 1, k) = Restrict(path, 1..k)
      <3>1. n = Len(path) /\ k \in 0..Len(path) /\ k \in 0..Len(longer)
        BY <1>2 DEF n
      <3>2. SubSeq(longer, 1, k) = Restrict(longer, 1..k)
        BY <1>2, <3>1, SubSeqRestrict
      <3>3. SubSeq(path, 1, k) = Restrict(path, 1..k)
        BY <1>1, <3>1, SubSeqRestrict
      <3>4. QED BY <3>2, <3>3
    <2>2. \A i \in 1..k : longer[i] = path[i]
      BY <1>2
    <2>3. QED BY <2>1, <2>2 DEF Restrict
  <1>6. QED BY <1>2, <1>3, <1>4, <1>5 DEF longer, n

\* The names a path begins with, one by one.
LEMMA Beginnings ==
    ASSUME NEW path, IsList(path)
    PROVE  /\ SubSeq(path, 1, 0) = <<>>
           /\ \A k \in 0..Len(path) : /\ IsList(SubSeq(path, 1, k))
                                      /\ Len(SubSeq(path, 1, k)) = k
                                      /\ \A i \in 1..k : SubSeq(path, 1, k)[i] = path[i]
           /\ \A k \in 1..Len(path) :
                  SubSeq(path, 1, k) = Append(SubSeq(path, 1, k - 1), path[k])
  <1>1. Len(path) \in Nat /\ DOMAIN path = 1..Len(path)
    BY LenProperties DEF IsList
  <1>2. SubSeq(path, 1, 0) = <<>>
    BY SubSeqEmpty
  <1>3. ASSUME NEW k \in 0..Len(path)
        PROVE  /\ IsList(SubSeq(path, 1, k)) /\ Len(SubSeq(path, 1, k)) = k
               /\ \A i \in 1..k : SubSeq(path, 1, k)[i] = path[i]
    <2> DEFINE s == SubSeq(path, 1, k)
               S == Elements(path)
    <2>1. \A i \in 1..k : path[i] \in S
      BY <1>1 DEF Elements
    <2> HIDE DEF S
    <2>2. s \in Seq(S) /\ Len(s) = k /\ \A i \in 1..k : s[i] = path[i]
      BY <1>1, <2>1, SubSeqProperties
    <2> HIDE DEF s
    <2>3. k \in Nat /\ s = [i \in 1..k |-> s[i]] /\ DOMAIN s = 1..k
      BY <1>1, <2>2, LenProperties
    <2>4. s \in [1..k -> Elements(s)]
      BY <2>3 DEF Elements
    <2>5. s \in UNION {[1..m -> Elements(s)] : m \in Nat}
      BY <2>3, <2>4
    <2>6. IsList(s)
      BY <2>5, SeqDef, Zenon DEF IsList
    <2>7. QED BY <2>2, <2>6 DEF s
  <1>4. ASSUME NEW k \in 1..Len(path)
        PROVE  SubSeq(path, 1, k) = Append(SubSeq(path, 1, k - 1), path[k])
    <2> DEFINE s == SubSeq(path, 1, k)
               b == SubSeq(path, 1, k - 1)
    <2>1. k - 1 \in 0..Len(path) /\ k \in 0..Len(path)
      BY <1>1
    <2>2. /\ s \in Seq(Elements(s)) /\ Len(s) = k /\ \A i \in 1..k : s[i] = path[i]
          /\ IsList(b) /\ Len(b) = k - 1 /\ \A i \in 1..(k - 1) : b[i] = path[i]
      BY <1>3, <2>1 DEF IsList
    <2> HIDE DEF s, b
    <2>3. LET a == Append(b, path[k])
          IN  /\ a \in Seq(Elements(a)) /\ Len(a) = k
              /\ a[k] = path[k] /\ \A i \in 1..(k - 1) : a[i] = b[i]
      BY <2>2, PathFacts DEF IsList
    <2> DEFINE a == Append(b, path[k])
    <2>4. /\ a \in Seq(Elements(a)) /\ Len(a) = k
          /\ a[k] = path[k] /\ \A i \in 1..(k - 1) : a[i] = b[i]
      BY <2>3
    <2> HIDE DEF a
    <2>5. \A i \in 1..k : s[i] = a[i]
      BY <2>2, <2>4
    <2>6. s = a
      <3>1. /\ s = [i \in 1..k |-> s[i]] /\ a = [i \in 1..k |-> a[i]]
        BY <2>2, <2>4, LenProperties
      <3>2. QED BY <2>5, <3>1
    <2>7. QED BY <2>6 DEF s, a, b
  <1>5. QED BY <1>2, <1>3, <1>4

\* However deep a path lies: going down it a folder at a time, with a stage for
\* each (includeStage), finds its file if and only if a pattern names the whole
\* path, and then no folder on the way is left unread for want of a stage.
THEOREM StagesReadWholePaths ==
    ASSUME NEW globs, ArePatterns(globs), NEW path, IsList(path), Len(path) > 0,
           NEW links, links \subseteq 1..(Len(path) - 1),
           NEW stages, stages[0] = Start(globs),
           \A k \in 1..(Len(path) - 1) :
               stages[k] = IF k \in links THEN Follow(stages[k - 1], path[k])
                           ELSE Enter(stages[k - 1], path[k])
    PROVE  /\ FileMatches(stages[Len(path) - 1], path[Len(path)]) <=> Names(globs, path, links)
           /\ Names(globs, path, links) => \A k \in 0..(Len(path) - 1) : stages[k] # {}
  <1> DEFINE n == Len(path)
             before(k) == SubSeq(path, 1, k)
             among(k) == links \cap 1..k
             S == {k \in 0..(n - 1) : stages[k] = StageOf(globs, before(k), among(k))}
  <1>1. n \in Nat \ {0} /\ n - 1 \in Nat /\ links \subseteq 1..(n - 1)
    BY LenProperties DEF IsList
  <1>2. /\ before(0) = <<>> /\ before(n) = path
        /\ \A k \in 0..n : IsList(before(k)) /\ Len(before(k)) = k
                           /\ \A i \in 1..k : before(k)[i] = path[i]
        /\ \A k \in 1..n : before(k) = Append(before(k - 1), path[k])
    BY Beginnings, PathFacts
  <1>3. \A b : IsList(b) => \A l : AreLinks(l, b) => \A name :
            /\ Enter(StageOf(globs, b, l), name) = StageOf(globs, Append(b, name), l)
            /\ Follow(StageOf(globs, b, l), name)
                   = StageOf(globs, Append(b, name), l \cup {Len(b) + 1})
    BY StageStep, Zenon
  <1>4. 0 \in S
    <2>1. among(0) = {}
      BY <1>1
    <2>2. stages[0] = StageOf(globs, <<>>, {})
      BY StageStart
    <2>3. stages[0] = StageOf(globs, before(0), among(0))
      BY <1>2, <2>1, <2>2
    <2>4. QED BY <1>1, <2>3
  <1> HIDE DEF before
  <1>5. ASSUME NEW k \in 0..((n - 1) - 1), k \in S PROVE k + 1 \in S
    <2>1. /\ k \in Nat /\ k + 1 \in 1..(n - 1) /\ k + 1 \in 0..(n - 1) /\ (k + 1) - 1 = k
          /\ k \in 0..n /\ k + 1 \in 1..n
      BY <1>1
    <2>2. /\ stages[k] = StageOf(globs, before(k), among(k))
          /\ stages[k + 1] = IF k + 1 \in links THEN Follow(stages[k], path[k + 1])
                             ELSE Enter(stages[k], path[k + 1])
      BY <1>5, <2>1
    <2>3. IsList(before(k)) /\ Len(before(k)) = k /\ among(k) \subseteq 1..Len(before(k))
          /\ before(k + 1) = Append(before(k), path[k + 1])
      BY <1>2, <2>1
    <2>4. among(k + 1) = IF k + 1 \in links THEN among(k) \cup {k + 1} ELSE among(k)
      BY <2>1
    <2> HIDE DEF among
    <2>5. /\ Enter(stages[k], path[k + 1]) = StageOf(globs, before(k + 1), among(k))
          /\ Follow(stages[k], path[k + 1])
                 = StageOf(globs, before(k + 1), among(k) \cup {k + 1})
      <3>1. AreLinks(among(k), before(k))
        BY <2>3 DEF AreLinks
      <3>2. /\ Enter(StageOf(globs, before(k), among(k)), path[k + 1])
                   = StageOf(globs, Append(before(k), path[k + 1]), among(k))
            /\ Follow(StageOf(globs, before(k), among(k)), path[k + 1])
                   = StageOf(globs, Append(before(k), path[k + 1]),
                             among(k) \cup {Len(before(k)) + 1})
        BY <1>3, <2>3, <3>1
      <3>3. QED BY <2>2, <2>3, <3>2
    <2>6. stages[k + 1] = StageOf(globs, before(k + 1), among(k + 1))
      BY <2>2, <2>4, <2>5
    <2>7. QED BY <2>1, <2>6
  <1>6. ASSUME NEW k \in 0..(n - 1)
        PROVE  stages[k] = StageOf(globs, before(k), among(k))
    <2> HIDE DEF S
    <2>1. \A i \in 0..(n - 1) : i \in S
      BY <1>1, <1>4, <1>5, UpTo
    <2>2. QED BY <2>1 DEF S
  <1>7. FileMatches(stages[n - 1], path[n]) <=> Names(globs, path, links)
    <2>1. /\ n - 1 \in 0..(n - 1) /\ n - 1 \in 0..n /\ n \in 1..n
      BY <1>1
    <2>6. among(n - 1) = links
      <3>1. \A m : links \subseteq m => links \cap m = links
        OBVIOUS
      <3>2. QED BY <1>1, <3>1
    <2>2. /\ IsList(before(n - 1)) /\ Len(before(n - 1)) = n - 1
          /\ path = Append(before(n - 1), path[n])
      BY <1>2, <2>1
    <2>3. stages[n - 1] = StageOf(globs, before(n - 1), links)
      BY <1>6, <2>1, <2>6
    <2> HIDE DEF n
    <2>4. FileMatches(StageOf(globs, before(n - 1), links), path[n])
              <=> Names(globs, Append(before(n - 1), path[n]), links)
      BY <1>1, <2>2, StageMatches
    <2>5. QED BY <2>2, <2>3, <2>4
  <1>8. ASSUME Names(globs, path, links), NEW k \in 0..(n - 1) PROVE stages[k] # {}
    <2>1. PICK a \in FileAlternatives(globs) :
              \E read \in Ways(a, path) : \A j \in links : ~a[read[j]].deep /\ a[read[j]].literal
      BY <1>8 DEF Names
    <2>2. IsPattern(a) /\ links \subseteq 1..n
      BY <1>1, <2>1, PlaceFacts
    <2>3. PICK read : Reads(a, path, links, n, read)
      BY <2>1, <2>2, WaysAreReads
    <2>4. /\ k \in Nat /\ k + 1 \in 1..n /\ k \in 0..n /\ 1..k \subseteq 1..n
          /\ \A i \in 1..k : i - 1 # 0 => i - 1 \in 1..k
      BY <1>1
    <2> DEFINE less == [i \in 1..k |-> read[i]]
    <2>5. /\ less \in [1..k -> 1..Len(a)] /\ read[k + 1] \in 1..Len(a)
          /\ Follows(a, LastOf(read, k), read[k + 1])
      <3>1. (k + 1) - 1 = k
        BY <2>4
      <3>2. QED BY <2>3, <2>4, <3>1 DEF Reads
    <2>6. /\ \A i \in 1..k : less[i] = read[i] /\ LastOf(less, i - 1) = LastOf(read, i - 1)
          /\ LastOf(less, k) = LastOf(read, k)
      BY <2>4 DEF LastOf
    <2> HIDE DEF less
    <2>7. Reads(a, path, links, k, less)
      BY <2>3, <2>4, <2>5, <2>6 DEF Reads
    <2>8. Reach(a, path, links, k, read[k + 1])
      BY <2>5, <2>6, <2>7 DEF Reach
    <2>9. /\ Len(before(k)) = k
          /\ \A i \in 1..k : path[i] = before(k)[i] /\ (i \in links <=> i \in among(k))
      BY <1>2, <2>4
    <2>10. Reach(a, before(k), among(k), k, read[k + 1])
      <3> HIDE DEF among
      <3>1. QED BY <2>4, <2>8, <2>9, ReachSame
    <2>11. <<a, read[k + 1]>> \in Places(globs)
      BY <2>5, <2>1, PlaceFacts
    <2>12. <<a, read[k + 1]>> \in StageOf(globs, before(k), among(k))
      BY <2>9, <2>10, <2>11 DEF StageOf
    <2>13. QED BY <1>6, <2>12
  <1>9. QED BY <1>7, <1>8

-----------------------------------------------------------------------------
(* What a discovery finds.                                                 *)

\* The include patterns of a config that was accepted are parsed (readGlob).
PatternsAreParsed ==
    \A texts : Accepted(ConfigOf(texts)) =>
        \A s \in Elements(Sources(ConfigOf(texts))) : ArePatterns(s.include)

\* A folder that is neither excluded nor managed; a file that the patterns name,
\* none of whose names is hidden and none of whose folders is left out.
OpenFor(project, s, base, rel) ==
    /\ ~ExcludesFolder(s.exclude, rel)
    /\ \A folder \in {project.outputDir} \cup project.cacheDirs : ~IsInside(base \o rel, folder)
LiesOpen(project, s, base, rel) ==
    /\ \A k \in 1..Len(rel) : rel[k] \notin Hidden
    /\ \A k \in 1..(Len(rel) - 1) : OpenFor(project, s, base, SubSeq(rel, 1, k))
IsLookedFor(project, s, base, rel) ==
    /\ Len(rel) > 0 /\ Names(s.include, rel, {}) /\ ~ExcludesFile(s.exclude, rel)
    /\ LiesOpen(project, s, base, rel)

\* Every file of a discovery is one that was looked for.
FoundAreWanted ==
    discovered # None =>
        LET project == discovered.project
        IN  \A i \in DOMAIN project.sources :
                LET s == project.sources[i]
                IN  s.filePath # None \/ \A f \in discovered.files[i] :
                       IsLookedFor(project, s, BaseOf(s, f.locale), f.rel)

TaskFields == {"kind", "rel", "matches", "stage", "depth", "real", "passed", "target"}

\* A task is at a path that lies open, with the stage of that path; a folder to
\* read or to enter is open itself, and a link that may be a file has a path
\* patterns name.
IsTask(project, s, base, t) ==
    /\ TaskFields \subseteq DOMAIN t
    /\ IsList(t.rel)
    /\ \E links : AreLinks(links, t.rel) /\ t.stage = StageOf(s.include, t.rel, links)
    /\ t.matches => Len(t.rel) > 0 /\ Names(s.include, t.rel, {})
    /\ LiesOpen(project, s, base, t.rel)
    /\ t.kind # "link" /\ Len(t.rel) > 0 => OpenFor(project, s, base, t.rel)

WalkOk(project, s, w) ==
    /\ {"pc", "at", "tasks", "found", "files", "errors", "rootReal"} \subseteq DOMAIN w
    /\ LET base == BaseOf(s, LocalesOf(project, s)[w.at])
       IN  /\ \A t \in w.tasks : IsTask(project, s, base, t)
           /\ \A rel \in w.found : IsLookedFor(project, s, base, rel)
    /\ s.filePath # None \/ \A f \in w.files : IsLookedFor(project, s, BaseOf(s, f.locale), f.rel)

DiscoveryInv ==
    discovery # None =>
        /\ {"project", "walks"} \subseteq DOMAIN discovery
        /\ DOMAIN discovery.walks = DOMAIN discovery.project.sources
        /\ \A i \in DOMAIN discovery.project.sources :
               /\ ArePatterns(discovery.project.sources[i].include)
               /\ WalkOk(discovery.project, discovery.project.sources[i], discovery.walks[i])

WalkInv == DiscoveryInv /\ FoundAreWanted

\* A walk that goes on, and leaves the others alone.
LEMMA WalkGoesOn ==
    ASSUME WalkInv, discovery # None, NEW i \in DOMAIN discovery.walks, NEW w, SetWalk(i, w),
           WalkOk(discovery.project, Source(i), w)
    PROVE  WalkInv'
  <1> DEFINE project == discovery.project
             D == DOMAIN project.sources
  <1>1. /\ {"project", "walks"} \subseteq DOMAIN discovery
        /\ DOMAIN discovery.walks = D
        /\ \A j \in D : ArePatterns(project.sources[j].include)
                        /\ WalkOk(project, project.sources[j], discovery.walks[j])
        /\ discovery' = [discovery EXCEPT !.walks[i] = w] /\ UNCHANGED discovered
    BY DEF WalkInv, DiscoveryInv, SetWalk
  <1>2. i \in D
    BY <1>1
  <1> DEFINE walks == [discovery.walks EXCEPT ![i] = w]
  <1>3. /\ {"project", "walks"} \subseteq DOMAIN discovery'
        /\ discovery'.project = project /\ discovery'.walks = walks
    BY <1>1
  <1>4. /\ DOMAIN walks = D /\ walks[i] = w
        /\ \A j \in D : j # i => walks[j] = discovery.walks[j]
    BY <1>1, <1>2
  <1>5. \A j \in D : WalkOk(project, project.sources[j], walks[j])
    <2>1. WalkOk(project, project.sources[i], w)
      BY DEF Source
    <2> HIDE DEF project, D, walks
    <2>2. QED BY <1>1, <1>4, <2>1
  <1> HIDE DEF walks, project, D
  <1>6. DiscoveryInv'
    <2>1. D = DOMAIN project.sources
      BY DEF D
    <2>2. QED BY <1>1, <1>3, <1>4, <1>5, <2>1 DEF DiscoveryInv
  <1>7. FoundAreWanted'
    BY <1>1 DEF WalkInv, FoundAreWanted
  <1>8. QED BY <1>6, <1>7 DEF WalkInv

\* What is known of the walk at i.
LEMMA WalkFacts ==
    ASSUME WalkInv, discovery # None, NEW i \in DOMAIN discovery.walks
    PROVE  /\ ArePatterns(Source(i).include)
           /\ {"pc", "at", "tasks", "found", "files", "errors", "rootReal"} \subseteq DOMAIN Walk(i)
           /\ \A t \in Walk(i).tasks : IsTask(discovery.project, Source(i), Base(i), t)
           /\ \A rel \in Walk(i).found : IsLookedFor(discovery.project, Source(i), Base(i), rel)
           /\ Source(i).filePath # None \/ \A f \in Walk(i).files :
                  IsLookedFor(discovery.project, Source(i), BaseOf(Source(i), f.locale), f.rel)
  <1>1. i \in DOMAIN discovery.project.sources
    BY DEF WalkInv, DiscoveryInv
  <1>2. /\ ArePatterns(Source(i).include)
        /\ WalkOk(discovery.project, Source(i), Walk(i))
    BY <1>1 DEF WalkInv, DiscoveryInv, Source, Walk
  <1>3. Base(i) = BaseOf(Source(i), LocalesOf(discovery.project, Source(i))[Walk(i).at])
    BY DEF Base, Locale
  <1>4. QED BY <1>2, <1>3 DEF WalkOk

\* A walk whose tasks and finds change keeps its place and its files.
LEMMA SameLocale ==
    ASSUME WalkInv, discovery # None, NEW i \in DOMAIN discovery.walks, NEW w, SetWalk(i, w),
           {"pc", "at", "tasks", "found", "files", "errors", "rootReal"} \subseteq DOMAIN w,
           w.at = Walk(i).at, w.files = Walk(i).files,
           \A t \in w.tasks : IsTask(discovery.project, Source(i), Base(i), t),
           \A rel \in w.found : IsLookedFor(discovery.project, Source(i), Base(i), rel)
    PROVE  WalkInv'
  <1>1. Base(i) = BaseOf(Source(i), LocalesOf(discovery.project, Source(i))[Walk(i).at])
    BY DEF Base, Locale
  <1>2. WalkOk(discovery.project, Source(i), w)
    BY <1>1, WalkFacts DEF WalkOk
  <1>3. QED BY <1>2, WalkGoesOn

\* What is in a folder to read: a task if it is a link or an open folder, and
\* wanted if it is a file that the stage takes.
LEMMA EntryIsTask ==
    ASSUME NEW project, NEW s, NEW base, NEW t, ArePatterns(s.include),
           IsTask(project, s, base, t), t.kind # "link",
           NEW path, Last(path) \notin Hidden
    PROVE  LET e == Entry(t, path)
           IN  /\ e.kind = "link" \/ OpenFor(project, s, base, e.rel) => IsTask(project, s, base, e)
               /\ e.matches /\ ~ExcludesFile(s.exclude, e.rel) => IsLookedFor(project, s, base, e.rel)
  <1> DEFINE name == Last(path)
             e == Entry(t, path)
             n == Len(t.rel)
  <1>1. TaskFields \subseteq DOMAIN t
    BY DEF IsTask
  <1>2. /\ TaskFields \subseteq DOMAIN e
        /\ e.rel = Append(t.rel, name) /\ e.matches = FileMatches(t.stage, name)
        /\ e.stage = Follow(t.stage, name) \/ e.stage = Enter(t.stage, name)
    BY <1>1 DEF Entry
  <1> HIDE DEF e
  <1>3. PICK links : AreLinks(links, t.rel) /\ t.stage = StageOf(s.include, t.rel, links)
    BY DEF IsTask
  <1>4. IsList(t.rel) /\ n \in Nat
    BY LenProperties DEF IsTask, IsList
  <1>5. /\ IsList(e.rel) /\ Len(e.rel) = n + 1 /\ e.rel[n + 1] = name
        /\ \A k \in 1..n : e.rel[k] = t.rel[k]
        /\ \A k \in 0..n : SubSeq(e.rel, 1, k) = SubSeq(t.rel, 1, k)
        /\ SubSeq(t.rel, 1, n) = t.rel
    BY <1>2, <1>4, PathFacts
  <1>6. \E more : AreLinks(more, e.rel) /\ e.stage = StageOf(s.include, e.rel, more)
    <2>1. /\ Enter(t.stage, name) = StageOf(s.include, e.rel, links)
          /\ Follow(t.stage, name) = StageOf(s.include, e.rel, links \cup {n + 1})
      <3>1. /\ Enter(StageOf(s.include, t.rel, links), name)
                   = StageOf(s.include, Append(t.rel, name), links)
            /\ Follow(StageOf(s.include, t.rel, links), name)
                   = StageOf(s.include, Append(t.rel, name), links \cup {Len(t.rel) + 1})
        <4>1. \A b : IsList(b) => \A l : AreLinks(l, b) => \A x :
                  /\ Enter(StageOf(s.include, b, l), x) = StageOf(s.include, Append(b, x), l)
                  /\ Follow(StageOf(s.include, b, l), x)
                         = StageOf(s.include, Append(b, x), l \cup {Len(b) + 1})
          BY StageStep, Zenon
        <4>2. QED BY <1>3, <1>4, <4>1
      <3>2. QED BY <1>2, <1>3, <3>1
    <2>2. AreLinks(links, e.rel) /\ AreLinks(links \cup {n + 1}, e.rel)
      <3>1. links \subseteq 1..n
        BY <1>3 DEF AreLinks
      <3>2. 1..n \subseteq 1..(n + 1) /\ {n + 1} \subseteq 1..(n + 1)
        BY <1>4
      <3> HIDE DEF n
      <3>3. links \subseteq 1..(n + 1) /\ links \cup {n + 1} \subseteq 1..(n + 1)
        BY <3>1, <3>2
      <3>4. QED BY <1>5, <3>3 DEF AreLinks
    <2>3. QED BY <1>2, <2>1, <2>2
  <1>7. e.matches => Len(e.rel) > 0 /\ Names(s.include, e.rel, {})
    <2>1. ASSUME e.matches PROVE Names(s.include, e.rel, links)
      <3>1. links \subseteq 1..Len(t.rel) /\ FileMatches(StageOf(s.include, t.rel, links), name)
        BY <1>2, <1>3, <2>1 DEF AreLinks
      <3>2. Names(s.include, Append(t.rel, name), links)
        BY <1>4, <3>1, StageMatches
      <3>3. QED BY <1>2, <3>2
    <2>2. Names(s.include, e.rel, links) => Names(s.include, e.rel, {})
      BY DEF Names
    <2>3. QED BY <1>4, <1>5, <2>1, <2>2
  <1>8. LiesOpen(project, s, base, e.rel)
    <2>1. ASSUME NEW k \in 1..Len(e.rel) PROVE e.rel[k] \notin Hidden
      <3>1. k \in 1..n \/ k = n + 1
        BY <1>4, <1>5
      <3>2. \A j \in 1..n : t.rel[j] \notin Hidden
        BY DEF IsTask, LiesOpen
      <3>3. QED BY <1>5, <3>1, <3>2
    <2>2. ASSUME NEW k \in 1..(Len(e.rel) - 1)
          PROVE  OpenFor(project, s, base, SubSeq(e.rel, 1, k))
      <3>1. k \in 1..n /\ k \in 0..n /\ (k = n \/ k \in 1..(n - 1)) /\ (k = n => n > 0)
        BY <1>4, <1>5
      <3>2. CASE k = n
        BY <1>5, <3>1, <3>2 DEF IsTask
      <3>3. CASE k \in 1..(n - 1)
        BY <1>5, <3>1, <3>3 DEF IsTask, LiesOpen
      <3>4. QED BY <3>1, <3>2, <3>3
    <2>3. QED BY <2>1, <2>2 DEF LiesOpen
  <1>9. e.kind = "link" \/ OpenFor(project, s, base, e.rel) => IsTask(project, s, base, e)
    BY <1>2, <1>5, <1>6, <1>7, <1>8 DEF IsTask
  <1>10. e.matches /\ ~ExcludesFile(s.exclude, e.rel) => IsLookedFor(project, s, base, e.rel)
    BY <1>7, <1>8 DEF IsLookedFor
  <1>11. QED BY <1>9, <1>10 DEF e

\* The steps of a walk.
LEMMA BeginSourceWalk ==
    ASSUME WalkInv, discovery # None, NEW i \in DOMAIN discovery.walks, BeginSource(i)
    PROVE  WalkInv'
  <1> DEFINE errors == IF Source(i).kind = "collection" THEN {"source-missing"}
                       ELSE IF Source(i).optional THEN {} ELSE {"singleton-missing"}
             file == {[id |-> Source(i).name, locale |-> None,
                       rel |-> <<Last(Source(i).filePath)>>]}
             missing == [NewWalk EXCEPT !.pc = "done", !.errors = errors]
             single == [NewWalk EXCEPT !.pc = "done", !.files = file]
             walked == [NewWalk EXCEPT !.pc = "locale"]
  <1>1. \/ SetWalk(i, missing)
        \/ Source(i).filePath # None /\ SetWalk(i, single)
        \/ SetWalk(i, walked)
    BY Zenon DEF BeginSource
  <1>2. WalkOk(discovery.project, Source(i), missing)
    <2> HIDE DEF errors
    <2>1. QED BY DEF WalkOk, NewWalk
  <1>3. WalkOk(discovery.project, Source(i), walked)
    BY DEF WalkOk, NewWalk
  <1>4. Source(i).filePath # None => WalkOk(discovery.project, Source(i), single)
    <2> HIDE DEF file
    <2>1. QED BY DEF WalkOk, NewWalk
  <1> HIDE DEF missing, single, walked
  <1>5. QED BY <1>1, <1>2, <1>3, <1>4, WalkGoesOn

\* The root is the first task.
LEMMA BeginLocaleWalk ==
    ASSUME WalkInv, discovery # None, NEW i \in DOMAIN discovery.walks, BeginLocale(i)
    PROVE  WalkInv'
  <1> DEFINE tasks == IF Locale(i) = None \/ KindAt(tree, Base(i)) \in Folders
                      THEN {RootTask(i)} ELSE {}
             w == [Walk(i) EXCEPT !.pc = "list", !.found = {}, !.rootReal = None, !.tasks = tasks]
  <1>1. SetWalk(i, w)
    BY DEF BeginLocale
  <1>2. IsTask(discovery.project, Source(i), Base(i), RootTask(i))
    <2>1. /\ TaskFields \subseteq DOMAIN RootTask(i)
          /\ RootTask(i).rel = <<>> /\ RootTask(i).matches = FALSE
          /\ RootTask(i).stage = Start(Source(i).include)
      BY DEF RootTask, TaskFields
    <2>2. IsList(<<>>) /\ Len(<<>>) = 0 /\ AreLinks({}, <<>>)
      BY NoNames DEF AreLinks
    <2>3. Start(Source(i).include) = StageOf(Source(i).include, <<>>, {})
      BY WalkFacts, StageStart
    <2>4. LiesOpen(discovery.project, Source(i), Base(i), <<>>)
      BY DEF LiesOpen
    <2>5. QED BY <2>1, <2>2, <2>3, <2>4 DEF IsTask
  <1>3. \A t \in tasks : IsTask(discovery.project, Source(i), Base(i), t)
    BY <1>2
  <1> HIDE DEF tasks
  <1>4. /\ {"pc", "at", "tasks", "found", "files", "errors", "rootReal"} \subseteq DOMAIN w
        /\ w.at = Walk(i).at /\ w.files = Walk(i).files /\ w.tasks = tasks /\ w.found = {}
    BY WalkFacts
  <1> HIDE DEF w
  <1>5. QED BY <1>1, <1>3, <1>4, SameLocale

\* What is in a folder becomes tasks and finds.
LEMMA ReadFolderWalk ==
    ASSUME WalkInv, discovery # None, NEW i \in DOMAIN discovery.walks, ReadFolder(i)
    PROVE  WalkInv'
  <1> DEFINE Ok(t) == IsTask(discovery.project, Source(i), Base(i), t)
             Want(rel) == IsLookedFor(discovery.project, Source(i), Base(i), rel)
  <1>1. PICK t \in Walk(i).tasks :
            LET there == Children(tree, RealIn(tree, PathOf(i, t)))
                entries == {Entry(t, p) : p \in {q \in there : Last(q) \notin Hidden}}
                files == {e \in entries : /\ e.kind = "file" /\ e.matches
                                          /\ ~ExcludesFile(Source(i).exclude, e.rel)}
                folders == {e \in entries : e.kind = "folder" /\ e.stage # {} /\ IsOpen(i, e.rel)}
                links == {e \in entries : e.kind = "link" /\ (e.matches \/ e.stage # {})}
            IN  /\ t.kind = "folder"
                /\ SetWalk(i, [Walk(i) EXCEPT
                       !.tasks = (@ \ {t}) \cup folders \cup links,
                       !.found = @ \cup {e.rel : e \in files}])
    BY Zenon DEF ReadFolder
  <1> DEFINE there == Children(tree, RealIn(tree, PathOf(i, t)))
             entries == {Entry(t, p) : p \in {q \in there : Last(q) \notin Hidden}}
             files == {e \in entries : /\ e.kind = "file" /\ e.matches
                                       /\ ~ExcludesFile(Source(i).exclude, e.rel)}
             folders == {e \in entries : e.kind = "folder" /\ e.stage # {} /\ IsOpen(i, e.rel)}
             links == {e \in entries : e.kind = "link" /\ (e.matches \/ e.stage # {})}
             tasks == (Walk(i).tasks \ {t}) \cup folders \cup links
             found == Walk(i).found \cup {e.rel : e \in files}
             w == [Walk(i) EXCEPT !.tasks = tasks, !.found = found]
  <1>2. SetWalk(i, w) /\ t.kind = "folder"
    BY <1>1
  <1>3. ASSUME NEW e \in entries
        PROVE  /\ e.kind = "link" \/ IsOpen(i, e.rel) => Ok(e)
               /\ e.matches /\ ~ExcludesFile(Source(i).exclude, e.rel) => Want(e.rel)
    <2>1. PICK p : e = Entry(t, p) /\ Last(p) \notin Hidden
      OBVIOUS
    <2>2. Ok(t) /\ ArePatterns(Source(i).include)
      BY WalkFacts
    <2>3. IsOpen(i, e.rel) => OpenFor(discovery.project, Source(i), Base(i), e.rel)
      BY DEF IsOpen, Skipped, OpenFor
    <2>4. /\ e.kind = "link" \/ OpenFor(discovery.project, Source(i), Base(i), e.rel) => Ok(e)
          /\ e.matches /\ ~ExcludesFile(Source(i).exclude, e.rel) => Want(e.rel)
      BY <1>2, <2>1, <2>2, EntryIsTask
    <2> HIDE DEF Ok, Want
    <2>5. QED BY <2>3, <2>4
  <1>4. (\A old \in Walk(i).tasks : Ok(old)) /\ \A rel \in Walk(i).found : Want(rel)
    BY WalkFacts
  <1> HIDE DEF entries, Ok, Want
  <1>5. (\A e \in tasks : Ok(e)) /\ \A rel \in found : Want(rel)
    BY <1>3, <1>4
  <1> HIDE DEF tasks, found
  <1>6. /\ {"pc", "at", "tasks", "found", "files", "errors", "rootReal"} \subseteq DOMAIN w
        /\ w.at = Walk(i).at /\ w.files = Walk(i).files /\ w.tasks = tasks /\ w.found = found
    BY WalkFacts
  <1> HIDE DEF w
  <1>7. QED BY <1>2, <1>5, <1>6, SameLocale DEF Ok, Want

\* A listing that fails loses tasks and finds, and gains none.
LEMMA FailsWalk ==
    ASSUME WalkInv, discovery # None, NEW i \in DOMAIN discovery.walks,
           CannotRead(i) \/ ListingFails(i)
    PROVE  WalkInv'
  <1> DEFINE errors == Walk(i).errors \cup {"read-failed"}
             none == [Walk(i) EXCEPT !.tasks = {}, !.found = {}, !.errors = errors]
             less(t) == [Walk(i) EXCEPT !.tasks = Walk(i).tasks \ {t}]
  <1>1. SetWalk(i, none) \/ \E t \in Walk(i).tasks : SetWalk(i, less(t))
    BY DEF CannotRead, ListingFails, FailedWalk
  <1>2. CASE SetWalk(i, none)
    <2> HIDE DEF errors
    <2>1. /\ {"pc", "at", "tasks", "found", "files", "errors", "rootReal"} \subseteq DOMAIN none
          /\ none.at = Walk(i).at /\ none.files = Walk(i).files
          /\ none.tasks = {} /\ none.found = {}
      BY WalkFacts
    <2> HIDE DEF none
    <2>2. QED BY <1>2, <2>1, SameLocale
  <1>3. ASSUME NEW t \in Walk(i).tasks, SetWalk(i, less(t)) PROVE WalkInv'
    <2> DEFINE w == less(t)
    <2>1. /\ {"pc", "at", "tasks", "found", "files", "errors", "rootReal"} \subseteq DOMAIN w
          /\ w.at = Walk(i).at /\ w.files = Walk(i).files
          /\ w.tasks \subseteq Walk(i).tasks /\ w.found = Walk(i).found
      BY WalkFacts
    <2>2. SetWalk(i, w)
      BY <1>3
    <2> HIDE DEF w
    <2>3. QED BY <2>1, <2>2, WalkFacts, SameLocale
  <1>4. QED BY <1>1, <1>2, <1>3

\* A task with the names of another.
LEMMA SameNamesTask ==
    ASSUME NEW project, NEW s, NEW base, NEW t, NEW next, IsTask(project, s, base, t),
           TaskFields \subseteq DOMAIN next,
           next.rel = t.rel, next.matches = t.matches, next.stage = t.stage,
           t.kind = "link" => OpenFor(project, s, base, t.rel)
    PROVE  IsTask(project, s, base, next)
  BY DEF IsTask

\* A link becomes a folder to enter, or a file.
LEMMA LookAtLinkWalk ==
    ASSUME WalkInv, discovery # None, NEW i \in DOMAIN discovery.walks, LookAtLink(i)
    PROVE  WalkInv'
  <1> DEFINE Ok(t) == IsTask(discovery.project, Source(i), Base(i), t)
             Want(rel) == IsLookedFor(discovery.project, Source(i), Base(i), rel)
  <1>1. PICK t \in Walk(i).tasks :
            LET kind == KindAt(tree, PathOf(i, t))
                leads == kind \in Folders /\ t.stage # {} /\ IsOpen(i, t.rel)
                listed == kind = "file" /\ t.matches /\ ~ExcludesFile(Source(i).exclude, t.rel)
            IN  SetWalk(i, [Walk(i) EXCEPT
                    !.tasks = (@ \ {t}) \cup (IF leads THEN {[t EXCEPT !.kind = "target"]} ELSE {}),
                    !.found = @ \cup (IF listed THEN {t.rel} ELSE {})])
    BY Zenon DEF LookAtLink
  <1> DEFINE kind == KindAt(tree, PathOf(i, t))
             leads == kind \in Folders /\ t.stage # {} /\ IsOpen(i, t.rel)
             listed == kind = "file" /\ t.matches /\ ~ExcludesFile(Source(i).exclude, t.rel)
             next == [t EXCEPT !.kind = "target"]
             more == IF leads THEN {next} ELSE {}
             rels == IF listed THEN {t.rel} ELSE {}
             tasks == (Walk(i).tasks \ {t}) \cup more
             found == Walk(i).found \cup rels
             w == [Walk(i) EXCEPT !.tasks = tasks, !.found = found]
  <1>2. SetWalk(i, w)
    BY <1>1
  <1>3. IsTask(discovery.project, Source(i), Base(i), t)
    BY WalkFacts
  <1>4. ASSUME leads PROVE Ok(next)
    <2>1. OpenFor(discovery.project, Source(i), Base(i), t.rel)
      BY <1>4 DEF IsOpen, Skipped, OpenFor
    <2>2. /\ TaskFields \subseteq DOMAIN next
          /\ next.rel = t.rel /\ next.matches = t.matches /\ next.stage = t.stage
      BY <1>3 DEF IsTask, TaskFields
    <2> HIDE DEF next
    <2>3. QED BY <1>3, <2>1, <2>2, SameNamesTask
  <1>5. listed => Want(t.rel)
    BY <1>3 DEF IsTask, IsLookedFor
  <1>6. (\A old \in Walk(i).tasks : Ok(old)) /\ \A rel \in Walk(i).found : Want(rel)
    BY WalkFacts
  <1> HIDE DEF leads, listed, next, Ok, Want
  <1>7. (\A e \in tasks : Ok(e)) /\ \A rel \in found : Want(rel)
    BY <1>4, <1>5, <1>6
  <1> HIDE DEF tasks, found
  <1>8. /\ {"pc", "at", "tasks", "found", "files", "errors", "rootReal"} \subseteq DOMAIN w
        /\ w.at = Walk(i).at /\ w.files = Walk(i).files /\ w.tasks = tasks /\ w.found = found
    BY WalkFacts
  <1> HIDE DEF w
  <1>9. QED BY <1>2, <1>7, <1>8, SameLocale DEF Ok, Want

\* A task that goes, or goes on under the same names.
LEMMA TaskGoesOn ==
    ASSUME WalkInv, discovery # None, NEW i \in DOMAIN discovery.walks, NEW t \in Walk(i).tasks,
           t.kind # "link", NEW next, next.rel = t.rel, next.matches = t.matches,
           next.stage = t.stage, TaskFields \subseteq DOMAIN next,
           NEW more \in {{}, {next}},
           SetWalk(i, [Walk(i) EXCEPT !.tasks = (@ \ {t}) \cup more])
    PROVE  WalkInv'
  <1> DEFINE tasks == (Walk(i).tasks \ {t}) \cup more
             w == [Walk(i) EXCEPT !.tasks = tasks]
  <1>1. IsTask(discovery.project, Source(i), Base(i), next)
    BY WalkFacts, SameNamesTask
  <1>2. \A e \in tasks : IsTask(discovery.project, Source(i), Base(i), e)
    BY <1>1, WalkFacts
  <1>3. \A rel \in Walk(i).found : IsLookedFor(discovery.project, Source(i), Base(i), rel)
    BY WalkFacts
  <1>4. SetWalk(i, w)
    OBVIOUS
  <1> HIDE DEF tasks
  <1>5. /\ {"pc", "at", "tasks", "found", "files", "errors", "rootReal"} \subseteq DOMAIN w
        /\ w.at = Walk(i).at /\ w.files = Walk(i).files /\ w.tasks = tasks
        /\ w.found = Walk(i).found
    BY WalkFacts
  <1> HIDE DEF w
  <1>6. QED BY <1>2, <1>3, <1>4, <1>5, SameLocale

LEMMA FindTargetWalk ==
    ASSUME WalkInv, discovery # None, NEW i \in DOMAIN discovery.walks, FindTarget(i)
    PROVE  WalkInv'
  <1>1. PICK t \in Walk(i).tasks : \E target :
            /\ t.kind = "target"
            /\ SetWalk(i, [Walk(i) EXCEPT
                   !.tasks = (@ \ {t}) \cup {[t EXCEPT !.kind = "enter", !.target = target]}])
    BY Zenon DEF FindTarget
  <1>2. PICK target :
            /\ t.kind = "target"
            /\ SetWalk(i, [Walk(i) EXCEPT
                   !.tasks = (@ \ {t}) \cup {[t EXCEPT !.kind = "enter", !.target = target]}])
    BY <1>1
  <1> DEFINE next == [t EXCEPT !.kind = "enter", !.target = target]
             more == {next}
  <1>3. TaskFields \subseteq DOMAIN t
    BY WalkFacts DEF IsTask
  <1>4. /\ TaskFields \subseteq DOMAIN next /\ next.rel = t.rel
        /\ next.matches = t.matches /\ next.stage = t.stage
    BY <1>3 DEF TaskFields
  <1>5. SetWalk(i, [Walk(i) EXCEPT !.tasks = (@ \ {t}) \cup more])
    BY <1>2
  <1> HIDE DEF next
  <1>6. more \in {{}, {next}}
    OBVIOUS
  <1> HIDE DEF more
  <1>7. QED BY <1>2, <1>4, <1>5, <1>6, TaskGoesOn

LEMMA EnterLinkWalk ==
    ASSUME WalkInv, discovery # None, NEW i \in DOMAIN discovery.walks, EnterLink(i)
    PROVE  WalkInv'
  <1>1. PICK t \in Walk(i).tasks :
            LET passed == Passed(i, t)
                behind == [t EXCEPT !.kind = "folder", !.depth = Len(t.rel), !.real = t.target,
                                    !.passed = passed, !.target = None]
            IN  /\ t.kind = "enter"
                /\ SetWalk(i, [Walk(i) EXCEPT
                       !.tasks = (@ \ {t}) \cup
                           (IF t.target = None \/ IsOnPath(passed, t.target)
                            THEN {} ELSE {behind})])
    BY Zenon DEF EnterLink
  <1> DEFINE passed == Passed(i, t)
             next == [t EXCEPT !.kind = "folder", !.depth = Len(t.rel), !.real = t.target,
                               !.passed = passed, !.target = None]
             more == IF t.target = None \/ IsOnPath(passed, t.target) THEN {} ELSE {next}
  <1>2. TaskFields \subseteq DOMAIN t
    BY WalkFacts DEF IsTask
  <1>3. t.kind = "enter" /\ SetWalk(i, [Walk(i) EXCEPT !.tasks = (@ \ {t}) \cup more])
    BY <1>1
  <1>4. /\ TaskFields \subseteq DOMAIN next /\ next.rel = t.rel
        /\ next.matches = t.matches /\ next.stage = t.stage
    <2> HIDE DEF passed
    <2>1. QED BY <1>2 DEF TaskFields
  <1> HIDE DEF next, passed
  <1>5. more \in {{}, {next}}
    OBVIOUS
  <1> HIDE DEF more
  <1>6. QED BY <1>3, <1>4, <1>5, TaskGoesOn

LEMMA FindRootWalk ==
    ASSUME WalkInv, discovery # None, NEW i \in DOMAIN discovery.walks, FindRoot(i)
    PROVE  WalkInv'
  <1> DEFINE none == [Walk(i) EXCEPT !.tasks = {}, !.found = {},
                                     !.errors = Walk(i).errors \cup {"read-failed"}]
             root == [Walk(i) EXCEPT !.rootReal = RealIn(tree, Base(i))]
  <1>1. SetWalk(i, none) \/ SetWalk(i, root)
    BY DEF FindRoot, FailedWalk
  <1>2. /\ {"pc", "at", "tasks", "found", "files", "errors", "rootReal"} \subseteq DOMAIN none
        /\ none.at = Walk(i).at /\ none.files = Walk(i).files
        /\ none.tasks = {} /\ none.found = {}
    BY WalkFacts
  <1>3. /\ {"pc", "at", "tasks", "found", "files", "errors", "rootReal"} \subseteq DOMAIN root
        /\ root.at = Walk(i).at /\ root.files = Walk(i).files
        /\ root.tasks = Walk(i).tasks /\ root.found = Walk(i).found
    BY WalkFacts
  <1> HIDE DEF none, root
  <1>4. QED BY <1>1, <1>2, <1>3, WalkFacts, SameLocale

\* What a locale found is kept, at most once by its id.
LEMMA EndLocaleWalk ==
    ASSUME WalkInv, discovery # None, NEW i \in DOMAIN discovery.walks, EndLocale(i)
    PROVE  WalkInv'
  <1> DEFINE collection == Source(i).kind = "collection"
             more == IF collection THEN Documents(i) ELSE SingletonFiles(i)
             files == Walk(i).files \cup more
             errors == Walk(i).errors \cup (IF collection THEN Duplicates(i) ELSE SingletonErrors(i))
             last == Walk(i).at = Len(LocalesOf(discovery.project, Source(i)))
             pc == IF last THEN "done" ELSE "locale"
             at == IF last THEN 1 ELSE Walk(i).at + 1
             w == [Walk(i) EXCEPT !.files = files, !.errors = errors, !.found = {},
                                  !.rootReal = None, !.pc = pc, !.at = at]
  <1>1. Walk(i).tasks = {} /\ SetWalk(i, w)
    BY Zenon DEF EndLocale
  <1>2. ASSUME NEW f \in more
        PROVE  IsLookedFor(discovery.project, Source(i), BaseOf(Source(i), f.locale), f.rel)
    <2>1. f.rel \in Walk(i).found /\ f.locale = Locale(i)
      <3>1. CASE f \in Documents(i)
        <4> DEFINE found == Walk(i).found
                   first(id) == CHOOSE rel \in found : FoldedId(rel) = id
        <4>1. PICK id \in {FoldedId(rel) : rel \in found} :
                  f = [id |-> IdOf(first(id)), locale |-> Locale(i), rel |-> first(id)]
          BY <3>1, Zenon DEF Documents
        <4>2. \E rel \in found : FoldedId(rel) = id
          BY <4>1
        <4>3. first(id) \in found
          BY <4>2
        <4> HIDE DEF first
        <4>4. QED BY <4>1, <4>3
      <3>2. CASE f \in SingletonFiles(i)
        BY <3>2 DEF SingletonFiles
      <3>3. QED BY <3>1, <3>2
    <2>2. Base(i) = BaseOf(Source(i), f.locale)
      BY <2>1 DEF Base
    <2>3. QED BY <2>1, <2>2, WalkFacts
  <1> HIDE DEF more, errors, pc, at
  <1>3. Source(i).filePath # None \/ \A f \in files :
            IsLookedFor(discovery.project, Source(i), BaseOf(Source(i), f.locale), f.rel)
    BY <1>2, WalkFacts
  <1> HIDE DEF files
  <1>4. /\ {"pc", "at", "tasks", "found", "files", "errors", "rootReal"} \subseteq DOMAIN w
        /\ w.tasks = {} /\ w.found = {} /\ w.files = files
    BY <1>1, WalkFacts
  <1> HIDE DEF w
  <1>5. WalkOk(discovery.project, Source(i), w)
    BY <1>3, <1>4 DEF WalkOk
  <1>6. QED BY <1>1, <1>5, WalkGoesOn

\* Every source of what is loaded has parsed patterns, and nothing is found yet.
LEMMA BeginDiscoveryWalk ==
    ASSUME PatternsAreParsed, NamesInv, WalkInv, BeginDiscovery PROVE WalkInv'
  <1> DEFINE project == loaded.project
             ss == project.sources
             walks == [i \in DOMAIN ss |-> NewWalk]
  <1>1. loaded # None /\ discovered' = None
        /\ discovery' = [project |-> project, walks |-> walks, seen |-> {tree}]
    BY DEF BeginDiscovery
  <1>2. PICK texts : /\ Accepted(ConfigOf(texts))
                     /\ project = ResolveProject(ConfigOf(texts))
    BY <1>1 DEF NamesInv, IsAccepted
  <1>3. ss = Sources(ConfigOf(texts))
    BY <1>2 DEF ResolveProject
  <1>4. \A i \in DOMAIN ss : ArePatterns(ss[i].include)
    <2>1. \A s \in Elements(Sources(ConfigOf(texts))) : ArePatterns(s.include)
      BY <1>2 DEF PatternsAreParsed
    <2>2. QED BY <1>3, <2>1 DEF Elements
  <1>5. \A i : WalkOk(project, ss[i], NewWalk)
    BY DEF WalkOk, NewWalk
  <1>6. DOMAIN walks = DOMAIN ss /\ \A i \in DOMAIN ss : walks[i] = NewWalk
    OBVIOUS
  <1> HIDE DEF project, walks
  <1>7. /\ {"project", "walks"} \subseteq DOMAIN discovery'
        /\ discovery'.project = project /\ discovery'.walks = walks
    BY <1>1
  <1>8. DiscoveryInv'
    BY <1>4, <1>5, <1>6, <1>7 DEF DiscoveryInv
  <1>9. FoundAreWanted'
    BY <1>1 DEF FoundAreWanted
  <1>10. QED BY <1>8, <1>9 DEF WalkInv

\* What the walks found is what is discovered.
LEMMA EndDiscoveryWalk ==
    ASSUME WalkInv, EndDiscovery PROVE WalkInv'
  <1> DEFINE files == [i \in DOMAIN discovery.walks |-> Walk(i).files]
             errors == UNION {Walk(i).errors : i \in DOMAIN discovery.walks}
  <1>1. discovery # None /\ discovery' = None
        /\ discovered' = [project |-> discovery.project,
                          seen |-> discovery.seen,
                          errors |-> errors, files |-> files]
    BY DEF EndDiscovery
  <1>2. \A i \in DOMAIN discovery.project.sources :
            LET s == discovery.project.sources[i]
            IN  s.filePath # None \/ \A f \in files[i] :
                    IsLookedFor(discovery.project, s, BaseOf(s, f.locale), f.rel)
    BY <1>1 DEF WalkInv, DiscoveryInv, WalkOk, Walk
  <1> HIDE DEF files, errors
  <1>3. discovered'.project = discovery.project /\ discovered'.files = files
    BY <1>1
  <1>4. FoundAreWanted'
    BY <1>2, <1>3, Zenon DEF FoundAreWanted
  <1>5. DiscoveryInv'
    BY <1>1 DEF DiscoveryInv
  <1>6. QED BY <1>4, <1>5 DEF WalkInv

\* A discovery only notes the trees that an edit makes.
LEMMA EditKeepsWalks ==
    ASSUME EditTree, discovery # None
    PROVE  discovery' = [discovery EXCEPT !.seen = @ \cup {tree'}]
  BY DEF EditTree

\* An edit leaves the walks as they are.
LEMMA EditTreeWalk ==
    ASSUME WalkInv, EditTree PROVE WalkInv'
  <1>1. UNCHANGED discovered
    BY DEF EditTree
  <1>2. DiscoveryInv'
    <2>1. CASE discovery = None
      <3>1. discovery' = None
        BY <2>1 DEF EditTree
      <3>2. QED BY <3>1 DEF DiscoveryInv
    <2>2. CASE discovery # None
      <3>1. discovery' = [discovery EXCEPT !.seen = @ \cup {tree'}]
        BY <2>2, EditKeepsWalks
      <3>2. {"project", "walks"} \subseteq DOMAIN discovery
        BY <2>2 DEF WalkInv, DiscoveryInv
      <3>3. /\ {"project", "walks"} \subseteq DOMAIN discovery'
            /\ discovery'.project = discovery.project /\ discovery'.walks = discovery.walks
        BY <3>1, <3>2
      <3>4. QED BY <2>2, <3>3 DEF WalkInv, DiscoveryInv
    <2>3. QED BY <2>1, <2>2
  <1>3. FoundAreWanted'
    BY <1>1 DEF WalkInv, FoundAreWanted
  <1>4. QED BY <1>2, <1>3 DEF WalkInv

\* Nothing is found at first.
LEMMA InitWalk == Init => WalkInv
  BY DEF Init, WalkInv, DiscoveryInv, FoundAreWanted

\* Every step.
LEMMA WalkNextInv ==
    ASSUME PatternsAreParsed, NamesInv, WalkInv, [Next]_vars PROVE WalkInv'
  <1>1. CASE UNCHANGED <<discovery, discovered>>
    BY <1>1 DEF WalkInv, DiscoveryInv, FoundAreWanted
  <1>2. CASE UNCHANGED walking
    BY <1>1, <1>2 DEF walking
  <1>3. CASE UNCHANGED vars
    BY <1>2, <1>3 DEF vars
  <1>4. CASE BeginDiscovery
    BY <1>4, BeginDiscoveryWalk
  <1>5. ASSUME discovery # None, NEW i \in DOMAIN discovery.walks, WalkNext(i) PROVE WalkInv'
    BY <1>5, BeginSourceWalk, BeginLocaleWalk, ReadFolderWalk, FailsWalk, LookAtLinkWalk,
       FindTargetWalk, FindRootWalk, EnterLinkWalk,
       EndLocaleWalk, Zenon DEF WalkNext
  <1>6. CASE EndDiscovery
    BY <1>6, EndDiscoveryWalk
  <1>7. CASE Interrupt
    <2>1. discovery' = None /\ UNCHANGED discovered
      BY <1>7 DEF Interrupt
    <2>2. QED BY <2>1 DEF WalkInv, DiscoveryInv, FoundAreWanted
  <1>8. CASE EditTree
    BY <1>8, EditTreeWalk
  <1>9. QED
    <2>1. Next => \/ UNCHANGED walking \/ BeginDiscovery
                  \/ discovery # None /\ \E i \in DOMAIN discovery.walks : WalkNext(i)
                  \/ EndDiscovery \/ Interrupt \/ EditTree
      BY Zenon DEF Next
    <2>2. QED BY <1>2, <1>3, <1>4, <1>5, <1>6, <1>7, <1>8, <2>1, Zenon

\* Every file of a discovery is one that was looked for, however deep it lies and
\* whatever was edited meanwhile: a pattern of its source names its whole path,
\* none of its names is hidden, and no folder on the way to it is excluded or
\* belongs to the output or a cache.  The walk decides it name by name.
THEOREM OnlyWantedFilesAreFound ==
    ASSUME PatternsAreParsed PROVE Spec => []FoundAreWanted
  <1> DEFINE Inv == NamesInv /\ WalkInv
  <1>1. Init => Inv
    BY InitNames, InitWalk
  <1>2. Inv /\ [Next]_vars => Inv'
    BY NamesNextInv, WalkNextInv
  <1>3. Inv => FoundAreWanted
    BY DEF WalkInv
  <1>4. QED BY <1>1, <1>2, <1>3, PTL DEF Spec

-----------------------------------------------------------------------------
(* What is walked was accepted, and is finite.                             *)

\* What is walked, and what was, is a project that was accepted.
AcceptedInv ==
    /\ discovery # None => IsAccepted(discovery.project)
    /\ discovered # None => IsAccepted(discovered.project)

\* A discovery keeps the project that it began with.
LEMMA AcceptedNextInv ==
    ASSUME NamesInv, WalkInv, AcceptedInv, [Next]_vars PROVE AcceptedInv'
  <1>1. CASE UNCHANGED <<discovery, discovered>>
    BY <1>1 DEF AcceptedInv, IsAccepted
  <1>2. CASE UNCHANGED walking \/ UNCHANGED vars
    BY <1>1, <1>2 DEF walking, vars
  <1>3. CASE BeginDiscovery
    <2>1. /\ loaded # None /\ discovered' = None /\ discovery'.project = loaded.project
      BY <1>3 DEF BeginDiscovery
    <2>2. QED BY <2>1 DEF NamesInv, AcceptedInv, IsAccepted
  <1>4. ASSUME discovery # None, NEW i \in DOMAIN discovery.walks, WalkNext(i) PROVE AcceptedInv'
    <2>1. \E w : SetWalk(i, w)
      BY <1>4, Zenon DEF WalkNext, BeginSource, BeginLocale, ReadFolder, CannotRead,
                         ListingFails, LookAtLink, FindTarget, FindRoot, EnterLink, EndLocale
    <2>2. PICK w : SetWalk(i, w)
      BY <2>1
    <2>3. {"project", "walks"} \subseteq DOMAIN discovery
      BY <1>4 DEF WalkInv, DiscoveryInv
    <2>4. discovery'.project = discovery.project /\ discovered' = discovered
      BY <2>2, <2>3 DEF SetWalk
    <2>5. QED BY <1>4, <2>4 DEF AcceptedInv, IsAccepted
  <1>5. CASE EndDiscovery
    <2>1. discovery # None /\ discovery' = None /\ discovered'.project = discovery.project
      BY <1>5 DEF EndDiscovery
    <2>2. QED BY <2>1 DEF AcceptedInv, IsAccepted
  <1>6. CASE Interrupt
    <2>1. discovery' = None /\ discovered' = discovered
      BY <1>6 DEF Interrupt
    <2>2. QED BY <2>1 DEF AcceptedInv, IsAccepted
  <1>7. CASE EditTree
    <2>1. discovered' = discovered
      BY <1>7 DEF EditTree
    <2>2. discovery = None => discovery' = None
      BY <1>7 DEF EditTree
    <2>3. discovery # None => discovery'.project = discovery.project
      <3>1. discovery # None => {"project", "walks"} \subseteq DOMAIN discovery
        BY DEF WalkInv, DiscoveryInv
      <3>2. QED BY <1>7, <3>1, EditKeepsWalks
    <2>4. QED BY <2>1, <2>2, <2>3 DEF AcceptedInv, IsAccepted
  <1>8. QED
    <2>1. Next => \/ UNCHANGED walking \/ BeginDiscovery
                  \/ discovery # None /\ \E i \in DOMAIN discovery.walks : WalkNext(i)
                  \/ EndDiscovery \/ Interrupt \/ EditTree
      BY Zenon DEF Next
    <2>2. QED BY <1>2, <1>3, <1>4, <1>5, <1>6, <1>7, <2>1, Zenon

\* There is a path where there is one (None is what a string is not).
NoneIsNoPath == \A path : Absolute(path) # None /\ (IsList(path) => path # None)

\* A singleton whose files are looked for has one for every locale.
LEMMA SingletonsAreLocalized ==
    ASSUME NoneIsNoPath, NEW project, IsAccepted(project), NEW i \in DOMAIN project.sources,
           project.sources[i].filePath = None, project.sources[i].kind # "collection"
    PROVE  project.sources[i].localized
  <1>1. PICK texts : project = ResolveProject(ConfigOf(texts))
    BY DEF IsAccepted
  <1> DEFINE config == ConfigOf(texts)
             e == config.content[i]
  <1>2. project.sources = Sources(config)
    BY <1>1 DEF ResolveProject
  <1>3. project.sources[i] \in {ResolvedCollection(config, e), ResolvedSingleton(config, e)}
    BY <1>2 DEF Sources
  <1>4. ResolvedCollection(config, e).kind = "collection"
    BY DEF ResolvedCollection
  <1>5. /\ ResolvedSingleton(config, e).localized = Localized(config, e)
        /\ ~Localized(config, e) => ResolvedSingleton(config, e).filePath = Absolute(e.filePath)
    BY DEF ResolvedSingleton
  <1>6. project.sources[i] = ResolvedSingleton(config, e)
    BY <1>3, <1>4
  <1>7. QED BY <1>5, <1>6 DEF NoneIsNoPath

\* Paths are lists of names.
IsNode(path, node) == IsList(path) /\ (node.kind = "link" => IsList(node.to))
AreNodes(nodes) == \A p \in DOMAIN nodes : IsNode(p, nodes[p])

\* The user makes and removes finitely many things at once.
EditsAreTrees ==
    \A edit \in TreeEdits :
        /\ IsFiniteSet(DOMAIN edit)
        /\ \A p \in DOMAIN edit : edit[p] # None => IsNode(p, edit[p])

\* A walk finds finitely many files of the content.
FiniteInv ==
    /\ IsFiniteSet(DOMAIN tree) /\ AreNodes(tree)
    /\ discovery # None => \A i \in DOMAIN discovery.walks : IsFiniteSet(Walk(i).found)

\* A walk that goes on, and leaves the others alone.
LEMMA FiniteGoesOn ==
    ASSUME WalkInv, FiniteInv, discovery # None, NEW i \in DOMAIN discovery.walks, NEW w,
           SetWalk(i, w), IsFiniteSet(w.found)
    PROVE  FiniteInv'
  <1>1. {"project", "walks"} \subseteq DOMAIN discovery
    BY DEF WalkInv, DiscoveryInv
  <1>2. discovery' = [discovery EXCEPT !.walks[i] = w] /\ tree' = tree
    BY DEF SetWalk, content
  <1>3. discovery'.walks = [discovery.walks EXCEPT ![i] = w]
    BY <1>1, <1>2
  <1>4. \A j \in DOMAIN discovery'.walks :
            /\ j \in DOMAIN discovery.walks
            /\ discovery'.walks[j] = IF j = i THEN w ELSE discovery.walks[j]
    BY <1>3
  <1>5. \A j \in DOMAIN discovery'.walks : IsFiniteSet(discovery'.walks[j].found)
    BY <1>4 DEF FiniteInv, Walk
  <1>6. QED BY <1>2, <1>5 DEF FiniteInv, Walk

\* What is in a folder is some of the tree.
LEMMA ReadFolderFinite ==
    ASSUME WalkInv, FiniteInv, discovery # None, NEW i \in DOMAIN discovery.walks, ReadFolder(i)
    PROVE  FiniteInv'
  <1>1. PICK t \in Walk(i).tasks :
            LET there == Children(tree, RealIn(tree, PathOf(i, t)))
                entries == {Entry(t, p) : p \in {q \in there : Last(q) \notin Hidden}}
                files == {e \in entries : /\ e.kind = "file" /\ e.matches
                                          /\ ~ExcludesFile(Source(i).exclude, e.rel)}
                folders == {e \in entries : e.kind = "folder" /\ e.stage # {} /\ IsOpen(i, e.rel)}
                links == {e \in entries : e.kind = "link" /\ (e.matches \/ e.stage # {})}
            IN  SetWalk(i, [Walk(i) EXCEPT
                    !.tasks = (@ \ {t}) \cup folders \cup links,
                    !.found = @ \cup {e.rel : e \in files}])
    BY Zenon DEF ReadFolder
  <1> DEFINE there == Children(tree, RealIn(tree, PathOf(i, t)))
             entries == {Entry(t, p) : p \in {q \in there : Last(q) \notin Hidden}}
             files == {e \in entries : /\ e.kind = "file" /\ e.matches
                                       /\ ~ExcludesFile(Source(i).exclude, e.rel)}
             folders == {e \in entries : e.kind = "folder" /\ e.stage # {} /\ IsOpen(i, e.rel)}
             links == {e \in entries : e.kind = "link" /\ (e.matches \/ e.stage # {})}
             tasks == (Walk(i).tasks \ {t}) \cup folders \cup links
             rels == {e.rel : e \in files}
             w == [Walk(i) EXCEPT !.tasks = tasks, !.found = @ \cup rels]
             f == [p \in DOMAIN tree |-> Entry(t, p).rel]
             all == {f[p] : p \in DOMAIN tree}
  <1>2. SetWalk(i, w)
    BY <1>1
  <1>3. IsFiniteSet(all)
    <2>1. f \in Surjection(DOMAIN tree, all)
      BY DEF Surjection
    <2> HIDE DEF f, all
    <2>2. QED BY <2>1, FS_Surjection DEF FiniteInv
  <1>4. rels \subseteq all
    BY DEF Children
  <1> HIDE DEF all, rels, tasks
  <1>5. IsFiniteSet(Walk(i).found \cup rels)
    <2>1. IsFiniteSet(rels) /\ IsFiniteSet(Walk(i).found)
      BY <1>3, <1>4, FS_Subset DEF FiniteInv
    <2>2. QED BY <2>1, FS_Union
  <1>6. w.found = Walk(i).found \cup rels
    BY WalkFacts
  <1> HIDE DEF w
  <1>7. QED BY <1>2, <1>5, <1>6, FiniteGoesOn

\* The other steps of a walk find at most one file.
LEMMA WalkNextFinite ==
    ASSUME WalkInv, FiniteInv, discovery # None, NEW i \in DOMAIN discovery.walks, WalkNext(i)
    PROVE  FiniteInv'
  <1>1. CASE ReadFolder(i)
    BY <1>1, ReadFolderFinite
  <1>2. ASSUME NEW w, SetWalk(i, w),
               w.found = {} \/ w.found = Walk(i).found
                   \/ \E rel : w.found = Walk(i).found \cup {rel}
        PROVE  FiniteInv'
    <2>1. IsFiniteSet(Walk(i).found)
      BY DEF FiniteInv
    <2>2. IsFiniteSet(w.found)
      BY <1>2, <2>1, FS_EmptySet, FS_AddElement
    <2>3. QED BY <1>2, <2>2, FiniteGoesOn
  <1>3. ASSUME NEW w, SetWalk(i, w), w.found = {} PROVE FiniteInv'
    BY <1>2, <1>3
  <1>4. {"pc", "at", "tasks", "found", "files", "errors", "rootReal"} \subseteq DOMAIN Walk(i)
    BY WalkFacts
  <1>5. CASE BeginSource(i)
    <2>1. \E pc, errors, files :
              \/ SetWalk(i, [NewWalk EXCEPT !.pc = pc, !.errors = errors])
              \/ SetWalk(i, [NewWalk EXCEPT !.pc = pc, !.files = files])
              \/ SetWalk(i, [NewWalk EXCEPT !.pc = pc])
      BY <1>5, Zenon DEF BeginSource
    <2>2. PICK pc, errors, files :
              \/ SetWalk(i, [NewWalk EXCEPT !.pc = pc, !.errors = errors])
              \/ SetWalk(i, [NewWalk EXCEPT !.pc = pc, !.files = files])
              \/ SetWalk(i, [NewWalk EXCEPT !.pc = pc])
      BY <2>1
    <2>3. /\ [NewWalk EXCEPT !.pc = pc, !.errors = errors].found = {}
          /\ [NewWalk EXCEPT !.pc = pc, !.files = files].found = {}
          /\ [NewWalk EXCEPT !.pc = pc].found = {}
      BY DEF NewWalk
    <2>4. QED BY <1>3, <2>2, <2>3
  <1>6. CASE BeginLocale(i)
    <2>1. \E tasks : SetWalk(i, [Walk(i) EXCEPT !.pc = "list", !.found = {}, !.rootReal = None,
                                             !.tasks = tasks])
      BY <1>6, Zenon DEF BeginLocale
    <2>2. PICK tasks : SetWalk(i, [Walk(i) EXCEPT !.pc = "list", !.found = {}, !.rootReal = None,
                                              !.tasks = tasks])
      BY <2>1
    <2>3. [Walk(i) EXCEPT !.pc = "list", !.found = {}, !.rootReal = None,
                          !.tasks = tasks].found = {}
      BY <1>4
    <2>4. QED BY <1>3, <2>2, <2>3
  <1>7. CASE CannotRead(i) \/ ListingFails(i)
    <2> DEFINE none == [Walk(i) EXCEPT !.tasks = {}, !.found = {},
                                       !.errors = Walk(i).errors \cup {"read-failed"}]
               less(t) == [Walk(i) EXCEPT !.tasks = Walk(i).tasks \ {t}]
    <2>1. SetWalk(i, none) \/ \E t \in Walk(i).tasks : SetWalk(i, less(t))
      BY <1>7 DEF CannotRead, ListingFails, FailedWalk
    <2>2. none.found = {} /\ \A t : less(t).found = Walk(i).found
      BY <1>4
    <2> HIDE DEF none, less
    <2>3. QED BY <1>2, <2>1, <2>2
  <1>8. CASE LookAtLink(i)
    <2>1. \E t, tasks, found :
              /\ found \in {{}, {t.rel}}
              /\ SetWalk(i, [Walk(i) EXCEPT !.tasks = tasks, !.found = @ \cup found])
      <3>1. PICK t \in Walk(i).tasks : \E tasks, listed :
                SetWalk(i, [Walk(i) EXCEPT !.tasks = tasks,
                               !.found = @ \cup (IF listed THEN {t.rel} ELSE {})])
        BY <1>8, Zenon DEF LookAtLink
      <3>2. PICK tasks, listed :
                SetWalk(i, [Walk(i) EXCEPT !.tasks = tasks,
                               !.found = @ \cup (IF listed THEN {t.rel} ELSE {})])
        BY <3>1
      <3> DEFINE found == IF listed THEN {t.rel} ELSE {}
      <3>3. found \in {{}, {t.rel}}
        OBVIOUS
      <3>4. SetWalk(i, [Walk(i) EXCEPT !.tasks = tasks, !.found = @ \cup found])
        BY <3>2
      <3> HIDE DEF found
      <3>5. QED BY <3>3, <3>4
    <2>2. PICK t, tasks, found :
              /\ found \in {{}, {t.rel}}
              /\ SetWalk(i, [Walk(i) EXCEPT !.tasks = tasks, !.found = @ \cup found])
      BY <2>1
    <2>3. [Walk(i) EXCEPT !.tasks = tasks, !.found = @ \cup found].found
              = Walk(i).found \cup found
      BY <1>4
    <2>4. \/ Walk(i).found \cup found = Walk(i).found
          \/ Walk(i).found \cup found = Walk(i).found \cup {t.rel}
      BY <2>2
    <2>5. QED BY <1>2, <2>2, <2>3, <2>4
  <1>9. CASE EndLocale(i)
    <2>1. \E files, errors, pc, at :
              SetWalk(i, [Walk(i) EXCEPT !.files = files, !.errors = errors, !.found = {},
                                         !.rootReal = None, !.pc = pc, !.at = at])
      BY <1>9, Zenon DEF EndLocale
    <2>2. PICK files, errors, pc, at :
              SetWalk(i, [Walk(i) EXCEPT !.files = files, !.errors = errors, !.found = {},
                                         !.rootReal = None, !.pc = pc, !.at = at])
      BY <2>1
    <2>3. [Walk(i) EXCEPT !.files = files, !.errors = errors, !.found = {},
                          !.rootReal = None, !.pc = pc, !.at = at].found = {}
      BY <1>4
    <2>4. QED BY <1>3, <2>2, <2>3
  <1>10. CASE FindTarget(i) \/ EnterLink(i)
    <2>1. \E tasks : SetWalk(i, [Walk(i) EXCEPT !.tasks = tasks])
      BY <1>10, Zenon DEF FindTarget, EnterLink
    <2>2. PICK tasks : SetWalk(i, [Walk(i) EXCEPT !.tasks = tasks])
      BY <2>1
    <2>3. [Walk(i) EXCEPT !.tasks = tasks].found = Walk(i).found
      BY <1>4
    <2>4. QED BY <1>2, <2>2, <2>3
  <1>11. CASE FindRoot(i)
    <2> DEFINE none == [Walk(i) EXCEPT !.tasks = {}, !.found = {},
                                       !.errors = Walk(i).errors \cup {"read-failed"}]
               root == [Walk(i) EXCEPT !.rootReal = RealIn(tree, Base(i))]
    <2>1. SetWalk(i, none) \/ SetWalk(i, root)
      BY <1>11 DEF FindRoot, FailedWalk
    <2>2. none.found = {} /\ root.found = Walk(i).found
      BY <1>4
    <2> HIDE DEF none, root
    <2>3. QED BY <1>2, <2>1, <2>2
  <1>12. QED BY <1>1, <1>5, <1>6, <1>7, <1>8, <1>9, <1>10, <1>11 DEF WalkNext

\* Every step.
LEMMA FiniteNextInv ==
    ASSUME EditsAreTrees, WalkInv, FiniteInv, [Next]_vars PROVE FiniteInv'
  <1>1. CASE UNCHANGED <<discovery, tree>>
    BY <1>1 DEF FiniteInv, Walk
  <1>2. CASE UNCHANGED <<content, walking>>
    BY <1>1, <1>2 DEF content, walking
  <1>3. CASE UNCHANGED vars
    BY <1>2, <1>3 DEF vars
  <1>4. CASE BeginDiscovery
    <2>1. /\ tree' = tree
          /\ discovery'.walks = [i \in DOMAIN loaded.project.sources |-> NewWalk]
      BY <1>4 DEF BeginDiscovery, content
    <2>2. NewWalk.found = {} /\ IsFiniteSet({})
      BY FS_EmptySet DEF NewWalk
    <2>3. \A i \in DOMAIN discovery'.walks : discovery'.walks[i] = NewWalk
      BY <2>1
    <2>4. QED BY <2>1, <2>2, <2>3 DEF FiniteInv, Walk
  <1>5. ASSUME discovery # None, NEW i \in DOMAIN discovery.walks, WalkNext(i) PROVE FiniteInv'
    BY <1>5, WalkNextFinite
  <1>6. CASE EndDiscovery \/ Interrupt
    <2>1. discovery' = None /\ tree' = tree
      BY <1>6 DEF EndDiscovery, Interrupt, content
    <2>2. QED BY <2>1 DEF FiniteInv
  <1>7. CASE EditTree
    <2>1. IsFiniteSet(DOMAIN tree') /\ AreNodes(tree')
      <3>1. PICK edit \in TreeEdits :
                /\ DOMAIN tree' \subseteq DOMAIN tree \cup DOMAIN edit
                /\ \A p \in DOMAIN tree' :
                       \/ p \in DOMAIN tree /\ tree'[p] = tree[p]
                       \/ p \in DOMAIN edit /\ edit[p] # None /\ tree'[p] = edit[p]
        <4>1. PICK edit \in TreeEdits :
                  LET added == {p \in DOMAIN edit : edit[p] # None}
                      isLost(p) == \E q \in DOMAIN edit :
                                      IsInside(p, q) /\ ~(q \in added /\ edit[q].kind \in Folders)
                      next == [p \in {q \in DOMAIN tree : ~isLost(q)} \cup added |->
                                  IF p \in added THEN edit[p] ELSE tree[p]]
                  IN  tree' = next
          BY <1>7, Zenon DEF EditTree
        <4>2. /\ DOMAIN tree' \subseteq DOMAIN tree \cup DOMAIN edit
              /\ \A p \in DOMAIN tree' :
                     \/ p \in DOMAIN tree /\ tree'[p] = tree[p]
                     \/ p \in DOMAIN edit /\ edit[p] # None /\ tree'[p] = edit[p]
          BY <4>1
        <4>3. QED BY <4>2
      <3>2. IsFiniteSet(DOMAIN tree \cup DOMAIN edit)
        BY FS_Union DEF FiniteInv, EditsAreTrees
      <3>3. IsFiniteSet(DOMAIN tree')
        BY <3>1, <3>2, FS_Subset
      <3>4. ASSUME NEW p \in DOMAIN tree' PROVE IsNode(p, tree'[p])
        BY <3>1 DEF FiniteInv, AreNodes, EditsAreTrees
      <3>5. AreNodes(tree')
        BY <3>4 DEF AreNodes
      <3>6. QED BY <3>3, <3>5
    <2>2. CASE discovery = None
      <3>1. discovery' = None
        BY <1>7, <2>2 DEF EditTree
      <3>2. QED BY <2>1, <3>1 DEF FiniteInv
    <2>3. CASE discovery # None
      <3>1. discovery' = [discovery EXCEPT !.seen = @ \cup {tree'}]
        BY <1>7, <2>3, EditKeepsWalks
      <3>2. {"project", "walks"} \subseteq DOMAIN discovery
        BY <2>3 DEF WalkInv, DiscoveryInv
      <3>3. discovery'.walks = discovery.walks
        BY <3>1, <3>2
      <3>4. QED BY <2>1, <2>3, <3>3 DEF FiniteInv, Walk
    <2>4. QED BY <2>2, <2>3
  <1>8. QED
    <2>1. Next => \/ UNCHANGED <<content, walking>> \/ BeginDiscovery
                  \/ discovery # None /\ \E i \in DOMAIN discovery.walks : WalkNext(i)
                  \/ EndDiscovery \/ Interrupt \/ EditTree
      BY Zenon DEF Next
    <2>2. QED BY <1>2, <1>3, <1>4, <1>5, <1>6, <1>7, <2>1, Zenon

-----------------------------------------------------------------------------
(* Where paths lead.                                                       *)

\* The name after k names, below where they lead to.
NextReal(nodes, path, before, k) ==
    LET next == Append(before, path[k])
    IN  IF KindIn(nodes, next) = "link" THEN nodes[next].to ELSE next
IsRoute(nodes, path, n, f) ==
    f = [k \in 0..n |-> IF k = 0 THEN <<>> ELSE NextReal(nodes, path, f[k - 1], k)]

LEMMA RouteExists ==
    ASSUME NEW nodes, NEW path, NEW n \in Nat
    PROVE  \E f : IsRoute(nodes, path, n, f)
  <1> DEFINE S == {k \in 0..n : \E f : IsRoute(nodes, path, k, f)}
  <1>1. 0 \in S
    <2>1. IsRoute(nodes, path, 0, [k \in 0..0 |-> <<>>])
      BY DEF IsRoute
    <2>2. QED BY <2>1
  <1>2. ASSUME NEW k \in 0..(n - 1), k \in S PROVE k + 1 \in S
    <2>1. PICK g : IsRoute(nodes, path, k, g)
      BY <1>2
    <2> DEFINE f == [i \in 0..(k + 1) |-> IF i \in 0..k THEN g[i]
                                          ELSE NextReal(nodes, path, g[i - 1], i)]
               value(i) == IF i = 0 THEN <<>> ELSE NextReal(nodes, path, f[i - 1], i)
    <2>2. ASSUME NEW i \in 0..(k + 1) PROVE f[i] = value(i)
      <3>1. CASE i = 0
        <4>1. g[0] = <<>> /\ f[0] = g[0]
          BY <2>1 DEF IsRoute
        <4>2. QED BY <3>1, <4>1
      <3>2. CASE i = k + 1
        <4>1. k \in 0..k /\ k \in 0..(k + 1) /\ i \notin 0..k /\ i - 1 = k /\ i # 0
          BY <3>2
        <4>2. f[k] = g[k] /\ f[i] = NextReal(nodes, path, g[k], i)
          BY <3>2, <4>1
        <4> HIDE DEF f
        <4>3. QED BY <4>1, <4>2
      <3>3. CASE i \in 1..k
        <4>1. f[i] = g[i] /\ f[i - 1] = g[i - 1] /\ i # 0 /\ i \in 0..k
          BY <3>3
        <4>2. g[i] = NextReal(nodes, path, g[i - 1], i)
          BY <2>1, <4>1, Zenon DEF IsRoute
        <4> HIDE DEF f
        <4>3. QED BY <4>1, <4>2
      <3>4. QED BY <3>1, <3>2, <3>3
    <2>3. f = [i \in 0..(k + 1) |-> f[i]]
      OBVIOUS
    <2> HIDE DEF f
    <2>4. f = [i \in 0..(k + 1) |-> value(i)]
      BY <2>2, <2>3
    <2>5. IsRoute(nodes, path, k + 1, f)
      BY <2>4 DEF IsRoute
    <2>6. QED BY <2>5
  <1> HIDE DEF S
  <1>3. n \in S
    BY <1>1, <1>2, UpTo
  <1>4. QED BY <1>3 DEF S

LEMMA RouteFacts ==
    ASSUME NEW nodes, NEW path, IsList(path)
    PROVE  /\ Len(path) \in Nat /\ DOMAIN Route(nodes, path) = 0..Len(path)
           /\ Route(nodes, path)[0] = <<>>
           /\ \A k \in 1..Len(path) :
                  Route(nodes, path)[k] = NextReal(nodes, path, Route(nodes, path)[k - 1], k)
  <1> DEFINE n == Len(path)
             f == CHOOSE f : f = [k \in 0..n |->
                      IF k = 0 THEN <<>>
                      ELSE LET next == Append(f[k - 1], path[k])
                           IN  IF KindIn(nodes, next) = "link" THEN nodes[next].to ELSE next]
  <1>1. n \in Nat
    BY LenProperties DEF IsList
  <1>2. \E g : g = [k \in 0..n |->
                      IF k = 0 THEN <<>>
                      ELSE LET next == Append(g[k - 1], path[k])
                           IN  IF KindIn(nodes, next) = "link" THEN nodes[next].to ELSE next]
    <2> HIDE DEF n
    <2>1. \E g : IsRoute(nodes, path, n, g)
      BY <1>1, RouteExists
    <2>2. QED BY <2>1, Zenon DEF IsRoute, NextReal
  <1>3. f = [k \in 0..n |->
                IF k = 0 THEN <<>>
                ELSE LET next == Append(f[k - 1], path[k])
                     IN  IF KindIn(nodes, next) = "link" THEN nodes[next].to ELSE next]
    BY <1>2, Zenon
  <1>4. Route(nodes, path) = f
    BY Zenon DEF Route
  <1> HIDE DEF f
  <1>5. f = [k \in 0..n |-> IF k = 0 THEN <<>> ELSE NextReal(nodes, path, f[k - 1], k)]
    BY <1>3, Zenon DEF NextReal
  <1> HIDE DEF n
  <1>6. f[0] = <<>> /\ \A k \in 1..n : f[k] = NextReal(nodes, path, f[k - 1], k)
    <2>1. 0 \in 0..n /\ \A k \in 1..n : k \in 0..n /\ k # 0
      BY <1>1
    <2>2. QED BY <1>5, <2>1
  <1>7. DOMAIN f = 0..n
    BY <1>5
  <1>8. QED BY <1>1, <1>4, <1>6, <1>7 DEF n

\* A path begins where its beginning leads.
LEMMA RoutesBegin ==
    ASSUME NEW nodes, NEW path, IsList(path), NEW m \in 0..Len(path)
    PROVE  LET before == SubSeq(path, 1, m)
           IN  /\ \A k \in 0..m : Route(nodes, before)[k] = Route(nodes, path)[k]
               /\ RealIn(nodes, before) = Route(nodes, path)[m]
               /\ KindAt(nodes, before) =
                      IF \A k \in 1..(m - 1) : KindIn(nodes, Route(nodes, path)[k]) = "folder"
                      THEN KindIn(nodes, Route(nodes, path)[m]) ELSE "none"
  <1> DEFINE before == SubSeq(path, 1, m)
             f == Route(nodes, path)
             g == Route(nodes, before)
             S == {k \in 0..m : g[k] = f[k]}
  <1>1. /\ IsList(before) /\ Len(before) = m /\ \A i \in 1..m : before[i] = path[i]
        /\ Len(path) \in Nat /\ m \in Nat
    BY Beginnings, LenProperties DEF IsList
  <1>2. /\ f[0] = <<>> /\ \A k \in 1..Len(path) : f[k] = NextReal(nodes, path, f[k - 1], k)
        /\ g[0] = <<>> /\ \A k \in 1..m : g[k] = NextReal(nodes, before, g[k - 1], k)
    <2> HIDE DEF before
    <2>1. QED BY <1>1, RouteFacts
  <1> HIDE DEF before, f, g
  <1>3. 0 \in S
    BY <1>1, <1>2
  <1>4. ASSUME NEW k \in 0..(m - 1), k \in S PROVE k + 1 \in S
    <2>1. k + 1 \in 1..m /\ k + 1 \in 1..Len(path) /\ (k + 1) - 1 = k /\ k + 1 \in 0..m
      BY <1>1
    <2>2. f[k + 1] = NextReal(nodes, path, f[k], k + 1)
      BY <1>2, <2>1
    <2>3. g[k + 1] = NextReal(nodes, before, g[k], k + 1)
      BY <1>2, <2>1
    <2>4. before[k + 1] = path[k + 1] /\ g[k] = f[k]
      BY <1>1, <1>4, <2>1
    <2>5. g[k + 1] = f[k + 1]
      BY <2>2, <2>3, <2>4 DEF NextReal
    <2>6. QED BY <2>1, <2>5
  <1>5. \A k \in 0..m : k \in S
    <2> HIDE DEF S
    <2>1. QED BY <1>1, <1>3, <1>4, UpTo
  <1>6. \A k \in 0..m : g[k] = f[k]
    BY <1>5
  <1>7. RealIn(nodes, before) = f[m]
    BY <1>1, <1>6 DEF RealIn, g
  <1>8. KindAt(nodes, before) = IF \A k \in 1..(m - 1) : KindIn(nodes, f[k]) = "folder"
                                THEN KindIn(nodes, f[m]) ELSE "none"
    <2>1. KindAt(nodes, before) = IF \A k \in 1..(m - 1) : KindIn(nodes, g[k]) = "folder"
                                  THEN KindIn(nodes, g[m]) ELSE "none"
      BY <1>1 DEF KindAt, g
    <2>2. m \in 0..m /\ \A k \in 1..(m - 1) : k \in 0..m
      BY <1>1
    <2>3. QED BY <1>6, <2>1, <2>2
  <1>9. QED BY <1>6, <1>7, <1>8 DEF before, f, g

\* Every real path is one.
LEMMA RoutesAreLists ==
    ASSUME NEW nodes, AreNodes(nodes), NEW path, IsList(path)
    PROVE  \A k \in 0..Len(path) : IsList(Route(nodes, path)[k])
  <1> DEFINE n == Len(path)
             f == Route(nodes, path)
             S == {k \in 0..n : IsList(f[k])}
  <1>1. n \in Nat /\ f[0] = <<>> /\ \A k \in 1..n : f[k] = NextReal(nodes, path, f[k - 1], k)
    BY RouteFacts
  <1> HIDE DEF n, f
  <1>2. 0 \in S
    BY <1>1, NoNames
  <1>3. ASSUME NEW k \in 0..(n - 1), k \in S PROVE k + 1 \in S
    <2>1. k + 1 \in 1..n /\ (k + 1) - 1 = k /\ k + 1 \in 0..n
      BY <1>1
    <2>2. f[k + 1] = NextReal(nodes, path, f[k], k + 1)
      BY <1>1, <2>1
    <2> DEFINE next == Append(f[k], path[k + 1])
    <2>3. IsList(next)
      BY <1>3, PathFacts
    <2>4. f[k + 1] = IF KindIn(nodes, next) = "link" THEN nodes[next].to ELSE next
      BY <2>2 DEF NextReal
    <2> HIDE DEF next
    <2>5. KindIn(nodes, next) = "link" => IsList(nodes[next].to)
      BY DEF KindIn, AreNodes, IsNode
    <2>6. IsList(f[k + 1])
      BY <2>3, <2>4, <2>5
    <2>7. QED BY <2>1, <2>6
  <1>4. \A k \in 0..n : k \in S
    <2> HIDE DEF S
    <2>1. QED BY <1>1, <1>2, <1>3, UpTo
  <1>5. QED BY <1>4 DEF n, f

\* A path below another.
LEMMA PathsJoin ==
    ASSUME NEW base, IsList(base), NEW rel, IsList(rel)
    PROVE  /\ IsList(base \o rel) /\ Len(base \o rel) = Len(base) + Len(rel)
           /\ Len(base) \in Nat /\ Len(rel) \in Nat
           /\ \A k \in 1..Len(rel) : (base \o rel)[Len(base) + k] = rel[k]
           /\ \A k \in 0..Len(rel) :
                  SubSeq(base \o rel, 1, Len(base) + k) = base \o SubSeq(rel, 1, k)
  <1> DEFINE path == base \o rel
             S == Elements(base) \cup Elements(rel)
             b == Len(base)
             n == Len(rel)
  <1>1. IsList(path)
    BY ListsJoin
  <1>2. base \in Seq(S) /\ rel \in Seq(S)
    BY SeqMonotonic DEF IsList
  <1>3. /\ b \in Nat /\ n \in Nat /\ Len(path) = b + n
        /\ \A i \in 1..(b + n) : path[i] = IF i <= b THEN base[i] ELSE rel[i - b]
    BY <1>2, ConcatProperties, LenProperties
  <1>4. \A k \in 1..n : path[b + k] = rel[k]
    <2>1. \A k \in 1..n : b + k \in 1..(b + n) /\ ~(b + k <= b) /\ (b + k) - b = k
      BY <1>3
    <2>2. QED BY <1>3, <2>1
  <1>5. ASSUME NEW k \in 0..n PROVE SubSeq(path, 1, b + k) = base \o SubSeq(rel, 1, k)
    <2> DEFINE s == SubSeq(path, 1, b + k)
               r == SubSeq(rel, 1, k)
               t == base \o r
    <2>1. b + k \in 0..Len(path)
      BY <1>3
    <2>2. IsList(s) /\ Len(s) = b + k /\ \A i \in 1..(b + k) : s[i] = path[i]
      BY <1>1, <2>1, Beginnings
    <2>3. IsList(r) /\ Len(r) = k /\ \A i \in 1..k : r[i] = rel[i]
      BY Beginnings
    <2> HIDE DEF r, path
    <2>4. /\ t \in Seq(Elements(base) \cup Elements(r)) /\ Len(t) = b + k
          /\ \A i \in 1..(b + k) : t[i] = IF i <= b THEN base[i] ELSE r[i - b]
      <3>1. base \in Seq(Elements(base) \cup Elements(r)) /\ r \in Seq(Elements(base) \cup Elements(r))
        BY <2>3, SeqMonotonic DEF IsList
      <3>2. QED BY <2>3, <3>1, ConcatProperties
    <2> HIDE DEF s, t
    <2>5. \A i \in 1..(b + k) : s[i] = t[i]
      <3>1. ASSUME NEW i \in 1..(b + k) PROVE s[i] = t[i]
        <4>1. i \in 1..(b + n) /\ (~(i <= b) => i - b \in 1..k)
          BY <1>3
        <4>2. QED BY <1>3, <2>2, <2>3, <2>4, <4>1
      <3>2. QED BY <3>1
    <2>6. s = [i \in 1..(b + k) |-> s[i]] /\ t = [i \in 1..(b + k) |-> t[i]]
      BY <2>2, <2>4, LenProperties DEF IsList
    <2>7. s = t
      BY <2>5, <2>6
    <2>8. QED BY <2>7 DEF s, t, r, path
  <1>6. QED BY <1>1, <1>3, <1>4, <1>5
LEMMA JoinAppend ==
    ASSUME NEW base, IsList(base), NEW rel, IsList(rel), NEW name, NEW longer,
           longer = Append(rel, name)
    PROVE  base \o longer = Append(base \o rel, name)
  <1> DEFINE path == base \o rel
             T == Elements(base) \cup Elements(rel) \cup {name}
  <1>1. base \in Seq(T) /\ rel \in Seq(T) /\ <<name>> \in Seq(T) /\ path \in Seq(T)
    <2>1. base \in Seq(T) /\ rel \in Seq(T)
      BY SeqMonotonic DEF IsList
    <2>2. <<name>> \in Seq(T)
      OBVIOUS
    <2> HIDE DEF T
    <2>3. QED BY <2>1, <2>2, ConcatProperties
  <1>2. Append(rel, name) = rel \o <<name>> /\ Append(path, name) = path \o <<name>>
    <2> HIDE DEF T, path
    <2>1. name \in T
      BY DEF T
    <2>2. QED BY <1>1, <2>1, AppendIsConcat
  <1> HIDE DEF T
  <1>3. base \o (rel \o <<name>>) = (base \o rel) \o <<name>>
    BY <1>1, ConcatAssociative
  <1>4. QED BY <1>2, <1>3


\* A middle of a path.
LEMMA Middles ==
    ASSUME NEW path, IsList(path), NEW d \in Nat, NEW k \in Nat, d <= k, k <= Len(path)
    PROVE  /\ IsList(SubSeq(path, d + 1, k)) /\ Len(SubSeq(path, d + 1, k)) = k - d
           /\ SubSeq(path, k + 1, k) = <<>>
           /\ k < Len(path) => SubSeq(path, d + 1, k + 1)
                                   = Append(SubSeq(path, d + 1, k), path[k + 1])
           /\ \A m \in k..Len(path) :
                  SubSeq(SubSeq(path, 1, m), d + 1, k) = SubSeq(path, d + 1, k)
  <1> DEFINE s == SubSeq(path, d + 1, k)
             S == Elements(path)
  <1>1. Len(path) \in Nat /\ DOMAIN path = 1..Len(path)
    BY LenProperties DEF IsList
  <1>2. ASSUME NEW e \in Nat, e <= Len(path)
        PROVE  LET r == SubSeq(path, d + 1, e)
               IN  /\ r \in Seq(S) /\ Len(r) = IF d + 1 <= e THEN e - d ELSE 0
                   /\ \A i \in 1..(e - d) : r[i] = path[d + i]
    <2> DEFINE r == SubSeq(path, d + 1, e)
    <2>1. \A i \in (d + 1)..e : path[i] \in S
      BY <1>1, <1>2 DEF Elements
    <2> HIDE DEF S
    <2>2. /\ r \in Seq(S) /\ Len(r) = IF d + 1 <= e THEN e - (d + 1) + 1 ELSE 0
          /\ \A i \in 1..(e - (d + 1) + 1) : r[i] = path[(d + 1) + i - 1]
      BY <1>1, <1>2, <2>1, SubSeqProperties
    <2> HIDE DEF r
    <2>3. /\ e - (d + 1) + 1 = e - d /\ \A i \in 1..(e - d) : (d + 1) + i - 1 = d + i
      BY <1>2
    <2>4. QED BY <2>2, <2>3 DEF r
  <1>3. /\ s \in Seq(S) /\ Len(s) = k - d /\ \A i \in 1..(k - d) : s[i] = path[d + i]
    BY <1>2
  <1>4. IsList(s)
    <2> HIDE DEF s
    <2>1. k - d \in Nat /\ s = [i \in 1..(k - d) |-> s[i]] /\ DOMAIN s = 1..(k - d)
      BY <1>3, LenProperties
    <2>2. s \in [1..(k - d) -> Elements(s)]
      BY <2>1 DEF Elements
    <2>3. s \in UNION {[1..n -> Elements(s)] : n \in Nat}
      BY <2>1, <2>2
    <2>4. QED BY <2>3, SeqDef, Zenon DEF IsList
  <1>5. SubSeq(path, k + 1, k) = <<>>
    BY SubSeqEmpty
  <1>6. ASSUME k < Len(path) PROVE SubSeq(path, d + 1, k + 1) = Append(s, path[k + 1])
    <2> DEFINE r == SubSeq(path, d + 1, k + 1)
               a == Append(s, path[k + 1])
    <2>1. k + 1 \in Nat /\ k + 1 <= Len(path)
      BY <1>1, <1>6
    <2>2. /\ r \in Seq(S) /\ Len(r) = (k + 1) - d
          /\ \A i \in 1..((k + 1) - d) : r[i] = path[d + i]
      BY <1>2, <2>1
    <2> HIDE DEF s, r
    <2>3. /\ IsList(a) /\ Len(a) = (k - d) + 1 /\ a[(k - d) + 1] = path[k + 1]
          /\ \A i \in 1..(k - d) : a[i] = s[i]
      BY <1>3, <1>4, PathFacts
    <2> HIDE DEF a, S
    <2>4. (k - d) + 1 = (k + 1) - d /\ d + ((k - d) + 1) = k + 1 /\ k - d \in Nat
      OBVIOUS
    <2>5. \A i \in 1..((k + 1) - d) : r[i] = a[i]
      <3>1. ASSUME NEW i \in 1..((k + 1) - d) PROVE r[i] = a[i]
        <4>1. i \in 1..(k - d) \/ i = (k - d) + 1
          BY <2>4
        <4>2. QED BY <1>3, <2>2, <2>3, <2>4, <4>1
      <3>2. QED BY <3>1
    <2>6. r = [i \in 1..((k + 1) - d) |-> r[i]] /\ a = [i \in 1..((k + 1) - d) |-> a[i]]
      BY <2>2, <2>3, <2>4, LenProperties DEF IsList
    <2>7. r = a
      BY <2>5, <2>6
    <2>8. QED BY <2>7 DEF r, a, s
  <1>7. ASSUME NEW m \in k..Len(path)
        PROVE  SubSeq(SubSeq(path, 1, m), d + 1, k) = s
    <2> DEFINE b == SubSeq(path, 1, m)
               r == SubSeq(b, d + 1, k)
    <2>1. /\ m \in 0..Len(path) /\ IsList(b) /\ Len(b) = m /\ \A i \in 1..m : b[i] = path[i]
      <3>1. m \in 0..Len(path)
        BY <1>1
      <3>2. QED BY <3>1, Beginnings
    <2> HIDE DEF b
    <2> DEFINE B == Elements(b)
    <2>2. \A i \in (d + 1)..k : b[i] \in B
      BY <2>1, LenProperties DEF Elements, IsList
    <2> HIDE DEF B
    <2>3. /\ r \in Seq(B) /\ Len(r) = IF d + 1 <= k THEN k - (d + 1) + 1 ELSE 0
          /\ \A i \in 1..(k - (d + 1) + 1) : r[i] = b[(d + 1) + i - 1]
      BY <2>2, SubSeqProperties
    <2> HIDE DEF r, s, S
    <2>4. Len(r) = k - d
      BY <2>3
    <2>5. \A i \in 1..(k - d) : r[i] = s[i]
      <3>1. ASSUME NEW i \in 1..(k - d) PROVE r[i] = s[i]
        <4>1. /\ i \in 1..(k - (d + 1) + 1) /\ (d + 1) + i - 1 = d + i /\ d + i \in 1..m
          BY <1>1
        <4>2. QED BY <1>3, <2>1, <2>3, <4>1
      <3>2. QED BY <3>1
    <2>6. r = [i \in 1..(k - d) |-> r[i]] /\ s = [i \in 1..(k - d) |-> s[i]]
      BY <1>3, <2>3, <2>4, LenProperties
    <2>7. r = s
      BY <2>5, <2>6
    <2>8. QED BY <2>7 DEF r, b
  <1>8. QED BY <1>3, <1>4, <1>5, <1>6, <1>7

-----------------------------------------------------------------------------
(* The trail of a task.                                                    *)

\* The real folders of these parts are the first ones of the way.
IsPart(x, part) == IsInside(x, part.from) /\ IsInside(part.to, x)
Covers(parts, reals, k) ==
    \A x : IsList(x) =>
        ((\E part \in parts : IsPart(x, part)) <=> (\E j \in 0..k : x = reals[j]))

\* The trail of a task that came down a way, `reals[k]' after each of the names.
Trail(t, rel, reals, k) ==
    /\ t.depth \in 0..k
    /\ t.depth # 0 => t.real = reals[t.depth]
    /\ reals[k] = reals[t.depth] \o SubSeq(rel, t.depth + 1, k)
    /\ Covers(t.passed \cup {[from |-> reals[t.depth], to |-> reals[k]]}, reals, k)

\* What is inside what.
LEMMA InsideFacts ==
    ASSUME NEW path, IsList(path), NEW x, IsList(x)
    PROVE  /\ \A name : IsInside(Append(path, name), x) =>
                            x = Append(path, name) \/ IsInside(path, x)
           /\ \A name : IsInside(Append(path, name), path)
           /\ IsInside(path, x) /\ IsInside(x, path) => x = path
           /\ \A name : Dirname(Append(path, name)) = path /\ Last(Append(path, name)) = name
  <1>1. /\ Len(path) \in Nat /\ SubSeq(path, 1, Len(path)) = path
        /\ Len(x) \in Nat /\ SubSeq(x, 1, Len(x)) = x
    BY LenProperties, SubSeqFull DEF IsList
  <1>2. IsInside(path, x) /\ IsInside(x, path) => x = path
    BY <1>1 DEF IsInside, IsPrefix
  <1>3. ASSUME NEW name
        PROVE  /\ IsInside(Append(path, name), x) => x = Append(path, name) \/ IsInside(path, x)
               /\ IsInside(Append(path, name), path)
               /\ Dirname(Append(path, name)) = path /\ Last(Append(path, name)) = name
    <2> DEFINE longer == Append(path, name)
    <2>1. /\ IsList(longer) /\ Len(longer) = Len(path) + 1 /\ longer[Len(path) + 1] = name
          /\ \A k \in 0..Len(path) : SubSeq(longer, 1, k) = SubSeq(path, 1, k)
      BY PathFacts
    <2>2. SubSeq(longer, 1, Len(longer)) = longer
      BY <2>1, SubSeqFull DEF IsList
    <2> HIDE DEF longer
    <2>3. ASSUME IsInside(longer, x), ~IsInside(path, x) PROVE x = longer
      <3>1. Len(x) <= Len(longer) /\ SubSeq(x, 1, Len(x)) = SubSeq(longer, 1, Len(x))
        BY <2>3 DEF IsInside, IsPrefix
      <3>2. Len(x) = Len(longer) \/ Len(x) \in 0..Len(path)
        <4>1. Len(x) \in Nat /\ Len(path) \in Nat
          BY <1>1
        <4>2. Len(longer) = Len(path) + 1 /\ Len(x) <= Len(longer)
          BY <2>1, <3>1
        <4>3. QED BY ONLY <4>1, <4>2
      <3>3. Len(x) \notin 0..Len(path)
        <4>1. ASSUME Len(x) \in 0..Len(path) PROVE FALSE
          <5>1. SubSeq(longer, 1, Len(x)) = SubSeq(path, 1, Len(x)) /\ Len(x) <= Len(path)
            BY <1>1, <2>1, <4>1
          <5>2. QED BY <2>3, <3>1, <5>1 DEF IsInside, IsPrefix
        <4>2. QED BY <4>1
      <3>4. QED BY <1>1, <2>2, <3>1, <3>2, <3>3
    <2>4. IsInside(longer, path)
      BY <1>1, <2>1 DEF IsInside, IsPrefix
    <2>5. Dirname(longer) = path
      <3>1. Len(longer) - 1 = Len(path) /\ Len(path) \in 0..Len(path)
        BY <1>1, <2>1
      <3>2. QED BY <1>1, <2>1, <3>1 DEF Dirname
    <2>6. Last(longer) = name
      BY <2>1 DEF Last
    <2>7. QED BY <2>3, <2>4, <2>5, <2>6 DEF longer
  <1>4. QED BY <1>2, <1>3

\* A path is inside itself, and what is joined to it inside it.
LEMMA InsideJoin ==
    ASSUME NEW base, IsList(base), NEW rel, IsList(rel)
    PROVE  IsInside(base, base) /\ IsInside(base \o rel, base)
  <1>1. /\ Len(base) \in Nat /\ Len(rel) \in Nat /\ Len(base \o rel) = Len(base) + Len(rel)
        /\ SubSeq(base, 1, Len(base)) = base
    BY PathsJoin, SubSeqFull DEF IsList
  <1>2. SubSeq(base \o rel, 1, Len(base) + 0) = base \o SubSeq(rel, 1, 0)
    BY <1>1, PathsJoin
  <1>3. SubSeq(rel, 1, 0) = <<>> /\ base \o <<>> = base /\ Len(base) + 0 = Len(base)
    BY <1>1, Beginnings, ConcatEmptySeq DEF IsList
  <1>4. QED BY <1>1, <1>2, <1>3 DEF IsInside, IsPrefix

\* It begins at the base.
LEMMA TrailBegins ==
    ASSUME NEW t, NEW rel, IsList(rel), NEW reals, IsList(reals[0]), t.depth = 0, t.passed = {}
    PROVE  Trail(t, rel, reals, 0)
  <1>1. SubSeq(rel, 1, 0) = <<>> /\ reals[0] \o <<>> = reals[0]
    BY Beginnings, ConcatEmptySeq DEF IsList
  <1>2. \A x : IsList(x) => (IsInside(x, reals[0]) /\ IsInside(reals[0], x) <=> x = reals[0])
    BY InsideFacts, InsideJoin
  <1>3. Covers({[from |-> reals[0], to |-> reals[0]]}, reals, 0)
    <2>1. \A j : j \in 0..0 <=> j = 0
      OBVIOUS
    <2>2. QED BY <1>2, <2>1 DEF Covers, IsPart
  <1>4. t.passed \cup {[from |-> reals[0], to |-> reals[0]]} = {[from |-> reals[0], to |-> reals[0]]}
    OBVIOUS
  <1>5. 0 + 1 = 1 /\ 0 \in 0..0
    OBVIOUS
  <1>6. QED BY <1>1, <1>3, <1>4, <1>5 DEF Trail

\* It goes on with a folder that is no link.
LEMMA TrailGoesOn ==
    ASSUME NEW t, NEW e, NEW rel, IsList(rel), NEW reals, NEW k \in Nat, k < Len(rel),
           \A j \in 0..k : IsList(reals[j]), Trail(t, rel, reals, k),
           reals[k + 1] = Append(reals[k], rel[k + 1]),
           e.depth = t.depth, e.real = t.real, e.passed = t.passed
    PROVE  Trail(e, rel, reals, k + 1)
  <1> DEFINE d == t.depth
             name == rel[k + 1]
             here == [from |-> reals[d], to |-> reals[k]]
             next == [from |-> reals[d], to |-> reals[k + 1]]
  <1>1. /\ d \in 0..k /\ d \in Nat /\ d <= k /\ k <= Len(rel) /\ Len(rel) \in Nat /\ k \in 0..k
        /\ d \in 0..(k + 1)
    <2>1. d \in 0..k
      BY DEF Trail
    <2>2. Len(rel) \in Nat
      BY LenProperties DEF IsList
    <2>3. QED BY <2>1, <2>2
  <1>2. /\ IsList(SubSeq(rel, d + 1, k))
        /\ SubSeq(rel, d + 1, k + 1) = Append(SubSeq(rel, d + 1, k), name)
    BY <1>1, Middles
  <1>3. IsList(reals[d]) /\ IsList(reals[k])
    BY <1>1
  <1>4. reals[k + 1] = reals[d] \o SubSeq(rel, d + 1, k + 1)
    <2> DEFINE mid == SubSeq(rel, d + 1, k)
               longer == SubSeq(rel, d + 1, k + 1)
               from == reals[d]
    <2>1. reals[k] = from \o mid /\ reals[k + 1] = Append(reals[k], name)
      BY DEF Trail
    <2>2. longer = Append(mid, name) /\ IsList(mid) /\ IsList(from)
      BY <1>2, <1>3
    <2> HIDE DEF mid, longer, name, from
    <2>3. from \o longer = Append(from \o mid, name)
      BY <2>2, JoinAppend
    <2>4. QED BY <2>1, <2>3 DEF from, longer
  <1>5. IsInside(reals[k], reals[d])
    BY <1>2, <1>3, InsideJoin DEF Trail
  <1>6. /\ IsList(reals[k + 1]) /\ IsInside(reals[k + 1], reals[k + 1])
        /\ IsInside(reals[k + 1], reals[d])
    <2>1. IsList(reals[k + 1])
      BY <1>3, PathFacts
    <2>2. IsList(SubSeq(rel, d + 1, k + 1))
      <3>1. k + 1 \in Nat /\ d <= k + 1 /\ k + 1 <= Len(rel)
        BY <1>1
      <3>2. QED BY <1>1, <3>1, Middles
    <2>3. QED BY <1>3, <1>4, <2>1, <2>2, InsideJoin
  <1>7. ASSUME NEW x, IsList(x)
        PROVE  IsPart(x, next) <=> IsPart(x, here) \/ x = reals[k + 1]
    <2>1. IsPart(x, next) <=> IsInside(x, reals[d]) /\ IsInside(reals[k + 1], x)
      BY DEF IsPart
    <2>2. IsPart(x, here) <=> IsInside(x, reals[d]) /\ IsInside(reals[k], x)
      BY DEF IsPart
    <2>3. IsInside(Append(reals[k], name), x) => x = Append(reals[k], name) \/ IsInside(reals[k], x)
      BY <1>3, <1>7, InsideFacts
    <2>4. IsInside(reals[k], x) => IsInside(Append(reals[k], name), x)
      <3>1. ASSUME IsInside(reals[k], x) PROVE IsInside(Append(reals[k], name), x)
        <4>1. Len(x) \in Nat /\ Len(reals[k]) \in Nat
          BY <1>3, <1>7, LenProperties DEF IsList
        <4>2. Len(x) <= Len(reals[k]) /\ SubSeq(x, 1, Len(x)) = SubSeq(reals[k], 1, Len(x))
          BY <3>1 DEF IsInside, IsPrefix
        <4>3. /\ Len(Append(reals[k], name)) = Len(reals[k]) + 1
              /\ SubSeq(Append(reals[k], name), 1, Len(x)) = SubSeq(reals[k], 1, Len(x))
          <5>1. Len(x) \in 0..Len(reals[k])
            BY <4>1, <4>2
          <5>2. QED BY <1>3, <5>1, PathFacts
        <4>4. Len(x) <= Len(Append(reals[k], name))
          BY <4>1, <4>2, <4>3
        <4>5. QED BY <4>2, <4>3, <4>4 DEF IsInside, IsPrefix
      <3>2. QED BY <3>1
    <2>5. QED BY <1>6, <2>1, <2>2, <2>3, <2>4
  <1>8. Covers(t.passed \cup {here}, reals, k)
    BY DEF Trail
  <1> HIDE DEF here, next
  <1>9. Covers(e.passed \cup {next}, reals, k + 1)
    <2> SUFFICES ASSUME NEW x, IsList(x)
                 PROVE  (\E part \in e.passed \cup {next} : IsPart(x, part))
                            <=> (\E j \in 0..(k + 1) : x = reals[j])
      BY DEF Covers
    <2>1. (\E part \in t.passed \cup {here} : IsPart(x, part)) <=> (\E j \in 0..k : x = reals[j])
      BY <1>8 DEF Covers
    <2>2. (\E part \in e.passed \cup {next} : IsPart(x, part))
              <=> (\E part \in t.passed \cup {here} : IsPart(x, part)) \/ x = reals[k + 1]
      BY <1>7
    <2>3. \A j : j \in 0..(k + 1) <=> j \in 0..k \/ j = k + 1
      OBVIOUS
    <2>4. QED BY <2>1, <2>2, <2>3
  <1>10. e.depth # 0 => e.real = reals[e.depth]
    BY DEF Trail
  <1>11. QED BY <1>1, <1>4, <1>9, <1>10 DEF Trail, next

\* The parts that were passed before a link are what the walk computes of them.
LEMMA TrailIsPassed ==
    ASSUME NEW i, NEW t, NEW rel, IsList(rel), NEW reals, NEW k \in 1..Len(rel),
           Trail(t, rel, reals, k - 1), t.rel = SubSeq(rel, 1, k),
           t.depth = 0 => Walk(i).rootReal = reals[0]
    PROVE  Passed(i, t) = t.passed \cup {[from |-> reals[t.depth], to |-> reals[k - 1]]}
  <1> DEFINE d == t.depth
  <1>1. /\ d \in 0..(k - 1) /\ k - 1 \in Nat /\ d \in Nat /\ d <= k - 1 /\ k - 1 <= Len(rel)
        /\ k \in (k - 1)..Len(rel) /\ k \in 0..Len(rel)
    BY LenProperties DEF Trail, IsList
  <1>2. Len(t.rel) = k
    BY <1>1, Beginnings
  <1>3. SubSeq(SubSeq(rel, 1, k), d + 1, k - 1) = SubSeq(rel, d + 1, k - 1)
    BY <1>1, Middles
  <1>4. (IF d = 0 THEN Walk(i).rootReal ELSE t.real) = reals[d]
    BY DEF Trail
  <1>5. reals[d] \o SubSeq(t.rel, d + 1, Len(t.rel) - 1) = reals[k - 1]
    BY <1>2, <1>3 DEF Trail
  <1>6. QED BY <1>4, <1>5 DEF Passed

\* A folder is on the trail if the way came through it.
LEMMA TrailKnows ==
    ASSUME NEW t, NEW rel, NEW reals, NEW k, Trail(t, rel, reals, k), NEW x, IsList(x)
    PROVE  IsOnPath(t.passed \cup {[from |-> reals[t.depth], to |-> reals[k]]}, x)
               <=> (\E j \in 0..k : x = reals[j])
  <1>1. QED BY DEF Trail, Covers, IsPart, IsOnPath

\* Behind a link the trail begins anew, and knows what was passed.
LEMMA TrailBehind ==
    ASSUME NEW t, NEW behind, NEW rel, IsList(rel), NEW reals, NEW k \in 1..Len(rel),
           IsList(reals[k]), Trail(t, rel, reals, k - 1),
           behind.depth = k, behind.real = reals[k],
           behind.passed = t.passed \cup {[from |-> reals[t.depth], to |-> reals[k - 1]]}
    PROVE  Trail(behind, rel, reals, k)
  <1> DEFINE d == t.depth
             here == [from |-> reals[k], to |-> reals[k]]
             last == [from |-> reals[d], to |-> reals[k - 1]]
  <1>1. Len(rel) \in Nat /\ k \in Nat /\ k <= Len(rel) /\ k <= k /\ k \in 0..k
    BY LenProperties DEF IsList
  <1>2. reals[k] = reals[k] \o SubSeq(rel, k + 1, k)
    <2>1. SubSeq(rel, k + 1, k) = <<>>
      BY <1>1, Middles
    <2>2. reals[k] \o <<>> = reals[k]
      BY ConcatEmptySeq DEF IsList
    <2>3. QED BY <2>1, <2>2
  <1>3. \A x : IsList(x) => (IsPart(x, here) <=> x = reals[k])
    BY InsideFacts, InsideJoin DEF IsPart
  <1>4. Covers(t.passed \cup {last}, reals, k - 1)
    BY DEF Trail
  <1> HIDE DEF here, last
  <1>5. Covers(behind.passed \cup {here}, reals, k)
    <2> SUFFICES ASSUME NEW x, IsList(x)
                 PROVE  (\E part \in behind.passed \cup {here} : IsPart(x, part))
                            <=> (\E j \in 0..k : x = reals[j])
      BY DEF Covers
    <2>1. (\E part \in t.passed \cup {last} : IsPart(x, part))
              <=> (\E j \in 0..(k - 1) : x = reals[j])
      BY <1>4 DEF Covers
    <2>2. behind.passed = t.passed \cup {last}
      BY DEF last
    <2>3. \A j : j \in 0..k <=> j \in 0..(k - 1) \/ j = k
      BY <1>1
    <2>4. QED BY <1>3, <2>1, <2>2, <2>3
  <1>6. QED BY <1>1, <1>2, <1>5 DEF Trail, here

-----------------------------------------------------------------------------
(* What a discovery does not miss.                                         *)

\* A way down from a base: the real folder or file after each of its names, and
\* which of them are links.
IsWay(nodes, base, rel, reals, links) ==
    /\ IsList(base) /\ IsList(rel) /\ Len(rel) > 0 /\ links \subseteq 1..Len(rel)
    /\ \A k \in 0..Len(rel) :
           /\ IsList(reals[k]) /\ RealIn(nodes, base \o SubSeq(rel, 1, k)) = reals[k]
           /\ KindAt(nodes, base \o SubSeq(rel, 1, k))
                  = IF k = Len(rel) THEN "file" ELSE "folder"
    /\ \A k \in 1..Len(rel) :
           IF k \in links THEN KindIn(nodes, Append(reals[k - 1], rel[k])) = "link"
           ELSE reals[k] = Append(reals[k - 1], rel[k])

\* It lies open, a pattern names it, and no link on it leads to where it was.
IsNamedWay(nodes, project, s, base, rel, reals, links) ==
    /\ IsWay(nodes, base, rel, reals, links)
    /\ LiesOpen(project, s, base, rel) /\ ~ExcludesFile(s.exclude, rel)
    /\ \A k \in links \ {Len(rel)} : \A j \in 0..(k - 1) : reals[k] # reals[j]
    /\ Names(s.include, rel, links \ {Len(rel)})
IsSteadyWay(trees, project, s, base, rel, reals, links) ==
    \A nodes \in trees : IsNamedWay(nodes, project, s, base, rel, reals, links)

\* A discovery has every file that is at the end of such a way, if the way was
\* the same throughout.
IsComplete(d) ==
    \A i \in DOMAIN d.project.sources :
        LET s == d.project.sources[i]
            locales == LocalesOf(d.project, s)
        IN  s.filePath = None =>
                \A a \in 1..Len(locales) : \A rel, reals, links :
                    IsSteadyWay(d.seen, d.project, s, BaseOf(s, locales[a]), rel, reals, links)
                        => \E f \in d.files[i] : f.locale = locales[a] /\ f.rel = rel
WaysAreFound == discovered # None /\ discovered.errors = {} => IsComplete(discovered)

StageAt(s, rel, links, k) == StageOf(s.include, SubSeq(rel, 1, k), links \cap 1..k)

\* A task that is to read a folder of the way, or to follow a link of it.
IsAtFolder(s, t, rel, reals, links, k) ==
    /\ t.kind = "folder" /\ t.rel = SubSeq(rel, 1, k)
    /\ t.stage = StageAt(s, rel, links, k)
    /\ Trail(t, rel, reals, k)
IsAtLink(s, t, rel, reals, links, k) ==
    /\ t.kind \in {"link", "target", "enter"} /\ k \in links /\ t.rel = SubSeq(rel, 1, k)
    /\ k < Len(rel) => t.stage = StageAt(s, rel, links, k)
    /\ k = Len(rel) => t.kind = "link" /\ t.matches
    /\ t.kind = "enter" => t.target = reals[k]
    /\ Trail(t, rel, reals, k - 1)
IsAt(s, t, rel, reals, links) ==
    \/ \E k \in 0..(Len(rel) - 1) : IsAtFolder(s, t, rel, reals, links, k)
    \/ \E k \in 1..Len(rel) : IsAtLink(s, t, rel, reals, links, k)
IsAhead(s, tasks, rel, reals, links) == \E t \in tasks : IsAt(s, t, rel, reals, links)

\* What a walk has of a way below its locale at a: the file, when it is through
\* with the locale; and while it lists it, the file or a task on the way to it.
Has(s, w, rel, reals, links) ==
    /\ rel \in w.found \/ IsAhead(s, w.tasks, rel, reals, links)
    /\ w.rootReal \in {None, reals[0]}
Holds(s, locale, w, a, rel, reals, links) ==
    /\ w.pc = "done" \/ (w.pc # "wait" /\ a < w.at) =>
           \E f \in w.files : f.locale = locale /\ f.rel = rel
    /\ w.pc = "list" /\ a = w.at => Has(s, w, rel, reals, links)
\* A walk without errors has every way that was the same throughout.
IsHeld(project, s, w, seen) ==
    /\ w.at \in Nat
    /\ s.filePath = None /\ w.errors = {} =>
           \A a \in 1..Len(LocalesOf(project, s)) : \A rel, reals, links :
               LET locale == LocalesOf(project, s)[a]
               IN  IsSteadyWay(seen, project, s, BaseOf(s, locale), rel, reals, links) =>
                       Holds(s, locale, w, a, rel, reals, links)

HeldInv ==
    /\ discovery # None =>
           /\ {"project", "walks", "seen"} \subseteq DOMAIN discovery /\ tree \in discovery.seen
           /\ \A i \in DOMAIN discovery.project.sources :
                  IsHeld(discovery.project, discovery.project.sources[i], discovery.walks[i],
                         discovery.seen)
    /\ WaysAreFound

\* The stages on the way of a file that patterns name.
AreStages(s, rel, links) ==
    /\ StageAt(s, rel, links, 0) = Start(s.include)
    /\ \A k \in 0..(Len(rel) - 1) :
           /\ StageAt(s, rel, links, k) # {}
           /\ k + 1 = Len(rel) => FileMatches(StageAt(s, rel, links, k), rel[k + 1])
           /\ StageAt(s, rel, links, k + 1) =
                  IF k + 1 \in links THEN Follow(StageAt(s, rel, links, k), rel[k + 1])
                  ELSE Enter(StageAt(s, rel, links, k), rel[k + 1])
LEMMA NamedStages ==
    ASSUME NEW nodes, NEW project, NEW s, NEW base, NEW rel, NEW reals, NEW links,
           ArePatterns(s.include), IsNamedWay(nodes, project, s, base, rel, reals, links)
    PROVE  AreStages(s, rel, links)
  <1> DEFINE n == Len(rel)
             stages == [k \in 0..n |-> StageAt(s, rel, links, k)]
             few == links \ {n}
  <1>0. /\ IsList(rel) /\ Len(rel) > 0 /\ links \subseteq 1..n
        /\ Names(s.include, rel, few)
    BY DEF IsNamedWay, IsWay
  <1>1. n \in Nat \ {0} /\ n - 1 \in Nat /\ few \subseteq 1..(n - 1)
    <2>1. n \in Nat \ {0} /\ links \subseteq 1..n
      BY <1>0, LenProperties DEF IsList
    <2>2. \A k \in 1..n : k # n => k \in 1..(n - 1)
      BY <2>1
    <2> HIDE DEF n
    <2>3. QED BY <2>1, <2>2
  <1>2. /\ SubSeq(rel, 1, 0) = <<>>
        /\ \A k \in 0..n : IsList(SubSeq(rel, 1, k)) /\ Len(SubSeq(rel, 1, k)) = k
        /\ \A k \in 1..n : SubSeq(rel, 1, k) = Append(SubSeq(rel, 1, k - 1), rel[k])
    BY <1>0, Beginnings
  <1>3. StageAt(s, rel, links, 0) = Start(s.include)
    <2>1. links \cap 1..0 = {}
      OBVIOUS
    <2>2. Start(s.include) = StageOf(s.include, <<>>, {})
      BY StageStart
    <2>3. QED BY <1>2, <2>1, <2>2 DEF StageAt
  <1>4. \A b : IsList(b) => \A l : AreLinks(l, b) => \A name :
            /\ Enter(StageOf(s.include, b, l), name) = StageOf(s.include, Append(b, name), l)
            /\ Follow(StageOf(s.include, b, l), name)
                   = StageOf(s.include, Append(b, name), l \cup {Len(b) + 1})
    BY StageStep, Zenon
  <1>5. ASSUME NEW k \in 0..(n - 1)
        PROVE  StageAt(s, rel, links, k + 1) =
                   IF k + 1 \in links THEN Follow(StageAt(s, rel, links, k), rel[k + 1])
                   ELSE Enter(StageAt(s, rel, links, k), rel[k + 1])
    <2> DEFINE b == SubSeq(rel, 1, k)
               l == links \cap 1..k
    <2>1. k \in Nat /\ k \in 0..n /\ k + 1 \in 1..n /\ (k + 1) - 1 = k
      BY <1>1
    <2>2. IsList(b) /\ Len(b) = k /\ SubSeq(rel, 1, k + 1) = Append(b, rel[k + 1])
      BY <1>2, <2>1
    <2>3. AreLinks(l, b)
      BY <2>2 DEF AreLinks
    <2>4. links \cap 1..(k + 1) = IF k + 1 \in links THEN l \cup {k + 1} ELSE l
      BY <2>1
    <2> HIDE DEF b, l
    <2>5. /\ Enter(StageOf(s.include, b, l), rel[k + 1])
                 = StageOf(s.include, Append(b, rel[k + 1]), l)
          /\ Follow(StageOf(s.include, b, l), rel[k + 1])
                 = StageOf(s.include, Append(b, rel[k + 1]), l \cup {Len(b) + 1})
      BY <1>4, <2>2, <2>3
    <2>6. StageAt(s, rel, links, k) = StageOf(s.include, b, l)
      BY DEF StageAt, b, l
    <2>7. StageAt(s, rel, links, k + 1)
              = StageOf(s.include, Append(b, rel[k + 1]),
                        IF k + 1 \in links THEN l \cup {k + 1} ELSE l)
      BY <2>2, <2>4 DEF StageAt
    <2>8. QED BY <2>2, <2>5, <2>6, <2>7
  <1>6. /\ FileMatches(stages[n - 1], rel[n])
        /\ \A k \in 0..(n - 1) : stages[k] # {}
    <2>1. /\ stages[0] = Start(s.include)
          /\ \A k \in 1..(n - 1) :
                 stages[k] = IF k \in few THEN Follow(stages[k - 1], rel[k])
                             ELSE Enter(stages[k - 1], rel[k])
      <3>1. \A k \in 1..(n - 1) : /\ k - 1 \in 0..(n - 1) /\ (k - 1) + 1 = k
                                  /\ k \in few <=> k \in links
                                  /\ k \in 0..n /\ k - 1 \in 0..n
        BY <1>1
      <3>2. \A k \in 0..n : stages[k] = StageAt(s, rel, links, k)
        OBVIOUS
      <3> HIDE DEF stages, few
      <3>3. ASSUME NEW k \in 1..(n - 1)
            PROVE  stages[k] = IF k \in few THEN Follow(stages[k - 1], rel[k])
                               ELSE Enter(stages[k - 1], rel[k])
        <4>1. StageAt(s, rel, links, (k - 1) + 1) =
                  IF (k - 1) + 1 \in links
                  THEN Follow(StageAt(s, rel, links, k - 1), rel[(k - 1) + 1])
                  ELSE Enter(StageAt(s, rel, links, k - 1), rel[(k - 1) + 1])
          BY <1>5, <3>1
        <4>2. QED BY <3>1, <3>2, <4>1
      <3>4. QED BY <1>1, <1>3, <3>2, <3>3
    <2> HIDE DEF stages
    <2> HIDE DEF few
    <2>2. QED BY <1>0, <1>1, <2>1, StagesReadWholePaths
  <1>7. ASSUME NEW k \in 0..(n - 1)
        PROVE  /\ StageAt(s, rel, links, k) # {}
               /\ k + 1 = n => FileMatches(StageAt(s, rel, links, k), rel[k + 1])
    <2>1. stages[k] = StageAt(s, rel, links, k) /\ (k + 1 = n => k = n - 1)
      BY <1>1
    <2> HIDE DEF stages
    <2>2. QED BY <1>6, <2>1
  <1>8. QED BY <1>3, <1>5, <1>7 DEF AreStages

\* What is on a way that is there.
LEMMA WayFacts ==
    ASSUME NEW nodes, NEW base, NEW rel, NEW reals, NEW links,
           IsWay(nodes, base, rel, reals, links)
    PROVE  /\ Len(rel) \in Nat \ {0} /\ SubSeq(rel, 1, Len(rel)) = rel
           /\ RealIn(nodes, base) = reals[0] /\ KindAt(nodes, base) = "folder"
           /\ \A k \in 0..(Len(rel) - 1) : /\ k \in 0..Len(rel)
                                           /\ KindAt(nodes, base \o SubSeq(rel, 1, k)) = "folder"
                                           /\ KindIn(nodes, reals[k]) = "folder"
           /\ KindAt(nodes, base \o rel) = "file" /\ KindIn(nodes, reals[Len(rel)]) = "file"
           /\ \A k \in 1..Len(rel) :
                  LET next == Append(reals[k - 1], rel[k])
                  IN  /\ next \in DOMAIN nodes
                      /\ IF k \in links THEN KindIn(nodes, next) = "link" ELSE reals[k] = next
  <1>1. Len(rel) \in Nat \ {0} /\ SubSeq(rel, 1, Len(rel)) = rel /\ IsList(rel) /\ IsList(base)
    BY LenProperties, SubSeqFull DEF IsWay, IsList
  <1>2. \A path : KindAt(nodes, path) # "none" =>
                      KindIn(nodes, RealIn(nodes, path)) = KindAt(nodes, path)
    BY DEF KindAt, RealIn
  <1>3. \A k \in 0..Len(rel) :
            /\ IsList(reals[k]) /\ RealIn(nodes, base \o SubSeq(rel, 1, k)) = reals[k]
            /\ KindAt(nodes, base \o SubSeq(rel, 1, k))
                   = IF k = Len(rel) THEN "file" ELSE "folder"
            /\ KindIn(nodes, reals[k]) = IF k = Len(rel) THEN "file" ELSE "folder"
    BY <1>2 DEF IsWay
  <1>4. base \o SubSeq(rel, 1, 0) = base
    BY <1>1, Beginnings, ConcatEmptySeq DEF IsList
  <1> DEFINE n == Len(rel)
  <1>5. /\ 0 \in 0..n /\ n \in 0..n /\ 0 # n
        /\ \A k \in 0..(n - 1) : k \in 0..n /\ k # n
        /\ \A k \in 1..n : k \in 0..n
    <2>1. n \in Nat \ {0}
      BY <1>1
    <2> HIDE DEF n
    <2>2. QED BY <2>1
  <1>6. ASSUME NEW k \in 1..n
        PROVE  LET next == Append(reals[k - 1], rel[k])
               IN  /\ next \in DOMAIN nodes
                   /\ IF k \in links THEN KindIn(nodes, next) = "link" ELSE reals[k] = next
    <2> DEFINE next == Append(reals[k - 1], rel[k])
    <2>1. IF k \in links THEN KindIn(nodes, next) = "link" ELSE reals[k] = next
      BY DEF IsWay
    <2>2. KindIn(nodes, reals[k]) # "none"
      BY <1>3, <1>5
    <2> HIDE DEF next
    <2>3. KindIn(nodes, next) # "none"
      BY <2>1, <2>2
    <2>4. next \in DOMAIN nodes
      BY <2>3 DEF KindIn
    <2>5. QED BY <2>1, <2>4 DEF next
  <1>7. RealIn(nodes, base) = reals[0] /\ KindAt(nodes, base) = "folder"
    BY <1>3, <1>4, <1>5
  <1>8. KindAt(nodes, base \o rel) = "file" /\ KindIn(nodes, reals[Len(rel)]) = "file"
    BY <1>1, <1>3, <1>5
  <1>9. QED BY <1>1, <1>3, <1>5, <1>6, <1>7, <1>8

\* The next of the way is found in the folder: a link or folder on it, or the file.
LEMMA NextOnWay ==
    ASSUME NEW project, NEW s, NEW base, NEW rel, NEW reals, NEW links, ArePatterns(s.include),
           IsNamedWay(tree, project, s, base, rel, reals, links),
           NEW t, TaskFields \subseteq DOMAIN t,
           NEW k \in 0..(Len(rel) - 1), IsAtFolder(s, t, rel, reals, links, k)
    PROVE  LET p == Append(reals[k], rel[k + 1])
               e == Entry(t, p)
           IN  /\ p \in Children(tree, reals[k]) /\ Last(p) \notin Hidden
               /\ IsAt(s, e, rel, reals, links) \/ e.kind = "file"
               /\ \/ e.kind = "link" /\ (e.matches \/ e.stage # {})
                  \/ e.kind = "folder" /\ e.stage # {} /\ OpenFor(project, s, base, e.rel)
                  \/ /\ e.kind = "file" /\ e.matches /\ ~ExcludesFile(s.exclude, e.rel)
                     /\ e.rel = rel
  <1> DEFINE name == rel[k + 1]
             p == Append(reals[k], name)
             e == Entry(t, p)
             n == Len(rel)
  <1>1. IsWay(tree, base, rel, reals, links)
    BY DEF IsNamedWay
  <1>2. /\ n \in Nat \ {0} /\ k \in Nat /\ k + 1 \in 1..n /\ k \in 0..n /\ (k + 1) - 1 = k
        /\ k < n /\ \A j \in 0..k : j \in 0..n
        /\ k + 1 = n \/ (k + 1 \in 0..(n - 1) /\ k + 1 \in 1..(n - 1) /\ k + 1 < n)
    <2>1. n \in Nat \ {0} /\ k \in 0..(n - 1)
      BY <1>1, WayFacts
    <2> HIDE DEF n
    <2>2. QED BY <2>1
  <1>3. /\ IsList(rel) /\ \A j \in 0..n : IsList(reals[j])
        /\ IsList(reals[k]) /\ links \subseteq 1..n
        /\ Names(s.include, rel, links \ {n}) /\ ~ExcludesFile(s.exclude, rel)
        /\ LiesOpen(project, s, base, rel)
    BY <1>1, <1>2 DEF IsWay, IsNamedWay
  <1>4. /\ SubSeq(rel, 1, k + 1) = Append(SubSeq(rel, 1, k), name) /\ SubSeq(rel, 1, n) = rel
    BY <1>1, <1>2, <1>3, Beginnings, WayFacts
  <1>5. /\ StageAt(s, rel, links, k) # {}
        /\ k + 1 = n => FileMatches(StageAt(s, rel, links, k), name)
        /\ StageAt(s, rel, links, k + 1) =
               IF k + 1 \in links THEN Follow(StageAt(s, rel, links, k), name)
               ELSE Enter(StageAt(s, rel, links, k), name)
        /\ k + 1 # n => StageAt(s, rel, links, k + 1) # {}
    <2> HIDE DEF name, n
    <2>1. AreStages(s, rel, links)
      BY NamedStages
    <2>2. \A m \in 0..(Len(rel) - 1) :
              /\ StageAt(s, rel, links, m) # {}
              /\ m + 1 = Len(rel) => FileMatches(StageAt(s, rel, links, m), rel[m + 1])
              /\ StageAt(s, rel, links, m + 1) =
                     IF m + 1 \in links THEN Follow(StageAt(s, rel, links, m), rel[m + 1])
                     ELSE Enter(StageAt(s, rel, links, m), rel[m + 1])
      BY <2>1 DEF AreStages
    <2>3. QED BY <1>2, <2>2 DEF name, n
  <1>6. /\ t.kind = "folder" /\ t.rel = SubSeq(rel, 1, k)
        /\ t.stage = StageAt(s, rel, links, k) /\ Trail(t, rel, reals, k)
    BY DEF IsAtFolder
  <1>7. /\ IsList(p) /\ Len(p) = Len(reals[k]) + 1 /\ Last(p) = name
        /\ IsPrefix(reals[k], p)
    BY <1>3, PathFacts, InsideFacts DEF IsInside
  <1>8. name \notin Hidden
    BY <1>2, <1>3 DEF LiesOpen
  <1>9. /\ p \in DOMAIN tree
        /\ k + 1 \in links => KindIn(tree, p) = "link"
        /\ k + 1 \notin links =>
               /\ reals[k + 1] = p
               /\ KindIn(tree, p) = IF k + 1 = n THEN "file" ELSE "folder"
    <2> HIDE DEF n
    <2>1. /\ Append(reals[(k + 1) - 1], rel[k + 1]) \in DOMAIN tree
          /\ IF k + 1 \in links
             THEN KindIn(tree, Append(reals[(k + 1) - 1], rel[k + 1])) = "link"
             ELSE reals[k + 1] = Append(reals[(k + 1) - 1], rel[k + 1])
      BY <1>1, <1>2, WayFacts DEF n
    <2>2. /\ k + 1 \in 0..(n - 1) => KindIn(tree, reals[k + 1]) = "folder"
          /\ KindIn(tree, reals[n]) = "file"
      BY <1>1, WayFacts DEF n
    <2>3. QED BY <1>2, <2>1, <2>2
  <1>10. p \in Children(tree, reals[k])
    <2> HIDE DEF p
    <2>1. QED BY <1>7, <1>9 DEF Children
  <1>11. /\ e.kind = IF KindIn(tree, p) \in Folders THEN "folder" ELSE KindIn(tree, p)
         /\ e.rel = Append(t.rel, name) /\ e.matches = FileMatches(t.stage, name)
         /\ e.stage = IF e.kind = "link" THEN Follow(t.stage, name) ELSE Enter(t.stage, name)
         /\ e.depth = t.depth /\ e.real = t.real /\ e.passed = t.passed
    <2>1. /\ e.kind = IF KindIn(tree, p) \in Folders THEN "folder" ELSE KindIn(tree, p)
          /\ e.rel = Append(t.rel, name) /\ e.matches = FileMatches(t.stage, name)
          /\ e.stage = IF KindIn(tree, p) = "link" THEN Follow(t.stage, name)
                       ELSE Enter(t.stage, name)
          /\ e.depth = t.depth /\ e.real = t.real /\ e.passed = t.passed
      <3> HIDE DEF p
      <3>1. QED BY <1>7 DEF Entry, TaskFields
    <2> HIDE DEF e, p
    <2>2. e.kind = "link" <=> KindIn(tree, p) = "link"
      BY <2>1 DEF Folders
    <2>3. QED BY <2>1, <2>2
  <1>12. /\ Trail(e, rel, reals, k)
         /\ k + 1 \notin links => Trail(e, rel, reals, k + 1)
    <2> HIDE DEF e, p
    <2>1. Trail(e, rel, reals, k)
      BY <1>6, <1>11 DEF Trail
    <2>2. ASSUME k + 1 \notin links PROVE Trail(e, rel, reals, k + 1)
      <3>1. reals[k + 1] = Append(reals[k], rel[k + 1])
        BY <1>9, <2>2 DEF p
      <3>2. k < Len(rel) /\ \A j \in 0..k : IsList(reals[j])
        BY <1>2, <1>3
      <3> HIDE DEF n, name
      <3>3. QED BY <1>2, <1>3, <1>6, <1>11, <3>1, <3>2, TrailGoesOn
    <2>3. QED BY <2>1, <2>2
  <1> HIDE DEF e, p, name, n
  <1>13. e.rel = SubSeq(rel, 1, k + 1)
    BY <1>4, <1>6, <1>11
  <1>14. CASE k + 1 \in links
    <2>1. e.kind = "link" /\ e.stage = StageAt(s, rel, links, k + 1)
      BY <1>5, <1>6, <1>9, <1>11, <1>14 DEF Folders
    <2>2. (k + 1 = n => e.matches) /\ (k + 1 # n => e.stage # {})
      <3>1. k + 1 = n => e.matches
        BY <1>5, <1>6, <1>11
      <3>2. QED BY <1>5, <2>1, <3>1
    <2>3. IsAtLink(s, e, rel, reals, links, k + 1)
      BY <1>2, <1>12, <1>13, <1>14, <2>1, <2>2 DEF IsAtLink, n
    <2>4. IsAt(s, e, rel, reals, links)
      BY <1>2, <2>3 DEF IsAt, n
    <2>5. QED BY <1>7, <1>8, <1>10, <2>1, <2>2, <2>4 DEF e, p, name, n
  <1>15. CASE k + 1 \notin links /\ k + 1 # n
    <2>1. e.kind = "folder" /\ e.stage = StageAt(s, rel, links, k + 1)
      BY <1>5, <1>6, <1>9, <1>11, <1>15 DEF Folders
    <2>2. IsAtFolder(s, e, rel, reals, links, k + 1)
      BY <1>12, <1>13, <1>15, <2>1 DEF IsAtFolder
    <2>3. OpenFor(project, s, base, e.rel)
      BY <1>2, <1>3, <1>13, <1>15 DEF LiesOpen, n
    <2>4. e.stage # {}
      BY <1>5, <1>15, <2>1
    <2>5. IsAt(s, e, rel, reals, links)
      BY <1>2, <1>15, <2>2 DEF IsAt, n
    <2>6. QED BY <1>7, <1>8, <1>10, <2>1, <2>3, <2>4, <2>5 DEF e, p, name
  <1>16. CASE k + 1 \notin links /\ k + 1 = n
    <2>1. e.kind = "file"
      BY <1>9, <1>11, <1>16 DEF Folders
    <2>2. e.rel = rel /\ e.matches
      BY <1>4, <1>5, <1>6, <1>11, <1>13, <1>16
    <2>3. QED BY <1>3, <1>7, <1>8, <1>10, <2>1, <2>2 DEF e, p, name
  <1>17. QED BY <1>14, <1>15, <1>16

\* What a link on the way leads to: a folder to read next, or the file.
LEMMA LinkOnWay ==
    ASSUME NEW project, NEW s, NEW base, NEW rel, NEW reals, NEW links, ArePatterns(s.include),
           IsNamedWay(tree, project, s, base, rel, reals, links),
           NEW t, NEW k \in 1..Len(rel), IsAtLink(s, t, rel, reals, links, k)
    PROVE  /\ k < Len(rel) \/ k = Len(rel)
           /\ IsList(rel) /\ IsList(reals[k]) /\ Len(t.rel) = k
           /\ k < Len(rel) =>
                  /\ KindAt(tree, base \o t.rel) = "folder" /\ RealIn(tree, base \o t.rel) = reals[k]
                  /\ t.stage # {} /\ OpenFor(project, s, base, t.rel)
                  /\ k \in 0..(Len(rel) - 1) /\ \A j \in 0..(k - 1) : reals[k] # reals[j]
           /\ k = Len(rel) =>
                  /\ KindAt(tree, base \o t.rel) = "file" /\ t.kind = "link" /\ t.matches
                  /\ ~ExcludesFile(s.exclude, t.rel) /\ t.rel = rel
  <1> DEFINE n == Len(rel)
  <1>1. IsWay(tree, base, rel, reals, links)
    BY DEF IsNamedWay
  <1>2. /\ n \in Nat \ {0} /\ k \in Nat /\ k \in 0..n
        /\ k = n \/ (k < n /\ k \in 0..(n - 1) /\ k \in 1..(n - 1) /\ k # n)
        /\ k < n => k # n
    <2>1. n \in Nat \ {0} /\ k \in 1..n
      BY <1>1, WayFacts
    <2> HIDE DEF n
    <2>2. QED BY <2>1
  <1>3. /\ IsList(rel) /\ IsList(reals[k]) /\ links \subseteq 1..n
        /\ ~ExcludesFile(s.exclude, rel) /\ LiesOpen(project, s, base, rel)
        /\ RealIn(tree, base \o SubSeq(rel, 1, k)) = reals[k]
        /\ k \in links /\ k # n => \A j \in 0..(k - 1) : reals[k] # reals[j]
    BY <1>1, <1>2 DEF IsWay, IsNamedWay
  <1>4. /\ k \in links /\ t.rel = SubSeq(rel, 1, k)
        /\ k < n => t.stage = StageAt(s, rel, links, k)
        /\ k = n => t.kind = "link" /\ t.matches
    BY DEF IsAtLink
  <1>5. Len(t.rel) = k
    BY <1>2, <1>3, <1>4, Beginnings
  <1>6. /\ k < n => KindAt(tree, base \o SubSeq(rel, 1, k)) = "folder"
        /\ KindAt(tree, base \o rel) = "file" /\ SubSeq(rel, 1, n) = rel
    BY <1>1, <1>2, WayFacts
  <1>7. k < n => t.stage # {}
    <2>1. AreStages(s, rel, links)
      BY NamedStages
    <2>2. \A m \in 0..(Len(rel) - 1) : StageAt(s, rel, links, m) # {}
      BY <2>1 DEF AreStages
    <2>3. QED BY <1>2, <1>4, <2>2
  <1>8. k < n => OpenFor(project, s, base, t.rel)
    BY <1>2, <1>3, <1>4 DEF LiesOpen
  <1> HIDE DEF n
  <1>9. QED BY <1>2, <1>3, <1>4, <1>5, <1>6, <1>7, <1>8 DEF n

\* What is known of the walk at i.
LEMMA HeldFacts ==
    ASSUME WalkInv, HeldInv, discovery # None, NEW i \in DOMAIN discovery.walks
    PROVE  /\ {"project", "walks", "seen"} \subseteq DOMAIN discovery
           /\ tree \in discovery.seen
           /\ i \in DOMAIN discovery.project.sources
           /\ IsHeld(discovery.project, Source(i), Walk(i), discovery.seen)
           /\ Walk(i).at \in Nat
  <1>1. /\ i \in DOMAIN discovery.project.sources
        /\ {"project", "walks"} \subseteq DOMAIN discovery
    BY DEF WalkInv, DiscoveryInv
  <1>2. QED BY <1>1 DEF HeldInv, IsHeld, Source, Walk

\* A walk that goes on, and leaves the others alone.
LEMMA HeldGoesOn ==
    ASSUME WalkInv, HeldInv, discovery # None, NEW i \in DOMAIN discovery.walks, NEW w,
           SetWalk(i, w), IsHeld(discovery.project, Source(i), w, discovery.seen)
    PROVE  HeldInv'
  <1> DEFINE project == discovery.project
             D == DOMAIN project.sources
             walks == [discovery.walks EXCEPT ![i] = w]
  <1>1. /\ {"project", "walks", "seen"} \subseteq DOMAIN discovery
        /\ tree \in discovery.seen /\ i \in D
    BY HeldFacts
  <1>2. DOMAIN discovery.walks = D
    BY DEF WalkInv, DiscoveryInv
  <1>3. \A j \in D : IsHeld(project, project.sources[j], discovery.walks[j], discovery.seen)
    BY DEF HeldInv
  <1>4. discovery' = [discovery EXCEPT !.walks[i] = w] /\ UNCHANGED <<discovered, tree>>
    BY DEF SetWalk, content
  <1>5. /\ {"project", "walks", "seen"} \subseteq DOMAIN discovery'
        /\ discovery'.project = project /\ discovery'.walks = walks
        /\ discovery'.seen = discovery.seen
    BY <1>1, <1>4
  <1>6. /\ walks[i] = w /\ \A j \in D : j # i => walks[j] = discovery.walks[j]
    BY <1>1, <1>2
  <1>7. \A j \in D : IsHeld(project, project.sources[j], walks[j], discovery.seen)
    <2>1. IsHeld(project, project.sources[i], w, discovery.seen)
      BY DEF Source
    <2> HIDE DEF project, D, walks
    <2>2. QED BY <1>3, <1>6, <2>1
  <1> HIDE DEF project, walks
  <1>8. WaysAreFound'
    <2>1. WaysAreFound /\ discovered' = discovered
      BY <1>4 DEF HeldInv
    <2>2. QED BY <2>1 DEF WaysAreFound
  <1>9. tree' \in discovery'.seen
    BY <1>1, <1>4, <1>5
  <1>10. QED BY <1>5, <1>7, <1>8, <1>9 DEF HeldInv, D

\* A walk that failed owes nothing.
LEMMA FailedIsHeld ==
    ASSUME WalkInv, HeldInv, discovery # None, NEW i \in DOMAIN discovery.walks, NEW w,
           SetWalk(i, w), w.at = Walk(i).at, w.errors # {}
    PROVE  HeldInv'
  <1>1. IsHeld(discovery.project, Source(i), w, discovery.seen)
    BY HeldFacts DEF IsHeld
  <1>2. QED BY <1>1, HeldGoesOn

\* A walk that goes on in its locale has what it had, if every way it was about
\* to go is one it is still to go, or found the file of.
LEMMA SameLocaleHeld ==
    ASSUME WalkInv, HeldInv, discovery # None, NEW i \in DOMAIN discovery.walks, NEW w,
           SetWalk(i, w), w.pc = Walk(i).pc, w.at = Walk(i).at, w.files = Walk(i).files,
           w.errors = Walk(i).errors,
           \A rel, reals, links :
               /\ IsNamedWay(tree, discovery.project, Source(i), Base(i), rel, reals, links)
               /\ Has(Source(i), Walk(i), rel, reals, links)
               => Has(Source(i), w, rel, reals, links)
    PROVE  HeldInv'
  <1> DEFINE project == discovery.project
             s == Source(i)
             locales == LocalesOf(project, s)
             seen == discovery.seen
  <1>1. Walk(i).at \in Nat /\ tree \in seen
    BY HeldFacts
  <1>2. ASSUME s.filePath = None, w.errors = {},
               NEW a \in 1..Len(locales), NEW rel, NEW reals, NEW links,
               IsSteadyWay(seen, project, s, BaseOf(s, locales[a]), rel, reals, links)
        PROVE  Holds(s, locales[a], w, a, rel, reals, links)
    <2>1. Holds(s, locales[a], Walk(i), a, rel, reals, links)
      BY <1>2, HeldFacts DEF IsHeld
    <2>2. w.pc = "done" \/ (w.pc # "wait" /\ a < w.at) =>
              \E f \in w.files : f.locale = locales[a] /\ f.rel = rel
      BY <2>1 DEF Holds
    <2>3. ASSUME w.pc = "list", a = w.at PROVE Has(s, w, rel, reals, links)
      <3>1. Has(s, Walk(i), rel, reals, links)
        BY <2>1, <2>3 DEF Holds
      <3>2. Base(i) = BaseOf(s, locales[a])
        BY <2>3 DEF Base, Locale
      <3> HIDE DEF project, s, locales, seen
      <3>3. IsNamedWay(tree, project, s, Base(i), rel, reals, links)
        BY <1>1, <1>2, <3>2 DEF IsSteadyWay
      <3>4. QED BY <3>1, <3>3 DEF project, s
    <2>4. QED BY <2>2, <2>3 DEF Holds
  <1>3. IsHeld(project, s, w, seen)
    BY <1>1, <1>2 DEF IsHeld
  <1>4. QED BY <1>3, HeldGoesOn

\* One task is done, and where it was on a way another one is.
LEMMA OneTaskHeld ==
    ASSUME WalkInv, HeldInv, discovery # None, NEW i \in DOMAIN discovery.walks, NEW w,
           SetWalk(i, w), w.pc = Walk(i).pc, w.at = Walk(i).at, w.files = Walk(i).files,
           w.errors = Walk(i).errors, w.rootReal = Walk(i).rootReal,
           NEW t, Walk(i).tasks \ {t} \subseteq w.tasks, Walk(i).found \subseteq w.found,
           \A rel, reals, links :
               /\ IsNamedWay(tree, discovery.project, Source(i), Base(i), rel, reals, links)
               /\ IsAt(Source(i), t, rel, reals, links)
               /\ Walk(i).rootReal \in {None, reals[0]}
               => rel \in w.found \/ IsAhead(Source(i), w.tasks, rel, reals, links)
    PROVE  HeldInv'
  <1> DEFINE project == discovery.project
             s == Source(i)
  <1>1. ASSUME NEW rel, NEW reals, NEW links,
               IsNamedWay(tree, project, s, Base(i), rel, reals, links),
               Has(s, Walk(i), rel, reals, links)
        PROVE  Has(s, w, rel, reals, links)
    <2>1. Walk(i).rootReal \in {None, reals[0]}
      BY <1>1 DEF Has
    <2>2. ASSUME NEW old \in Walk(i).tasks, IsAt(s, old, rel, reals, links)
          PROVE  rel \in w.found \/ IsAhead(s, w.tasks, rel, reals, links)
      <3>1. CASE old # t
        BY <2>2, <3>1 DEF IsAhead
      <3>2. CASE old = t
        BY <1>1, <2>1, <2>2, <3>2
      <3>3. QED BY <3>1, <3>2
    <2>3. rel \in Walk(i).found \/ IsAhead(s, Walk(i).tasks, rel, reals, links)
      BY <1>1 DEF Has
    <2>4. rel \in w.found \/ IsAhead(s, w.tasks, rel, reals, links)
      <3> HIDE DEF s
      <3>1. QED BY <2>2, <2>3 DEF IsAhead
    <2>5. QED BY <2>1, <2>4 DEF Has
  <1>2. QED BY <1>1, SameLocaleHeld

\* The steps of a walk.
LEMMA BeginSourceHeld ==
    ASSUME NoneIsNoPath, AcceptedInv, WalkInv, HeldInv, discovery # None,
           NEW i \in DOMAIN discovery.walks, BeginSource(i)
    PROVE  HeldInv'
  <1> DEFINE errors == IF Source(i).kind = "collection" THEN {"source-missing"}
                       ELSE IF Source(i).optional THEN {} ELSE {"singleton-missing"}
             file == {[id |-> Source(i).name, locale |-> None,
                       rel |-> <<Last(Source(i).filePath)>>]}
             missing == [NewWalk EXCEPT !.pc = "done", !.errors = errors]
             single == [NewWalk EXCEPT !.pc = "done", !.files = file]
             walked == [NewWalk EXCEPT !.pc = "locale"]
             Held(w) == IsHeld(discovery.project, Source(i), w, discovery.seen)
             there == IF Source(i).kind = "collection"
                      THEN KindAt(tree, Source(i).root) \in Folders
                      ELSE Source(i).localized \/ KindAt(tree, Source(i).filePath) = "file"
  <1>1. \/ ~there /\ SetWalk(i, missing)
        \/ Source(i).filePath # None /\ SetWalk(i, single)
        \/ SetWalk(i, walked)
    BY Zenon DEF BeginSource
  <1>2. ~there => Held(missing)
    <2>1. ~there => errors # {} \/ Source(i).filePath # None
      <3>1. CASE Source(i).kind = "collection"
        BY <3>1
      <3>2. CASE Source(i).kind # "collection"
        <4>1. /\ IsAccepted(discovery.project) /\ i \in DOMAIN discovery.project.sources
              /\ Source(i) = discovery.project.sources[i]
          BY HeldFacts DEF AcceptedInv, Source
        <4>2. Source(i).filePath = None => Source(i).localized
          BY <3>2, <4>1, SingletonsAreLocalized
        <4>3. QED BY <3>2, <4>2
      <3>3. QED BY <3>1, <3>2
    <2> HIDE DEF errors, there
    <2>2. missing.at = 1 /\ missing.errors = errors
      BY DEF NewWalk
    <2> HIDE DEF missing
    <2>3. QED BY <2>1, <2>2 DEF IsHeld
  <1>3. Held(walked)
    <2>1. walked.at = 1 /\ walked.pc = "locale"
      BY DEF NewWalk
    <2> HIDE DEF walked
    <2>2. QED BY <2>1 DEF IsHeld, Holds
  <1>4. Source(i).filePath # None => Held(single)
    <2> HIDE DEF file
    <2>1. single.at = 1
      BY DEF NewWalk
    <2> HIDE DEF single
    <2>2. QED BY <2>1 DEF IsHeld
  <1> HIDE DEF missing, single, walked, there
  <1>5. QED BY <1>1, <1>2, <1>3, <1>4, HeldGoesOn

\* The root is the first task, of every way.
LEMMA BeginLocaleHeld ==
    ASSUME WalkInv, HeldInv, discovery # None, NEW i \in DOMAIN discovery.walks, BeginLocale(i)
    PROVE  HeldInv'
  <1> DEFINE tasks == IF Locale(i) = None \/ KindAt(tree, Base(i)) \in Folders
                      THEN {RootTask(i)} ELSE {}
             w == [Walk(i) EXCEPT !.pc = "list", !.found = {}, !.rootReal = None, !.tasks = tasks]
             project == discovery.project
             s == Source(i)
             locales == LocalesOf(project, s)
             seen == discovery.seen
  <1>1. SetWalk(i, w) /\ Walk(i).pc = "locale"
    BY DEF BeginLocale
  <1>2. Walk(i).at \in Nat /\ tree \in seen /\ ArePatterns(s.include)
    BY HeldFacts, WalkFacts
  <1>3. ASSUME NEW rel, NEW reals, NEW links,
               IsNamedWay(tree, project, s, Base(i), rel, reals, links)
        PROVE  IsAhead(s, tasks, rel, reals, links)
    <2>1. IsWay(tree, Base(i), rel, reals, links)
      BY <1>3 DEF IsNamedWay
    <2>2. /\ IsList(rel) /\ IsList(reals[0]) /\ Len(rel) \in Nat \ {0}
          /\ 0 \in 0..(Len(rel) - 1) /\ 0 \in 0..Len(rel)
      <3>1. Len(rel) \in Nat \ {0}
        BY <2>1, WayFacts
      <3>2. QED BY <2>1, <3>1 DEF IsWay
    <2>3. RootTask(i) \in tasks
      <3>1. KindAt(tree, Base(i)) = "folder"
        BY <2>1, WayFacts
      <3>2. QED BY <3>1 DEF Folders
    <2>4. /\ RootTask(i).kind = "folder" /\ RootTask(i).rel = <<>>
          /\ RootTask(i).stage = Start(s.include)
          /\ RootTask(i).depth = 0 /\ RootTask(i).passed = {}
      BY DEF RootTask
    <2>5. SubSeq(rel, 1, 0) = <<>> /\ StageAt(s, rel, links, 0) = Start(s.include)
      <3>1. AreStages(s, rel, links)
        BY <1>2, <1>3, NamedStages
      <3>2. QED BY <2>2, <3>1, Beginnings DEF AreStages
    <2>6. Trail(RootTask(i), rel, reals, 0)
      BY <2>2, <2>4, TrailBegins
    <2>7. IsAtFolder(s, RootTask(i), rel, reals, links, 0)
      BY <2>4, <2>5, <2>6 DEF IsAtFolder
    <2>8. QED BY <2>2, <2>3, <2>7 DEF IsAhead, IsAt
  <1> HIDE DEF tasks
  <1>4. /\ w.pc = "list" /\ w.at = Walk(i).at /\ w.files = Walk(i).files
        /\ w.errors = Walk(i).errors /\ w.tasks = tasks /\ w.rootReal = None
    BY WalkFacts
  <1> HIDE DEF w
  <1>5. ASSUME s.filePath = None, w.errors = {},
               NEW a \in 1..Len(locales), NEW rel, NEW reals, NEW links,
               IsSteadyWay(seen, project, s, BaseOf(s, locales[a]), rel, reals, links)
        PROVE  Holds(s, locales[a], w, a, rel, reals, links)
    <2>1. Holds(s, locales[a], Walk(i), a, rel, reals, links)
      BY <1>4, <1>5, HeldFacts DEF IsHeld
    <2>2. a < w.at => \E f \in w.files : f.locale = locales[a] /\ f.rel = rel
      BY <1>1, <1>4, <2>1 DEF Holds
    <2>3. ASSUME a = w.at PROVE IsAhead(s, w.tasks, rel, reals, links)
      <3>1. Base(i) = BaseOf(s, locales[a])
        BY <1>4, <2>3 DEF Base, Locale
      <3> HIDE DEF project, s, locales, seen
      <3>2. IsNamedWay(tree, project, s, Base(i), rel, reals, links)
        BY <1>2, <1>5, <3>1 DEF IsSteadyWay
      <3>3. QED BY <1>3, <1>4, <3>2
    <2>4. QED BY <1>4, <2>2, <2>3 DEF Holds, Has
  <1>6. IsHeld(project, s, w, seen)
    BY <1>2, <1>4, <1>5 DEF IsHeld
  <1>7. QED BY <1>1, <1>6, HeldGoesOn

\* The next of each way that leads through the folder is in it.
LEMMA ReadFolderHeld ==
    ASSUME WalkInv, HeldInv, discovery # None, NEW i \in DOMAIN discovery.walks, ReadFolder(i)
    PROVE  HeldInv'
  <1> DEFINE project == discovery.project
             s == Source(i)
  <1>1. PICK t \in Walk(i).tasks :
            LET there == Children(tree, RealIn(tree, PathOf(i, t)))
                entries == {Entry(t, p) : p \in {q \in there : Last(q) \notin Hidden}}
                files == {e \in entries : /\ e.kind = "file" /\ e.matches
                                          /\ ~ExcludesFile(Source(i).exclude, e.rel)}
                folders == {e \in entries : e.kind = "folder" /\ e.stage # {} /\ IsOpen(i, e.rel)}
                links == {e \in entries : e.kind = "link" /\ (e.matches \/ e.stage # {})}
            IN  /\ t.kind = "folder"
                /\ KindAt(tree, PathOf(i, t)) = "folder"
                /\ SetWalk(i, [Walk(i) EXCEPT
                       !.tasks = (@ \ {t}) \cup folders \cup links,
                       !.found = @ \cup {e.rel : e \in files}])
    BY Zenon DEF ReadFolder
  <1> DEFINE there == Children(tree, RealIn(tree, PathOf(i, t)))
             entries == {Entry(t, p) : p \in {q \in there : Last(q) \notin Hidden}}
             files == {e \in entries : /\ e.kind = "file" /\ e.matches
                                       /\ ~ExcludesFile(Source(i).exclude, e.rel)}
             folders == {e \in entries : e.kind = "folder" /\ e.stage # {} /\ IsOpen(i, e.rel)}
             linked == {e \in entries : e.kind = "link" /\ (e.matches \/ e.stage # {})}
             tasks == (Walk(i).tasks \ {t}) \cup folders \cup linked
             found == Walk(i).found \cup {e.rel : e \in files}
             w == [Walk(i) EXCEPT !.tasks = tasks, !.found = found]
  <1>2. SetWalk(i, w) /\ t.kind = "folder"
    BY <1>1
  <1>3. ArePatterns(s.include) /\ TaskFields \subseteq DOMAIN t
    BY WalkFacts DEF IsTask
  <1>4. \A rel : OpenFor(project, s, Base(i), rel) => IsOpen(i, rel)
    BY DEF IsOpen, Skipped, OpenFor
  <1>5. ASSUME NEW rel, NEW reals, NEW links,
               IsNamedWay(tree, project, s, Base(i), rel, reals, links),
               NEW k \in 0..(Len(rel) - 1), IsAtFolder(s, t, rel, reals, links, k)
        PROVE  rel \in found \/ IsAhead(s, tasks, rel, reals, links)
    <2> DEFINE p == Append(reals[k], rel[k + 1])
               e == Entry(t, p)
    <2>1. /\ p \in Children(tree, reals[k]) /\ Last(p) \notin Hidden
          /\ IsAt(s, e, rel, reals, links) \/ e.kind = "file"
          /\ \/ e.kind = "link" /\ (e.matches \/ e.stage # {})
             \/ e.kind = "folder" /\ e.stage # {} /\ OpenFor(project, s, Base(i), e.rel)
             \/ /\ e.kind = "file" /\ e.matches /\ ~ExcludesFile(s.exclude, e.rel)
                /\ e.rel = rel
      <3> HIDE DEF project, s
      <3>1. QED BY <1>3, <1>5, NextOnWay
    <2>2. there = Children(tree, reals[k])
      <3>1. IsWay(tree, Base(i), rel, reals, links)
        BY <1>5 DEF IsNamedWay
      <3>2. k \in 0..Len(rel)
        BY <3>1, WayFacts
      <3>3. RealIn(tree, Base(i) \o SubSeq(rel, 1, k)) = reals[k]
        BY <3>1, <3>2 DEF IsWay
      <3>4. PathOf(i, t) = Base(i) \o SubSeq(rel, 1, k)
        BY <1>5 DEF PathOf, IsAtFolder
      <3>5. QED BY <3>3, <3>4
    <2> HIDE DEF there, e
    <2>3. e \in entries
      BY <2>1, <2>2 DEF e
    <2> HIDE DEF p, entries
    <2>4. CASE e.kind # "file"
      <3>1. e \in tasks
        BY <1>4, <2>1, <2>3, <2>4
      <3> HIDE DEF tasks
      <3>2. QED BY <2>1, <2>4, <3>1 DEF IsAhead
    <2>5. CASE e.kind = "file"
      BY <2>1, <2>3, <2>5
    <2>6. QED BY <2>4, <2>5
  <1>6. Walk(i).tasks \ {t} \subseteq tasks /\ Walk(i).found \subseteq found
    OBVIOUS
  <1> HIDE DEF tasks, found
  <1>7. ASSUME NEW rel, NEW reals, NEW links,
               IsNamedWay(tree, project, s, Base(i), rel, reals, links),
               IsAt(s, t, rel, reals, links)
        PROVE  rel \in found \/ IsAhead(s, tasks, rel, reals, links)
    <2>1. \E k \in 0..(Len(rel) - 1) : IsAtFolder(s, t, rel, reals, links, k)
      BY <1>2, <1>7 DEF IsAt, IsAtLink
    <2>2. QED BY <1>5, <1>7, <2>1
  <1>8. /\ w.pc = Walk(i).pc /\ w.at = Walk(i).at /\ w.files = Walk(i).files
        /\ w.errors = Walk(i).errors /\ w.rootReal = Walk(i).rootReal
        /\ w.tasks = tasks /\ w.found = found
    BY WalkFacts
  <1> HIDE DEF w
  <1>9. QED BY <1>2, <1>6, <1>7, <1>8, OneTaskHeld

\* A listing fails for a folder that is not one, and so on no way.
LEMMA FailedHeld ==
    ASSUME WalkInv, HeldInv, discovery # None, NEW i \in DOMAIN discovery.walks,
           CannotRead(i) \/ ListingFails(i)
    PROVE  HeldInv'
  <1> DEFINE less(t) == [Walk(i) EXCEPT !.tasks = Walk(i).tasks \ {t}]
  <1>1. \/ SetWalk(i, FailedWalk(i))
        \/ \E t \in Walk(i).tasks : /\ t.kind = "folder" /\ KindAt(tree, PathOf(i, t)) # "folder"
                                    /\ SetWalk(i, less(t))
    BY DEF CannotRead, ListingFails
  <1>2. CASE SetWalk(i, FailedWalk(i))
    <2>1. FailedWalk(i).at = Walk(i).at /\ "read-failed" \in FailedWalk(i).errors
      BY WalkFacts DEF FailedWalk
    <2>2. FailedWalk(i).errors # {}
      BY <2>1
    <2>3. QED BY <1>2, <2>1, <2>2, FailedIsHeld
  <1>3. ASSUME NEW t \in Walk(i).tasks, t.kind = "folder", KindAt(tree, PathOf(i, t)) # "folder",
               SetWalk(i, less(t))
        PROVE  HeldInv'
    <2> DEFINE w == less(t)
    <2>1. /\ w.pc = Walk(i).pc /\ w.at = Walk(i).at /\ w.files = Walk(i).files
          /\ w.errors = Walk(i).errors /\ w.found = Walk(i).found
          /\ w.rootReal = Walk(i).rootReal /\ w.tasks = Walk(i).tasks \ {t}
      BY WalkFacts
    <2>2. SetWalk(i, w)
      BY <1>3
    <2> HIDE DEF w
    <2>3. ASSUME NEW rel, NEW reals, NEW links,
                 IsNamedWay(tree, discovery.project, Source(i), Base(i), rel, reals, links)
          PROVE  ~IsAt(Source(i), t, rel, reals, links)
      <3>1. \A k \in 0..(Len(rel) - 1) : ~IsAtFolder(Source(i), t, rel, reals, links, k)
        <4>1. IsWay(tree, Base(i), rel, reals, links)
          BY <2>3 DEF IsNamedWay
        <4>2. \A k \in 0..(Len(rel) - 1) : KindAt(tree, Base(i) \o SubSeq(rel, 1, k)) = "folder"
          BY <4>1, WayFacts
        <4>3. QED BY <1>3, <4>2 DEF IsAtFolder, PathOf
      <3>2. \A k : ~IsAtLink(Source(i), t, rel, reals, links, k)
        BY <1>3 DEF IsAtLink
      <3>3. QED BY <3>1, <3>2 DEF IsAt
    <2>4. QED BY <2>1, <2>2, <2>3, OneTaskHeld
  <1>4. QED BY <1>1, <1>2, <1>3

\* Each way through the link goes on to what it leads to.
LEMMA LookAtLinkHeld ==
    ASSUME WalkInv, HeldInv, discovery # None, NEW i \in DOMAIN discovery.walks, LookAtLink(i)
    PROVE  HeldInv'
  <1> DEFINE project == discovery.project
             s == Source(i)
  <1>1. PICK t \in Walk(i).tasks :
            LET kind == KindAt(tree, PathOf(i, t))
                leads == kind \in Folders /\ t.stage # {} /\ IsOpen(i, t.rel)
                listed == kind = "file" /\ t.matches /\ ~ExcludesFile(Source(i).exclude, t.rel)
            IN  /\ t.kind = "link"
                /\ SetWalk(i, [Walk(i) EXCEPT
                       !.tasks = (@ \ {t}) \cup (IF leads THEN {[t EXCEPT !.kind = "target"]} ELSE {}),
                       !.found = @ \cup (IF listed THEN {t.rel} ELSE {})])
    BY Zenon DEF LookAtLink
  <1> DEFINE kind == KindAt(tree, PathOf(i, t))
             leads == kind \in Folders /\ t.stage # {} /\ IsOpen(i, t.rel)
             listed == kind = "file" /\ t.matches /\ ~ExcludesFile(Source(i).exclude, t.rel)
             next == [t EXCEPT !.kind = "target"]
             more == IF leads THEN {next} ELSE {}
             rels == IF listed THEN {t.rel} ELSE {}
             tasks == (Walk(i).tasks \ {t}) \cup more
             found == Walk(i).found \cup rels
             w == [Walk(i) EXCEPT !.tasks = tasks, !.found = found]
  <1>2. SetWalk(i, w) /\ t.kind = "link"
    BY <1>1
  <1>3. ArePatterns(s.include) /\ TaskFields \subseteq DOMAIN t
    BY WalkFacts DEF IsTask
  <1>4. OpenFor(project, s, Base(i), t.rel) => IsOpen(i, t.rel)
    BY DEF IsOpen, Skipped, OpenFor
  <1>5. /\ next.kind = "target" /\ next.rel = t.rel /\ next.stage = t.stage
        /\ next.depth = t.depth /\ next.real = t.real /\ next.passed = t.passed
    BY <1>3 DEF TaskFields
  <1> HIDE DEF next
  <1>6. ASSUME NEW rel, NEW reals, NEW links,
               IsNamedWay(tree, project, s, Base(i), rel, reals, links),
               NEW k \in 1..Len(rel), IsAtLink(s, t, rel, reals, links, k)
        PROVE  rel \in found \/ IsAhead(s, tasks, rel, reals, links)
    <2>1. /\ k < Len(rel) \/ k = Len(rel)
          /\ k < Len(rel) =>
                 /\ KindAt(tree, Base(i) \o t.rel) = "folder"
                 /\ t.stage # {} /\ OpenFor(project, s, Base(i), t.rel)
                 /\ k \in 0..(Len(rel) - 1)
          /\ k = Len(rel) =>
                 /\ KindAt(tree, Base(i) \o t.rel) = "file" /\ t.matches
                 /\ ~ExcludesFile(s.exclude, t.rel) /\ t.rel = rel
      <3> HIDE DEF project, s, tasks, found
      <3>1. QED BY <1>3, <1>6, LinkOnWay
    <2>2. CASE k = Len(rel)
      <3>1. listed /\ t.rel = rel
        BY <2>1, <2>2 DEF PathOf
      <3>2. QED BY <3>1
    <2>3. CASE k < Len(rel)
      <3>1. leads
        BY <1>4, <2>1, <2>3 DEF PathOf, Folders
      <3>2. next \in tasks
        BY <3>1
      <3> HIDE DEF tasks, leads
      <3>3. Len(rel) \in Nat /\ k # Len(rel)
        <4>1. IsWay(tree, Base(i), rel, reals, links)
          BY <1>6 DEF IsNamedWay
        <4>2. Len(rel) \in Nat
          BY <4>1, WayFacts
        <4>3. QED BY <2>3, <4>2
      <3>4. Trail(next, rel, reals, k - 1)
        BY <1>5, <1>6 DEF IsAtLink, Trail
      <3>5. IsAtLink(s, next, rel, reals, links, k)
        BY <1>5, <1>6, <3>3, <3>4 DEF IsAtLink
      <3>6. QED BY <3>2, <3>5 DEF IsAhead, IsAt
    <2>4. QED BY <2>1, <2>2, <2>3
  <1>7. Walk(i).tasks \ {t} \subseteq tasks /\ Walk(i).found \subseteq found
    OBVIOUS
  <1> HIDE DEF tasks, found
  <1>8. ASSUME NEW rel, NEW reals, NEW links,
               IsNamedWay(tree, project, s, Base(i), rel, reals, links),
               IsAt(s, t, rel, reals, links)
        PROVE  rel \in found \/ IsAhead(s, tasks, rel, reals, links)
    <2>1. \E k \in 1..Len(rel) : IsAtLink(s, t, rel, reals, links, k)
      BY <1>2, <1>8 DEF IsAt, IsAtFolder
    <2>2. QED BY <1>6, <1>8, <2>1
  <1>9. /\ w.pc = Walk(i).pc /\ w.at = Walk(i).at /\ w.files = Walk(i).files
        /\ w.errors = Walk(i).errors /\ w.rootReal = Walk(i).rootReal
        /\ w.tasks = tasks /\ w.found = found
    BY WalkFacts
  <1> HIDE DEF w
  <1>10. QED BY <1>2, <1>7, <1>8, <1>9, OneTaskHeld

\* The target of a link on a way is the next real folder of the way.
LEMMA FindTargetHeld ==
    ASSUME WalkInv, HeldInv, discovery # None, NEW i \in DOMAIN discovery.walks, FindTarget(i)
    PROVE  HeldInv'
  <1> DEFINE project == discovery.project
             s == Source(i)
  <1>1. PICK t \in Walk(i).tasks :
            LET path == PathOf(i, t)
                target == IF KindAt(tree, path) = "none" THEN None ELSE RealIn(tree, path)
            IN  /\ t.kind = "target"
                /\ SetWalk(i, [Walk(i) EXCEPT
                       !.tasks = (@ \ {t}) \cup {[t EXCEPT !.kind = "enter", !.target = target]}])
    BY Zenon DEF FindTarget
  <1> DEFINE path == PathOf(i, t)
             target == IF KindAt(tree, path) = "none" THEN None ELSE RealIn(tree, path)
             next == [t EXCEPT !.kind = "enter", !.target = target]
             tasks == (Walk(i).tasks \ {t}) \cup {next}
             w == [Walk(i) EXCEPT !.tasks = tasks]
  <1>2. SetWalk(i, w) /\ t.kind = "target"
    BY <1>1
  <1>3. ArePatterns(s.include) /\ TaskFields \subseteq DOMAIN t
    BY WalkFacts DEF IsTask
  <1>4. /\ next.kind = "enter" /\ next.rel = t.rel /\ next.stage = t.stage
        /\ next.target = target
        /\ next.depth = t.depth /\ next.real = t.real /\ next.passed = t.passed
    <2> HIDE DEF target
    <2>1. QED BY <1>3 DEF TaskFields
  <1> HIDE DEF next
  <1>5. ASSUME NEW rel, NEW reals, NEW links,
               IsNamedWay(tree, project, s, Base(i), rel, reals, links),
               NEW k \in 1..Len(rel), IsAtLink(s, t, rel, reals, links, k)
        PROVE  IsAhead(s, tasks, rel, reals, links)
    <2>1. /\ k < Len(rel) \/ k = Len(rel)
          /\ k < Len(rel) =>
                 /\ KindAt(tree, Base(i) \o t.rel) = "folder"
                 /\ RealIn(tree, Base(i) \o t.rel) = reals[k]
          /\ k = Len(rel) => t.kind = "link"
      <3> HIDE DEF project, s, tasks
      <3>1. QED BY <1>3, <1>5, LinkOnWay
    <2>2. k < Len(rel)
      BY <1>2, <2>1
    <2>3. target = reals[k]
      BY <2>1, <2>2 DEF PathOf
    <2>4. k # Len(rel)
      <3>1. k # Len(rel)
        BY <1>2, <2>1
      <3>2. QED BY <3>1
    <2>5. Trail(next, rel, reals, k - 1)
      BY <1>4, <1>5 DEF IsAtLink, Trail
    <2> HIDE DEF target
    <2>6. IsAtLink(s, next, rel, reals, links, k)
      BY <1>4, <1>5, <2>3, <2>4, <2>5 DEF IsAtLink
    <2>7. next \in tasks
      OBVIOUS
    <2> HIDE DEF tasks
    <2>8. QED BY <2>6, <2>7 DEF IsAhead, IsAt
  <1>6. Walk(i).tasks \ {t} \subseteq tasks
    OBVIOUS
  <1> HIDE DEF tasks
  <1>7. ASSUME NEW rel, NEW reals, NEW links,
               IsNamedWay(tree, project, s, Base(i), rel, reals, links),
               IsAt(s, t, rel, reals, links)
        PROVE  IsAhead(s, tasks, rel, reals, links)
    <2>1. \E k \in 1..Len(rel) : IsAtLink(s, t, rel, reals, links, k)
      BY <1>2, <1>7 DEF IsAt, IsAtFolder
    <2>2. QED BY <1>5, <1>7, <2>1
  <1>8. /\ w.pc = Walk(i).pc /\ w.at = Walk(i).at /\ w.files = Walk(i).files
        /\ w.errors = Walk(i).errors /\ w.rootReal = Walk(i).rootReal
        /\ w.tasks = tasks /\ w.found = Walk(i).found
    BY WalkFacts
  <1> HIDE DEF w
  <1>9. QED BY <1>2, <1>6, <1>7, <1>8, OneTaskHeld

\* The real path of the base is where every way begins.
LEMMA FindRootHeld ==
    ASSUME WalkInv, HeldInv, discovery # None, NEW i \in DOMAIN discovery.walks, FindRoot(i)
    PROVE  HeldInv'
  <1> DEFINE w == [Walk(i) EXCEPT !.rootReal = RealIn(tree, Base(i))]
  <1>1. SetWalk(i, FailedWalk(i)) \/ SetWalk(i, w)
    BY DEF FindRoot
  <1>2. CASE SetWalk(i, FailedWalk(i))
    <2>1. FailedWalk(i).at = Walk(i).at /\ "read-failed" \in FailedWalk(i).errors
      BY WalkFacts DEF FailedWalk
    <2>2. FailedWalk(i).errors # {}
      BY <2>1
    <2>3. QED BY <1>2, <2>1, <2>2, FailedIsHeld
  <1>3. CASE SetWalk(i, w)
    <2>1. /\ w.pc = Walk(i).pc /\ w.at = Walk(i).at /\ w.files = Walk(i).files
          /\ w.errors = Walk(i).errors /\ w.tasks = Walk(i).tasks /\ w.found = Walk(i).found
          /\ w.rootReal = RealIn(tree, Base(i))
      BY WalkFacts
    <2> HIDE DEF w
    <2>2. ASSUME NEW rel, NEW reals, NEW links,
                 IsNamedWay(tree, discovery.project, Source(i), Base(i), rel, reals, links),
                 Has(Source(i), Walk(i), rel, reals, links)
          PROVE  Has(Source(i), w, rel, reals, links)
      <3>1. IsWay(tree, Base(i), rel, reals, links)
        BY <2>2 DEF IsNamedWay
      <3>2. RealIn(tree, Base(i)) = reals[0]
        BY <3>1, WayFacts
      <3>3. QED BY <2>1, <2>2, <3>2 DEF Has
    <2>3. QED BY <1>3, <2>1, <2>2, SameLocaleHeld
  <1>4. QED BY <1>1, <1>2, <1>3

\* A link on a way leads to no folder the way came through, and is entered.
LEMMA EnterLinkHeld ==
    ASSUME NoneIsNoPath, WalkInv, HeldInv, discovery # None, NEW i \in DOMAIN discovery.walks,
           EnterLink(i)
    PROVE  HeldInv'
  <1> DEFINE project == discovery.project
             s == Source(i)
  <1>1. PICK t \in Walk(i).tasks :
            LET passed == Passed(i, t)
                behind == [t EXCEPT !.kind = "folder", !.depth = Len(t.rel), !.real = t.target,
                                    !.passed = passed, !.target = None]
            IN  /\ t.kind = "enter" /\ (t.depth = 0 => Walk(i).rootReal # None)
                /\ SetWalk(i, [Walk(i) EXCEPT
                       !.tasks = (@ \ {t}) \cup
                           (IF t.target = None \/ IsOnPath(passed, t.target) THEN {} ELSE {behind})])
    BY Zenon DEF EnterLink
  <1> DEFINE passed == Passed(i, t)
             behind == [t EXCEPT !.kind = "folder", !.depth = Len(t.rel), !.real = t.target,
                                 !.passed = passed, !.target = None]
             stops == t.target = None \/ IsOnPath(passed, t.target)
             more == IF stops THEN {} ELSE {behind}
             tasks == (Walk(i).tasks \ {t}) \cup more
             w == [Walk(i) EXCEPT !.tasks = tasks]
  <1>2. SetWalk(i, w) /\ t.kind = "enter" /\ (t.depth = 0 => Walk(i).rootReal # None)
    BY <1>1
  <1>3. ArePatterns(s.include) /\ TaskFields \subseteq DOMAIN t
    BY WalkFacts DEF IsTask
  <1>4. /\ behind.kind = "folder" /\ behind.rel = t.rel /\ behind.stage = t.stage
        /\ behind.depth = Len(t.rel) /\ behind.real = t.target /\ behind.passed = passed
    <2> HIDE DEF passed
    <2>1. QED BY <1>3 DEF TaskFields
  <1> HIDE DEF behind
  <1>5. ASSUME NEW rel, NEW reals, NEW links,
               IsNamedWay(tree, project, s, Base(i), rel, reals, links),
               Walk(i).rootReal \in {None, reals[0]},
               NEW k \in 1..Len(rel), IsAtLink(s, t, rel, reals, links, k)
        PROVE  IsAhead(s, tasks, rel, reals, links)
    <2>1. /\ k < Len(rel) \/ k = Len(rel)
          /\ IsList(rel) /\ IsList(reals[k]) /\ Len(t.rel) = k
          /\ k < Len(rel) => k \in 0..(Len(rel) - 1) /\ \A j \in 0..(k - 1) : reals[k] # reals[j]
          /\ k = Len(rel) => t.kind = "link"
      <3> HIDE DEF project, s, tasks
      <3>1. QED BY <1>3, <1>5, LinkOnWay
    <2>2. k < Len(rel) /\ k # Len(rel)
      <3>1. k # Len(rel)
        BY <1>2, <2>1
      <3>2. QED BY <2>1, <3>1
    <2>3. /\ t.rel = SubSeq(rel, 1, k) /\ t.stage = StageAt(s, rel, links, k)
          /\ t.target = reals[k] /\ Trail(t, rel, reals, k - 1)
      BY <1>2, <1>5, <2>2 DEF IsAtLink
    <2>4. passed = t.passed \cup {[from |-> reals[t.depth], to |-> reals[k - 1]]}
      <3>1. t.depth = 0 => Walk(i).rootReal = reals[0]
        BY <1>2, <1>5
      <3> HIDE DEF project, s, tasks
      <3>2. QED BY <2>1, <2>3, <3>1, TrailIsPassed
    <2>5. ~stops
      <3>1. t.target # None
        BY <2>1, <2>3 DEF NoneIsNoPath
      <3>2. IsOnPath(passed, reals[k]) <=> (\E j \in 0..(k - 1) : reals[k] = reals[j])
        <4> DEFINE parts == t.passed \cup {[from |-> reals[t.depth], to |-> reals[k - 1]]}
        <4>1. IsOnPath(parts, reals[k]) <=> (\E j \in 0..(k - 1) : reals[k] = reals[j])
          <5>1. Trail(t, rel, reals, k - 1) /\ IsList(reals[k])
            BY <2>1, <2>3
          <5>2. \A x : IsList(x) =>
                  ((\E part \in parts : IsPart(x, part)) <=> (\E j \in 0..(k - 1) : x = reals[j]))
            BY <5>1, Zenon DEF Trail, Covers
          <5>3. (\E part \in parts : IsPart(reals[k], part))
                    <=> (\E j \in 0..(k - 1) : reals[k] = reals[j])
            BY <5>1, <5>2, Zenon
          <5>4. IsOnPath(parts, reals[k]) <=> (\E part \in parts : IsPart(reals[k], part))
            BY Zenon DEF IsOnPath, IsPart
          <5>5. QED BY <5>3, <5>4
        <4> HIDE DEF passed, parts
        <4>2. passed = parts
          BY <2>4 DEF parts
        <4>3. QED BY <4>1, <4>2
      <3>3. ~IsOnPath(passed, t.target)
        <4> HIDE DEF passed
        <4>1. QED BY <2>1, <2>2, <2>3, <3>2
      <3>4. QED BY <3>1, <3>3
    <2>6. behind \in tasks
      BY <2>5
    <2> HIDE DEF passed, tasks, stops
    <2>7. Trail(behind, rel, reals, k)
      BY <1>4, <2>1, <2>3, <2>4, TrailBehind
    <2>8. IsAtFolder(s, behind, rel, reals, links, k)
      BY <1>4, <2>3, <2>7 DEF IsAtFolder
    <2>9. QED BY <2>1, <2>2, <2>6, <2>8 DEF IsAhead, IsAt
  <1>6. Walk(i).tasks \ {t} \subseteq tasks
    OBVIOUS
  <1> HIDE DEF tasks
  <1>7. ASSUME NEW rel, NEW reals, NEW links,
               IsNamedWay(tree, project, s, Base(i), rel, reals, links),
               Walk(i).rootReal \in {None, reals[0]}, IsAt(s, t, rel, reals, links)
        PROVE  IsAhead(s, tasks, rel, reals, links)
    <2>1. \E k \in 1..Len(rel) : IsAtLink(s, t, rel, reals, links, k)
      BY <1>2, <1>7 DEF IsAt, IsAtFolder
    <2>2. QED BY <1>5, <1>7, <2>1
  <1>8. /\ w.pc = Walk(i).pc /\ w.at = Walk(i).at /\ w.files = Walk(i).files
        /\ w.errors = Walk(i).errors /\ w.rootReal = Walk(i).rootReal
        /\ w.tasks = tasks /\ w.found = Walk(i).found
    BY WalkFacts
  <1> HIDE DEF w
  <1>9. QED BY <1>2, <1>6, <1>7, <1>8, OneTaskHeld

\* Of files no two of which have the same id, all are documents.
LEMMA FilesAreDocuments ==
    ASSUME NEW i, Duplicates(i) = {}, NEW rel \in Walk(i).found
    PROVE  \E f \in Documents(i) : f.locale = Locale(i) /\ f.rel = rel
  <1> DEFINE found == Walk(i).found
             first(id) == CHOOSE r \in found : FoldedId(r) = id
             id == FoldedId(rel)
             f == [id |-> IdOf(first(id)), locale |-> Locale(i), rel |-> first(id)]
  <1>1. \A a, b \in found : FoldedId(a) = FoldedId(b) => a = b
    BY DEF Duplicates
  <1>2. first(id) \in found /\ FoldedId(first(id)) = id
    OBVIOUS
  <1>3. first(id) = rel
    BY <1>1, <1>2
  <1>4. f \in Documents(i)
    BY Zenon DEF Documents
  <1> HIDE DEF first, id
  <1>5. f.locale = Locale(i) /\ f.rel = rel
    BY <1>3
  <1> HIDE DEF f
  <1>6. QED BY <1>4, <1>5

\* The one file of a singleton is there.
LEMMA TheFileIsThere ==
    ASSUME NEW i, IsFiniteSet(Walk(i).found), SingletonErrors(i) = {}, NEW rel \in Walk(i).found
    PROVE  \E f \in SingletonFiles(i) : f.locale = Locale(i) /\ f.rel = rel
  <1> DEFINE found == Walk(i).found
             n == Cardinality(found)
             f == [id |-> Source(i).name, locale |-> Locale(i), rel |-> rel]
  <1>1. n \in Nat /\ n # 0
    BY FS_CardinalityType, FS_EmptySet
  <1>2. ~(n > 1)
    BY DEF SingletonErrors
  <1>3. n = 1
    BY <1>1, <1>2
  <1>4. f \in SingletonFiles(i)
    BY <1>3 DEF SingletonFiles
  <1>5. f.locale = Locale(i) /\ f.rel = rel
    OBVIOUS
  <1> HIDE DEF f
  <1>6. QED BY <1>4, <1>5

\* Without duplicates every file that was found is a document, and one that is
\* not ambiguous is that of a singleton.
LEMMA EndLocaleHeld ==
    ASSUME FiniteInv, WalkInv, HeldInv, discovery # None, NEW i \in DOMAIN discovery.walks,
           EndLocale(i)
    PROVE  HeldInv'
  <1> DEFINE collection == Source(i).kind = "collection"
             more == IF collection THEN Documents(i) ELSE SingletonFiles(i)
             files == Walk(i).files \cup more
             errors == Walk(i).errors \cup (IF collection THEN Duplicates(i) ELSE SingletonErrors(i))
             last == Walk(i).at = Len(LocalesOf(discovery.project, Source(i)))
             pc == IF last THEN "done" ELSE "locale"
             at == IF last THEN 1 ELSE Walk(i).at + 1
             w == [Walk(i) EXCEPT !.files = files, !.errors = errors, !.found = {},
                                  !.rootReal = None, !.pc = pc, !.at = at]
             project == discovery.project
             s == Source(i)
             locales == LocalesOf(project, s)
             seen == discovery.seen
  <1>1. Walk(i).tasks = {} /\ SetWalk(i, w) /\ Walk(i).pc = "list"
    BY Zenon DEF EndLocale
  <1>2. ASSUME errors = {}, NEW rel \in Walk(i).found
        PROVE  \E f \in more : f.locale = Locale(i) /\ f.rel = rel
    <2>1. CASE collection
      <3>1. Duplicates(i) = {}
        BY <1>2, <2>1
      <3>2. QED BY <1>2, <2>1, <3>1, FilesAreDocuments
    <2>2. CASE ~collection
      <3>1. SingletonErrors(i) = {} /\ IsFiniteSet(Walk(i).found)
        BY <1>2, <2>2 DEF FiniteInv
      <3>2. QED BY <1>2, <2>2, <3>1, TheFileIsThere
    <2>3. QED BY <2>1, <2>2
  <1>3. Walk(i).at \in Nat
    BY HeldFacts
  <1>4. /\ Walk(i).files \subseteq files
        /\ more \subseteq files
        /\ errors = {} => Walk(i).errors = {}
        /\ pc = "done" \/ pc = "locale"
        /\ at \in Nat
    BY <1>3
  <1> DEFINE n == Len(locales)
  <1>5. ASSUME NEW a \in 1..n, pc = "done" \/ a < at PROVE a < Walk(i).at \/ a = Walk(i).at
    <2>1. CASE last
      BY <1>3, <2>1
    <2>2. CASE ~last
      BY <1>3, <1>5, <2>2
    <2>3. QED BY <2>1, <2>2
  <1> HIDE DEF more, files, errors, pc, at, n
  <1>6. /\ w.pc = pc /\ w.at = at /\ w.files = files /\ w.errors = errors
    BY WalkFacts
  <1> HIDE DEF w
  <1>7. ASSUME s.filePath = None, w.errors = {},
               NEW a \in 1..n, NEW rel, NEW reals, NEW links,
               IsSteadyWay(seen, project, s, BaseOf(s, locales[a]), rel, reals, links)
        PROVE  Holds(s, locales[a], w, a, rel, reals, links)
    <2>1. Holds(s, locales[a], Walk(i), a, rel, reals, links)
      BY <1>4, <1>6, <1>7, HeldFacts DEF IsHeld, n
    <2>2. ASSUME a < Walk(i).at PROVE \E f \in files : f.locale = locales[a] /\ f.rel = rel
      BY <1>1, <1>4, <2>1, <2>2 DEF Holds
    <2>3. ASSUME a = Walk(i).at PROVE \E f \in files : f.locale = locales[a] /\ f.rel = rel
      <3>1. rel \in Walk(i).found
        BY <1>1, <2>1, <2>3 DEF Holds, Has, IsAhead
      <3>2. Locale(i) = locales[a]
        BY <2>3 DEF Locale
      <3>3. QED BY <1>2, <1>4, <1>6, <1>7, <3>1, <3>2
    <2>4. ASSUME pc = "done" \/ a < at PROVE \E f \in files : f.locale = locales[a] /\ f.rel = rel
      BY <1>5, <2>2, <2>3, <2>4
    <2>5. QED BY <1>4, <1>6, <2>4 DEF Holds
  <1>8. IsHeld(project, s, w, seen)
    BY <1>4, <1>6, <1>7 DEF IsHeld, n
  <1>9. QED BY <1>1, <1>8, HeldGoesOn

\* At first no locale is begun.
LEMMA BeginDiscoveryHeld ==
    ASSUME BeginDiscovery PROVE HeldInv'
  <1> DEFINE project == loaded.project
             ss == project.sources
             walks == [i \in DOMAIN ss |-> NewWalk]
  <1>1. /\ discovered' = None /\ tree' = tree
        /\ discovery' = [project |-> project, walks |-> walks, seen |-> {tree}]
    BY DEF BeginDiscovery, content
  <1>2. \A i \in DOMAIN ss : IsHeld(project, ss[i], walks[i], {tree})
    <2>1. NewWalk.at = 1 /\ NewWalk.pc = "wait"
      BY DEF NewWalk
    <2>2. \A s : IsHeld(project, s, NewWalk, {tree})
      BY <2>1 DEF IsHeld, Holds
    <2>3. QED BY <2>2
  <1> HIDE DEF project, walks
  <1>3. /\ {"project", "walks", "seen"} \subseteq DOMAIN discovery' /\ tree' \in discovery'.seen
        /\ discovery'.project = project /\ discovery'.walks = walks
        /\ discovery'.seen = {tree}
    BY <1>1
  <1>4. WaysAreFound'
    BY <1>1 DEF WaysAreFound
  <1>5. QED BY <1>2, <1>3, <1>4 DEF HeldInv

\* What the walks have is what is discovered.
LEMMA EndDiscoveryHeld ==
    ASSUME WalkInv, HeldInv, EndDiscovery PROVE HeldInv'
  <1> DEFINE project == discovery.project
             seen == discovery.seen
             files == [i \in DOMAIN discovery.walks |-> Walk(i).files]
             errors == UNION {Walk(i).errors : i \in DOMAIN discovery.walks}
             d == [project |-> project, seen |-> seen, errors |-> errors, files |-> files]
  <1>1. /\ discovery # None /\ discovery' = None /\ discovered' = d
        /\ \A i \in DOMAIN discovery.walks : Walk(i).pc = "done"
    BY Zenon DEF EndDiscovery
  <1>2. DOMAIN discovery.walks = DOMAIN project.sources
    BY <1>1 DEF WalkInv, DiscoveryInv
  <1>3. d.project = project /\ d.seen = seen /\ d.errors = errors /\ d.files = files
    BY Zenon
  <1> HIDE DEF d
  <1>4. ASSUME errors = {}, NEW i \in DOMAIN d.project.sources
        PROVE  LET s == d.project.sources[i]
                   locales == LocalesOf(d.project, s)
               IN  s.filePath = None =>
                       \A a \in 1..Len(locales) : \A rel, reals, links :
                           IsSteadyWay(d.seen, d.project, s, BaseOf(s, locales[a]),
                                       rel, reals, links)
                               => \E f \in d.files[i] : f.locale = locales[a] /\ f.rel = rel
    <2> DEFINE s == d.project.sources[i]
               locales == LocalesOf(d.project, s)
    <2>1. /\ Walk(i).errors = {} /\ files[i] = Walk(i).files /\ Walk(i).pc = "done"
          /\ Source(i) = s
      BY <1>1, <1>2, <1>3, <1>4 DEF Source
    <2>2. IsHeld(d.project, s, Walk(i), d.seen)
      BY <1>1, <1>2, <1>3, <1>4, <2>1, HeldFacts
    <2>3. ASSUME s.filePath = None,
                 NEW a \in 1..Len(locales), NEW rel, NEW reals, NEW links,
                 IsSteadyWay(d.seen, d.project, s, BaseOf(s, locales[a]), rel, reals, links)
          PROVE  \E f \in d.files[i] : f.locale = locales[a] /\ f.rel = rel
      <3>1. Holds(s, locales[a], Walk(i), a, rel, reals, links)
        BY <2>1, <2>2, <2>3 DEF IsHeld
      <3>2. QED BY <1>3, <2>1, <3>1 DEF Holds
    <2> HIDE DEF s, locales
    <2>4. s.filePath = None =>
              \A a \in 1..Len(locales) : \A rel, reals, links :
                  IsSteadyWay(d.seen, d.project, s, BaseOf(s, locales[a]), rel, reals, links)
                      => \E f \in d.files[i] : f.locale = locales[a] /\ f.rel = rel
      BY <2>3, Zenon
    <2>5. QED BY <2>4 DEF s, locales
  <1>5. errors = {} => IsComplete(d)
    BY <1>4, Zenon DEF IsComplete
  <1>6. WaysAreFound'
    BY <1>1, <1>3, <1>5 DEF WaysAreFound
  <1>7. QED BY <1>1, <1>6 DEF HeldInv

\* After an edit fewer ways were the same throughout.
LEMMA EditTreeHeld ==
    ASSUME WalkInv, HeldInv, EditTree PROVE HeldInv'
  <1>1. WaysAreFound'
    <2>1. WaysAreFound /\ discovered' = discovered
      BY DEF HeldInv, EditTree
    <2>2. QED BY <2>1 DEF WaysAreFound
  <1>2. CASE discovery = None
    <2>1. discovery' = None
      BY <1>2 DEF EditTree
    <2>2. QED BY <1>1, <2>1 DEF HeldInv
  <1>3. CASE discovery # None
    <2> DEFINE seen == discovery.seen \cup {tree'}
    <2>1. discovery' = [discovery EXCEPT !.seen = seen]
      BY <1>3, EditKeepsWalks
    <2>2. /\ {"project", "walks", "seen"} \subseteq DOMAIN discovery
          /\ \A i \in DOMAIN discovery.project.sources :
                 IsHeld(discovery.project, discovery.project.sources[i], discovery.walks[i],
                        discovery.seen)
      BY <1>3 DEF HeldInv
    <2>3. /\ {"project", "walks", "seen"} \subseteq DOMAIN discovery'
          /\ discovery'.project = discovery.project /\ discovery'.walks = discovery.walks
          /\ discovery'.seen = seen
      <3> HIDE DEF seen
      <3>1. QED BY <2>1, <2>2
    <2>4. discovery.seen \subseteq seen /\ tree' \in seen
      OBVIOUS
    <2> HIDE DEF seen
    <2>5. ASSUME NEW project, NEW s, NEW w, IsHeld(project, s, w, discovery.seen)
          PROVE  IsHeld(project, s, w, seen)
      <3>1. \A base, rel, reals, links :
                IsSteadyWay(seen, project, s, base, rel, reals, links)
                    => IsSteadyWay(discovery.seen, project, s, base, rel, reals, links)
        BY <2>4 DEF IsSteadyWay
      <3>2. QED BY <2>5, <3>1 DEF IsHeld
    <2>6. QED BY <1>1, <2>2, <2>3, <2>4, <2>5 DEF HeldInv
  <1>4. QED BY <1>2, <1>3

\* Nothing is found at first.
LEMMA InitHeld == Init => HeldInv
  BY DEF Init, HeldInv, WaysAreFound

\* Every step.
LEMMA HeldNextInv ==
    ASSUME NoneIsNoPath, AcceptedInv, FiniteInv, WalkInv, HeldInv, [Next]_vars PROVE HeldInv'
  <1>1. CASE UNCHANGED <<discovery, discovered, tree>>
    <2>1. discovery' = discovery /\ discovered' = discovered /\ tree' = tree
      BY <1>1
    <2>2. WaysAreFound'
      <3>1. WaysAreFound
        BY DEF HeldInv
      <3>2. QED BY <2>1, <3>1 DEF WaysAreFound
    <2>3. QED BY <2>1, <2>2 DEF HeldInv
  <1>2. CASE UNCHANGED <<content, walking>>
    BY <1>1, <1>2 DEF content, walking
  <1>3. CASE UNCHANGED vars
    BY <1>2, <1>3 DEF vars
  <1>4. CASE BeginDiscovery
    BY <1>4, BeginDiscoveryHeld
  <1>5. ASSUME discovery # None, NEW i \in DOMAIN discovery.walks, WalkNext(i) PROVE HeldInv'
    BY <1>5, BeginSourceHeld, BeginLocaleHeld, ReadFolderHeld, FailedHeld, LookAtLinkHeld,
       FindTargetHeld, FindRootHeld, EnterLinkHeld, EndLocaleHeld, Zenon DEF WalkNext
  <1>6. CASE EndDiscovery
    BY <1>6, EndDiscoveryHeld
  <1>7. CASE Interrupt
    <2>1. discovery' = None /\ UNCHANGED discovered
      BY <1>7 DEF Interrupt
    <2>2. WaysAreFound'
      <3>1. WaysAreFound
        BY DEF HeldInv
      <3>2. QED BY <2>1, <3>1 DEF WaysAreFound
    <2>3. QED BY <2>1, <2>2 DEF HeldInv
  <1>8. CASE EditTree
    BY <1>8, EditTreeHeld
  <1>9. QED
    <2>1. Next => \/ UNCHANGED <<content, walking>> \/ BeginDiscovery
                  \/ discovery # None /\ \E i \in DOMAIN discovery.walks : WalkNext(i)
                  \/ EndDiscovery \/ Interrupt \/ EditTree
      BY Zenon DEF Next
    <2>2. QED BY <1>2, <1>3, <1>4, <1>5, <1>6, <1>7, <1>8, <2>1, Zenon

\* The trees that were seen are trees.
SeenInv ==
    /\ discovery # None => \A nodes \in discovery.seen : AreNodes(nodes)
    /\ discovered # None => /\ discovered.seen # {}
                            /\ \A nodes \in discovered.seen : AreNodes(nodes)
LEMMA SeenNextInv ==
    ASSUME WalkInv, FiniteInv, FiniteInv', HeldInv, SeenInv, [Next]_vars PROVE SeenInv'
  <1>1. AreNodes(tree) /\ AreNodes(tree)'
    BY DEF FiniteInv
  <1>2. discovery # None => {"project", "walks", "seen"} \subseteq DOMAIN discovery /\ tree \in discovery.seen
    BY DEF HeldInv
  <1>3. CASE UNCHANGED <<discovery, discovered>>
    BY <1>3 DEF SeenInv
  <1>4. CASE UNCHANGED walking \/ UNCHANGED vars
    BY <1>3, <1>4 DEF walking, vars
  <1>5. CASE BeginDiscovery
    <2>1. discovered' = None /\ discovery'.seen = {tree}
      BY <1>5 DEF BeginDiscovery
    <2>2. QED BY <1>1, <2>1 DEF SeenInv
  <1>6. ASSUME discovery # None, NEW i \in DOMAIN discovery.walks, WalkNext(i) PROVE SeenInv'
    <2>1. \E w : SetWalk(i, w)
      BY <1>6, Zenon DEF WalkNext, BeginSource, BeginLocale, ReadFolder, CannotRead,
                         ListingFails, LookAtLink, FindTarget, FindRoot, EnterLink, EndLocale
    <2>2. PICK w : SetWalk(i, w)
      BY <2>1
    <2>3. discovery'.seen = discovery.seen /\ discovered' = discovered
      BY <1>2, <1>6, <2>2 DEF SetWalk
    <2>4. QED BY <1>6, <2>3 DEF SeenInv
  <1>7. CASE EndDiscovery
    <2>1. discovery # None /\ discovery' = None /\ discovered'.seen = discovery.seen
      BY <1>7 DEF EndDiscovery
    <2>2. QED BY <1>2, <2>1 DEF SeenInv
  <1>8. CASE Interrupt
    <2>1. discovery' = None /\ discovered' = discovered
      BY <1>8 DEF Interrupt
    <2>2. QED BY <2>1 DEF SeenInv
  <1>9. CASE EditTree
    <2>1. discovered' = discovered
      BY <1>9 DEF EditTree
    <2>2. CASE discovery = None
      <3>1. discovery' = None
        BY <1>9, <2>2 DEF EditTree
      <3>2. QED BY <2>1, <3>1 DEF SeenInv
    <2>3. CASE discovery # None
      <3>1. discovery'.seen = discovery.seen \cup {tree'}
        BY <1>2, <1>9, <2>3, EditKeepsWalks
      <3>2. \A nodes \in discovery.seen : AreNodes(nodes)
        BY <2>3 DEF SeenInv
      <3>3. AreNodes(tree')
        BY <1>1 DEF AreNodes
      <3>4. QED BY <2>1, <3>1, <3>2, <3>3 DEF SeenInv
    <2>4. QED BY <2>2, <2>3
  <1>10. QED
    <2>1. Next => \/ UNCHANGED walking \/ BeginDiscovery
                  \/ discovery # None /\ \E i \in DOMAIN discovery.walks : WalkNext(i)
                  \/ EndDiscovery \/ Interrupt \/ EditTree
      BY Zenon DEF Next
    <2>2. QED BY <1>4, <1>5, <1>6, <1>7, <1>8, <1>9, <2>1, Zenon

\* The way down a path: after each of its names below the base, where it leads.
RealsOf(nodes, base, rel) ==
    [k \in 0..Len(rel) |-> Route(nodes, base \o rel)[Len(base) + k]]
LinksOf(reals, rel) == {k \in 1..Len(rel) : reals[k] # Append(reals[k - 1], rel[k])}

\* What each of its steps is.
IsStop(nodes, reals, base, rel, k) ==
    IsList(reals[k]) /\ RealIn(nodes, base \o SubSeq(rel, 1, k)) = reals[k]
IsStep(nodes, reals, rel, k) ==
    LET next == Append(reals[k - 1], rel[k])
    IN  IF KindIn(nodes, next) = "link" THEN reals[k] = nodes[next].to ELSE reals[k] = next
LEMMA WaySteps ==
    ASSUME NEW nodes, AreNodes(nodes), NEW base, IsList(base), NEW rel, IsList(rel),
           NEW reals, reals = RealsOf(nodes, base, rel)
    PROVE  /\ Len(rel) \in Nat /\ reals[0] = RealIn(nodes, base)
           /\ reals[Len(rel)] = RealIn(nodes, base \o rel)
           /\ \A k \in 0..Len(rel) : IsStop(nodes, reals, base, rel, k)
           /\ \A k \in 1..Len(rel) : IsStep(nodes, reals, rel, k)
  <1> DEFINE path == base \o rel
             route == Route(nodes, path)
             b == Len(base)
             n == Len(rel)
  <1>1. /\ IsList(path) /\ Len(path) = b + n /\ b \in Nat /\ n \in Nat
        /\ \A k \in 1..n : path[b + k] = rel[k]
        /\ \A k \in 0..n : SubSeq(path, 1, b + k) = base \o SubSeq(rel, 1, k)
    BY PathsJoin
  <1>2. /\ \A k \in 0..n : b + k \in 0..(b + n)
        /\ \A k \in 1..n : b + k \in 1..(b + n) /\ (b + k) - 1 = b + (k - 1) /\ k - 1 \in 0..n
        /\ 0 \in 0..n /\ n \in 0..n /\ b + 0 = b
    BY <1>1
  <1>3. \A k \in 0..n : reals[k] = route[b + k]
    BY Zenon DEF RealsOf
  <1>4. \A k \in 0..(b + n) : IsList(route[k])
    BY <1>1, RoutesAreLists
  <1>5. \A k \in 1..(b + n) : route[k] = NextReal(nodes, path, route[k - 1], k)
    <2> HIDE DEF path, b, n
    <2>1. IsList(path) /\ Len(path) = b + n
      BY <1>1
    <2>2. \A k \in 1..Len(path) : route[k] = NextReal(nodes, path, route[k - 1], k)
      BY <2>1, RouteFacts
    <2>3. QED BY <2>1, <2>2
  <1>6. ASSUME NEW k \in 0..n
        PROVE  IsList(reals[k]) /\ RealIn(nodes, base \o SubSeq(rel, 1, k)) = reals[k]
    <2> DEFINE m == b + k
    <2>1. m \in 0..Len(path)
      BY <1>1, <1>2
    <2>2. RealIn(nodes, SubSeq(path, 1, m)) = route[m]
      <3> HIDE DEF m, path
      <3>1. QED BY <1>1, <2>1, RoutesBegin
    <2> HIDE DEF route, path
    <2>3. QED BY <1>1, <1>2, <1>3, <1>4, <2>2
  <1>7. ASSUME NEW k \in 1..n
        PROVE  IsStep(nodes, reals, rel, k)
    <2>1. route[b + k] = NextReal(nodes, path, route[b + (k - 1)], b + k)
      BY <1>2, <1>5
    <2>2. reals[k] = route[b + k] /\ reals[k - 1] = route[b + (k - 1)] /\ path[b + k] = rel[k]
      BY <1>1, <1>2, <1>3
    <2> HIDE DEF route, path
    <2>3. QED BY <2>1, <2>2 DEF NextReal, IsStep
  <1>8. SubSeq(rel, 1, 0) = <<>> /\ base \o <<>> = base /\ SubSeq(rel, 1, n) = rel
    BY Beginnings, ConcatEmptySeq, SubSeqFull DEF IsList
  <1>9. reals[0] = RealIn(nodes, base) /\ reals[n] = RealIn(nodes, path)
    BY <1>2, <1>6, <1>8
  <1>10. QED BY <1>1, <1>6, <1>7, <1>9 DEF IsStop

\* A path that leads to a file leads through folders.
LEMMA WayKinds ==
    ASSUME NEW nodes, NEW base, IsList(base), Len(base) > 0, NEW rel, IsList(rel),
           NEW k \in 0..Len(rel)
    PROVE  LET reals == RealsOf(nodes, base, rel)
           IN  /\ KindAt(nodes, base \o rel) # "none" /\ k # Len(rel) =>
                      KindAt(nodes, base \o SubSeq(rel, 1, k)) = "folder"
               /\ KindAt(nodes, base \o rel) # "none" =>
                      KindIn(nodes, reals[Len(rel)]) = KindAt(nodes, base \o rel)
  <1> DEFINE path == base \o rel
             route == Route(nodes, path)
             b == Len(base)
             n == Len(rel)
             reals == RealsOf(nodes, base, rel)
  <1>1. /\ IsList(path) /\ Len(path) = b + n /\ b \in Nat /\ n \in Nat
        /\ SubSeq(path, 1, b + k) = base \o SubSeq(rel, 1, k)
    BY PathsJoin
  <1>2. /\ b + k \in 0..Len(path) /\ b + n \in 0..Len(path) /\ n \in 0..n
        /\ \A j \in 1..((b + k) - 1) : j \in 1..((b + n) - 1)
        /\ k # n => b + k \in 1..((b + n) - 1)
    BY <1>1
  <1>3. KindAt(nodes, path) =
            IF \A j \in 1..((b + n) - 1) : KindIn(nodes, route[j]) = "folder"
            THEN KindIn(nodes, route[b + n]) ELSE "none"
    BY <1>1 DEF KindAt
  <1>4. KindAt(nodes, SubSeq(path, 1, b + k)) =
            IF \A j \in 1..((b + k) - 1) : KindIn(nodes, route[j]) = "folder"
            THEN KindIn(nodes, route[b + k]) ELSE "none"
    BY <1>1, <1>2, RoutesBegin
  <1>5. reals[n] = route[b + n]
    BY <1>2 DEF RealsOf
  <1> HIDE DEF route, path, reals
  <1>6. QED BY <1>1, <1>2, <1>3, <1>4, <1>5 DEF path, reals

\* The links that may be followed, in terms of the way.
NoLoops(reals, links) == \A k \in links : \A j \in 0..(k - 1) : reals[k] # reals[j]
LEMMA FollowedLinks ==
    ASSUME NEW nodes, NEW s, NEW base, NEW rel, IsList(rel), Len(rel) > 0,
           NEW reals, reals = RealsOf(nodes, base, rel)
    PROVE  MayFollow(nodes, s, base, rel)
               <=> /\ NoLoops(reals, LinksOf(reals, rel) \ {Len(rel)})
                   /\ Names(s.include, rel, LinksOf(reals, rel) \ {Len(rel)})
  <1> DEFINE n == Len(rel)
             links == LinksOf(reals, rel)
             route == Route(nodes, base \o rel)
             real(k) == route[Len(base) + k]
             few == {k \in 1..(n - 1) : real(k) # Append(real(k - 1), rel[k])}
  <1>1. MayFollow(nodes, s, base, rel)
            <=> /\ \A k \in few : \A j \in 0..(k - 1) : real(k) # real(j)
                /\ \E a \in FileAlternatives(s.include) : \E read \in Ways(a, rel) :
                       \A k \in few : ~a[read[k]].deep /\ a[read[k]].literal
    BY Zenon DEF MayFollow
  <1>2. \A k \in 0..n : reals[k] = real(k)
    BY Zenon DEF RealsOf
  <1>3. n \in Nat \ {0} /\ \A k \in 1..n : k \in 0..n /\ k - 1 \in 0..n /\ \A j \in 0..(k - 1) : j \in 0..n
    BY LenProperties DEF IsList
  <1>4. links \ {n} = few
    <2>1. \A k : k \in 1..(n - 1) <=> k \in 1..n /\ k # n
      BY <1>3
    <2> HIDE DEF real
    <2>2. \A k : k \in links <=> k \in 1..n /\ real(k) # Append(real(k - 1), rel[k])
      BY <1>2, <1>3 DEF LinksOf
    <2> HIDE DEF links, n
    <2>3. QED BY <2>1, <2>2
  <1>5. links \subseteq 1..n
    BY DEF LinksOf
  <1> HIDE DEF real, few, links, n
  <1>6. NoLoops(reals, links \ {n}) <=> \A k \in few : \A j \in 0..(k - 1) : real(k) # real(j)
    BY <1>2, <1>3, <1>4, <1>5 DEF NoLoops
  <1>7. QED BY <1>1, <1>4, <1>6, Zenon DEF Names, links, n

\* A named path is a way in this sense.
LEMMA TheWay ==
    ASSUME NEW nodes, AreNodes(nodes), NEW base, IsList(base), Len(base) > 0,
           NEW rel, IsList(rel), Len(rel) > 0,
           NEW project, NEW s, IsNamed(nodes, project, s, base, rel)
    PROVE  LET reals == RealsOf(nodes, base, rel)
           IN  IsNamedWay(nodes, project, s, base, rel, reals, LinksOf(reals, rel))
  <1> DEFINE reals == RealsOf(nodes, base, rel)
             links == LinksOf(reals, rel)
             n == Len(rel)
  <1>1. KindAt(nodes, base \o rel) = "file"
        /\ IsWanted(project, s, base, rel) /\ MayFollow(nodes, s, base, rel)
    BY DEF IsNamed
  <1>2. /\ n \in Nat /\ n \in 0..n
        /\ \A k \in 0..n : /\ IsList(reals[k])
                           /\ RealIn(nodes, base \o SubSeq(rel, 1, k)) = reals[k]
        /\ \A k \in 1..n : IsStep(nodes, reals, rel, k)
    <2> HIDE DEF reals
    <2>1. reals = RealsOf(nodes, base, rel)
      BY DEF reals
    <2> HIDE DEF reals
    <2>2. n \in Nat
      BY <2>1, WaySteps
    <2>3. ASSUME NEW k \in 0..n
          PROVE  IsList(reals[k]) /\ RealIn(nodes, base \o SubSeq(rel, 1, k)) = reals[k]
      <3>1. \A m \in 0..Len(rel) : IsStop(nodes, reals, base, rel, m)
        BY ONLY <2>1, AreNodes(nodes), IsList(base), IsList(rel), WaySteps
      <3>2. QED BY <3>1 DEF IsStop
    <2>4. ASSUME NEW k \in 1..n PROVE IsStep(nodes, reals, rel, k)
      <3>1. \A m \in 1..Len(rel) : IsStep(nodes, reals, rel, m)
        BY ONLY <2>1, AreNodes(nodes), IsList(base), IsList(rel), WaySteps
      <3>2. QED BY <3>1
    <2> HIDE DEF n
    <2>5. QED BY <2>2, <2>3, <2>4
  <1>3. SubSeq(rel, 1, n) = rel
    BY SubSeqFull DEF IsList
  <1>4. \A k \in 0..n : KindAt(nodes, base \o SubSeq(rel, 1, k))
                            = IF k = n THEN "file" ELSE "folder"
    <2>1. ASSUME NEW k \in 0..n, k # n PROVE KindAt(nodes, base \o SubSeq(rel, 1, k)) = "folder"
      <3>1. KindAt(nodes, base \o rel) # "none"
        BY <1>1
      <3>2. QED BY <2>1, <3>1, WayKinds
    <2>2. QED BY <1>1, <1>3, <2>1
  <1>5. \A k \in 1..n : IF k \in links THEN KindIn(nodes, Append(reals[k - 1], rel[k])) = "link"
                        ELSE reals[k] = Append(reals[k - 1], rel[k])
    <2>1. \A k : k \in links <=> k \in 1..n /\ reals[k] # Append(reals[k - 1], rel[k])
      BY DEF LinksOf
    <2> HIDE DEF reals, links, n
    <2>2. QED BY <1>2, <2>1 DEF IsStep
  <1>6. IsWay(nodes, base, rel, reals, links)
    <2>1. links \subseteq 1..n
      BY DEF LinksOf
    <2> HIDE DEF reals, links
    <2>2. QED BY <1>2, <1>4, <1>5, <2>1 DEF IsWay
  <1>7. LiesOpen(project, s, base, rel) /\ ~ExcludesFile(s.exclude, rel)
    <2>1. DOMAIN rel = 1..n /\ \A k \in 1..(n - 1) : k \in 1..n /\ k < n
      BY <1>2, LenProperties DEF IsList
    <2>2. QED BY <1>1, <2>1 DEF IsWanted, LiesOpen, OpenFor
  <1>8. /\ \A k \in links \ {n} : \A j \in 0..(k - 1) : reals[k] # reals[j]
        /\ Names(s.include, rel, links \ {n})
    <2> HIDE DEF reals
    <2>1. reals = RealsOf(nodes, base, rel)
      BY DEF reals
    <2>2. NoLoops(reals, links \ {n}) /\ Names(s.include, rel, links \ {n})
      BY ONLY <1>1, <2>1, IsList(rel), Len(rel) > 0, FollowedLinks
    <2>3. QED BY <2>2 DEF NoLoops
  <1> HIDE DEF reals, links
  <1>9. QED BY <1>6, <1>7, <1>8 DEF IsNamedWay, reals, links

\* A source of an accepted config that is walked lies at a list of names, and is
\* walked for a list of locales.
PathsAreLists ==
    \A texts : Accepted(ConfigOf(texts)) =>
        \A s \in Elements(Sources(ConfigOf(texts))) :
            /\ IsList(LocalesOf(ResolveProject(ConfigOf(texts)), s))
            /\ s.filePath = None =>
                   /\ IsList(s.root) /\ Len(s.root) > 0
                   /\ \A locale : IsList(BaseOf(s, locale)) /\ Len(BaseOf(s, locale)) > 0
LEMMA AcceptedPaths ==
    ASSUME PathsAreLists, NEW project, IsAccepted(project), NEW i \in DOMAIN project.sources
    PROVE  LET s == project.sources[i]
           IN  /\ IsList(LocalesOf(project, s))
               /\ s.filePath = None =>
                      /\ IsList(s.root) /\ Len(s.root) > 0
                      /\ \A locale : IsList(BaseOf(s, locale)) /\ Len(BaseOf(s, locale)) > 0
  <1>1. PICK texts : Accepted(ConfigOf(texts)) /\ project = ResolveProject(ConfigOf(texts))
    BY DEF IsAccepted
  <1>2. project.sources[i] \in Elements(Sources(ConfigOf(texts)))
    BY <1>1 DEF ResolveProject, Elements
  <1>3. QED BY <1>1, <1>2 DEF PathsAreLists

\* A discovery without errors has every file that the patterns name whose path
\* was the same throughout (the first half of DiscoveredIsThere, at every depth).
NamedAreFound ==
    discovered # None /\ discovered.errors = {} =>
        LET project == discovered.project
            seen == discovered.seen
        IN  \A i \in DOMAIN project.sources :
                LET s == project.sources[i]
                IN  s.filePath # None \/ \A locale \in Elements(LocalesOf(project, s)) :
                        LET base == BaseOf(s, locale)
                        IN  \A rel : /\ IsList(rel) /\ Len(rel) > 0
                                     /\ IsSteady(seen, base \o rel)
                                     /\ \A nodes \in seen : IsNamed(nodes, project, s, base, rel)
                                     => \E f \in discovered.files[i] : f.locale = locale /\ f.rel = rel
LEMMA WaysAreNamed ==
    ASSUME PathsAreLists, AcceptedInv, SeenInv, WaysAreFound PROVE NamedAreFound
  <1> SUFFICES ASSUME discovered # None, discovered.errors = {},
                      NEW i \in DOMAIN discovered.project.sources,
                      discovered.project.sources[i].filePath = None,
                      NEW locale \in Elements(LocalesOf(discovered.project,
                                                        discovered.project.sources[i])),
                      NEW rel, IsList(rel), Len(rel) > 0,
                      IsSteady(discovered.seen,
                               BaseOf(discovered.project.sources[i], locale) \o rel),
                      \A nodes \in discovered.seen :
                          IsNamed(nodes, discovered.project, discovered.project.sources[i],
                                  BaseOf(discovered.project.sources[i], locale), rel)
               PROVE  \E f \in discovered.files[i] : f.locale = locale /\ f.rel = rel
    BY DEF NamedAreFound
  <1> DEFINE project == discovered.project
             seen == discovered.seen
             s == project.sources[i]
             base == BaseOf(s, locale)
             locales == LocalesOf(project, s)
  <1>1. IsList(locales) /\ IsList(base) /\ Len(base) > 0
    BY AcceptedPaths DEF AcceptedInv
  <1>2. PICK a \in 1..Len(locales) : locale = locales[a]
    BY <1>1, LenProperties DEF Elements, IsList
  <1>3. PICK one \in seen : TRUE
    BY DEF SeenInv
  <1> DEFINE reals == RealsOf(one, base, rel)
             links == LinksOf(reals, rel)
  <1>4. ASSUME NEW nodes \in seen PROVE IsNamedWay(nodes, project, s, base, rel, reals, links)
    <2>1. Route(nodes, base \o rel) = Route(one, base \o rel)
      BY <1>3 DEF IsSteady
    <2>2. RealsOf(nodes, base, rel) = reals
      BY <2>1 DEF RealsOf
    <2>3. AreNodes(nodes) /\ IsNamed(nodes, project, s, base, rel)
      BY DEF SeenInv
    <2> HIDE DEF project, s, base, seen, reals
    <2>4. QED BY <1>1, <2>2, <2>3, TheWay
  <1>5. IsSteadyWay(seen, project, s, BaseOf(s, locales[a]), rel, reals, links)
    BY <1>2, <1>4 DEF IsSteadyWay
  <1>6. IsComplete(discovered)
    BY DEF WaysAreFound
  <1> HIDE DEF reals, links
  <1>7. \A j \in 1..Len(locales) : \A way, all, some :
            IsSteadyWay(seen, project, s, BaseOf(s, locales[j]), way, all, some)
                => \E f \in discovered.files[i] : f.locale = locales[j] /\ f.rel = way
    BY <1>6, Zenon DEF IsComplete
  <1>8. \E f \in discovered.files[i] : f.locale = locales[a] /\ f.rel = rel
    BY <1>2, <1>5, <1>7, Zenon
  <1> HIDE DEF locales
  <1>9. QED BY <1>2, <1>8

\* However deep a file lies and behind however many links, and whatever is edited
\* meanwhile: a discovery without errors has it, if the patterns name it and its
\* path leads through the same folders throughout.
THEOREM NoFileIsMissed ==
    ASSUME PatternsAreParsed, NoneIsNoPath, PathsAreLists, EditsAreTrees
    PROVE  Spec /\ IsFiniteSet(DOMAIN tree) /\ AreNodes(tree) => []NamedAreFound
  <1> DEFINE Inv == NamesInv /\ WalkInv /\ AcceptedInv /\ FiniteInv /\ HeldInv /\ SeenInv
  <1>1. Init /\ IsFiniteSet(DOMAIN tree) /\ AreNodes(tree) => Inv
    BY InitNames, InitWalk, InitHeld DEF Init, AcceptedInv, FiniteInv, SeenInv
  <1>2. Inv /\ [Next]_vars => Inv'
    BY NamesNextInv, WalkNextInv, AcceptedNextInv, FiniteNextInv, HeldNextInv, SeenNextInv
  <1>3. Inv => NamedAreFound
    BY WaysAreNamed DEF HeldInv
  <1>4. QED BY <1>1, <1>2, <1>3, PTL DEF Spec


-----------------------------------------------------------------------------
(* What a discovery has was there.                                         *)

\* A path that is the same in all these trees: where each of its names leads,
\* which of them are links, and the kind of what is there.
IsAtWay(nodes, base, rel, reals, links, kinds) ==
    /\ reals = RealsOf(nodes, base, rel) /\ links = LinksOf(reals, rel)
    /\ \A k \in 0..Len(rel) : KindIn(nodes, reals[k]) = kinds[k]
IsFixed(trees, base, rel, reals, links, kinds) ==
    \A nodes \in trees : IsAtWay(nodes, base, rel, reals, links, kinds)

\* Its links may be followed.
MayBeFound(s, rel, reals, links) ==
    NoLoops(reals, links \ {Len(rel)}) /\ Names(s.include, rel, links \ {Len(rel)})

\* A task that came down the first k names of it.
CameToFolder(s, t, rel, reals, links, k) ==
    /\ NoLoops(reals, links \cap 1..k) /\ t.stage = StageAt(s, rel, links, k)
    /\ Trail(t, rel, reals, k)
CameToLink(s, t, rel, reals, links, kinds, k) ==
    LET before == links \cap 1..(k - 1)
    IN  /\ k > 0 /\ (k \in links \/ (t.kind = "link" /\ kinds[k] = "link"))
        /\ NoLoops(reals, before) /\ Trail(t, rel, reals, k - 1)
        /\ t.stage = StageOf(s.include, t.rel, before \cup {k})
        /\ t.matches => Names(s.include, t.rel, before)
        /\ t.kind = "enter" => t.target \in {None, reals[k]}
CameDown(s, t, rel, reals, links, kinds) ==
    \A k \in 0..Len(rel) : t.rel = SubSeq(rel, 1, k) =>
        IF t.kind = "folder" THEN CameToFolder(s, t, rel, reals, links, k)
        ELSE CameToLink(s, t, rel, reals, links, kinds, k)

\* A file that was found was there at some time, and if its path was the same
\* throughout its links may be followed.
IsFoundRightly(s, base, rel, seen) ==
    /\ IsList(rel) /\ Len(rel) > 0
    /\ \E nodes \in seen : KindAt(nodes, base \o rel) = "file"
    /\ \A reals, links, kinds : IsFixed(seen, base, rel, reals, links, kinds)
                                    => MayBeFound(s, rel, reals, links)
IsOnWay(s, base, w, rel, reals, links, kinds) ==
    /\ w.rootReal \in {None, reals[0]}
    /\ \A t \in w.tasks : CameDown(s, t, rel, reals, links, kinds)
IsRight(project, s, w, seen) ==
    s.filePath = None =>
        LET base == BaseOf(s, LocalesOf(project, s)[w.at])
        IN  /\ \A f \in w.files : IsFoundRightly(s, BaseOf(s, f.locale), f.rel, seen)
            /\ \A rel \in w.found : IsFoundRightly(s, base, rel, seen)
            /\ \A rel, reals, links, kinds :
                   /\ IsList(rel) /\ Len(rel) > 0
                   /\ IsFixed(seen, base, rel, reals, links, kinds)
                   => IsOnWay(s, base, w, rel, reals, links, kinds)

FoundAreRight ==
    discovered # None =>
        \A i \in DOMAIN discovered.project.sources :
            LET s == discovered.project.sources[i]
            IN  s.filePath = None => \A f \in discovered.files[i] :
                    IsFoundRightly(s, BaseOf(s, f.locale), f.rel, discovered.seen)
RightInv ==
    /\ discovery # None =>
           \A i \in DOMAIN discovery.project.sources :
               IsRight(discovery.project, discovery.project.sources[i], discovery.walks[i],
                       discovery.seen)
    /\ FoundAreRight

\* A path in a folder is that of the folder and a name.
LEMMA ChildFacts ==
    ASSUME NEW path, IsList(path), NEW p, IsList(p), Len(p) = Len(path) + 1, IsPrefix(path, p)
    PROVE  p = Append(path, Last(p))
  <1>1. Len(path) \in Nat /\ Len(p) \in Nat /\ SubSeq(path, 1, Len(path)) = path
    BY LenProperties, SubSeqFull DEF IsList
  <1>2. SubSeq(p, 1, Len(path)) = path
    BY <1>1 DEF IsPrefix
  <1>3. Len(p) \in 1..Len(p) /\ Len(p) - 1 = Len(path)
    BY <1>1
  <1>4. SubSeq(p, 1, Len(p)) = Append(SubSeq(p, 1, Len(p) - 1), p[Len(p)])
    BY <1>3, Beginnings
  <1>5. SubSeq(p, 1, Len(p)) = p
    BY SubSeqFull DEF IsList
  <1>6. QED BY <1>2, <1>3, <1>4, <1>5 DEF Last

\* A path with a name more that another begins with.
IsBeginning(path, name, rel, k) ==
    /\ k \in 1..Len(rel) /\ Len(path) = k - 1 /\ k - 1 \in 0..Len(rel)
    /\ path = SubSeq(rel, 1, k - 1) /\ name = rel[k]
LEMMA SameBeginning ==
    ASSUME NEW rel, IsList(rel), NEW path, IsList(path), NEW name, NEW k \in 0..Len(rel),
           Append(path, name) = SubSeq(rel, 1, k)
    PROVE  IsBeginning(path, name, rel, k)
  <1> DEFINE longer == Append(path, name)
             before == SubSeq(rel, 1, k - 1)
  <1>1. /\ Len(longer) = Len(path) + 1 /\ longer[Len(path) + 1] = name
        /\ SubSeq(longer, 1, Len(path)) = path /\ Len(path) \in Nat /\ Len(rel) \in Nat
    <2>1. Len(path) \in Nat /\ Len(rel) \in Nat /\ Len(path) \in 0..Len(path)
      BY LenProperties DEF IsList
    <2>2. QED BY <2>1, PathFacts
  <1>2. Len(longer) = k /\ \A i \in 1..k : longer[i] = rel[i]
    BY Beginnings
  <1> HIDE DEF longer
  <1>3. k \in 1..Len(rel) /\ Len(path) = k - 1 /\ k - 1 \in 0..Len(rel) /\ (k - 1) + 1 = k
    BY <1>1, <1>2
  <1>4. name = rel[k]
    BY <1>1, <1>2, <1>3
  <1>5. longer = Append(before, rel[k]) /\ IsList(before) /\ Len(before) = k - 1
    BY <1>3, Beginnings DEF longer
  <1> HIDE DEF before
  <1>6. SubSeq(longer, 1, k - 1) = before
    <2>1. k - 1 \in 0..Len(before)
      BY <1>3, <1>5
    <2>2. QED BY <1>5, <2>1, PathFacts
  <1>7. QED BY <1>1, <1>3, <1>4, <1>6 DEF before, IsBeginning

\* A file in a folder is there.
LEMMA ChildIsThere ==
    ASSUME NEW nodes, NEW path, IsList(path), Len(path) > 0, KindAt(nodes, path) = "folder",
           NEW name, KindIn(nodes, Append(RealIn(nodes, path), name)) = "file"
    PROVE  KindAt(nodes, Append(path, name)) = "file"
  <1> DEFINE longer == Append(path, name)
             n == Len(path)
             route == Route(nodes, longer)
  <1>1. /\ IsList(longer) /\ Len(longer) = n + 1 /\ longer[n + 1] = name
        /\ SubSeq(longer, 1, n) = path /\ n \in Nat
    <2>1. n \in Nat /\ n \in 0..n
      BY LenProperties DEF IsList
    <2>2. /\ IsList(longer) /\ Len(longer) = n + 1 /\ longer[n + 1] = name
          /\ \A k \in 0..n : SubSeq(longer, 1, k) = SubSeq(path, 1, k)
          /\ SubSeq(path, 1, n) = path
      BY PathFacts
    <2> HIDE DEF longer, n
    <2>3. SubSeq(longer, 1, n) = SubSeq(path, 1, n)
      BY <2>1, <2>2
    <2>4. QED BY <2>1, <2>2, <2>3, Zenon
  <1>2. /\ n \in 0..Len(longer) /\ n + 1 \in 1..Len(longer) /\ (n + 1) - 1 = n
        /\ \A k \in 1..n : k \in 1..(n - 1) \/ k = n
    <2> HIDE DEF longer, n
    <2>1. QED BY <1>1
  <1>3. /\ RealIn(nodes, path) = route[n]
        /\ KindAt(nodes, path) = IF \A k \in 1..(n - 1) : KindIn(nodes, route[k]) = "folder"
                                 THEN KindIn(nodes, route[n]) ELSE "none"
    <2> HIDE DEF longer, n
    <2>1. n \in 0..Len(longer) /\ IsList(longer) /\ SubSeq(longer, 1, n) = path
      BY <1>1, <1>2
    <2>2. /\ RealIn(nodes, SubSeq(longer, 1, n)) = Route(nodes, longer)[n]
          /\ KindAt(nodes, SubSeq(longer, 1, n))
                 = IF \A k \in 1..(n - 1) : KindIn(nodes, Route(nodes, longer)[k]) = "folder"
                   THEN KindIn(nodes, Route(nodes, longer)[n]) ELSE "none"
      BY <2>1, RoutesBegin
    <2>3. QED BY <2>1, <2>2
  <1>4. route[n + 1] = NextReal(nodes, longer, route[n], n + 1)
    <2> HIDE DEF longer, n, route
    <2>1. \A k \in 1..Len(longer) :
              route[k] = NextReal(nodes, longer, route[k - 1], k)
      BY <1>1, RouteFacts DEF route
    <2>2. QED BY <1>2, <2>1
  <1> HIDE DEF route, longer, n
  <1>5. route[n + 1] = Append(route[n], name) /\ KindIn(nodes, route[n + 1]) = "file"
    BY <1>1, <1>3, <1>4 DEF NextReal
  <1>6. \A k \in 1..n : KindIn(nodes, route[k]) = "folder"
    BY <1>2, <1>3
  <1>7. KindAt(nodes, longer) = "file"
    BY <1>1, <1>2, <1>5, <1>6 DEF KindAt, route
  <1>8. QED BY <1>7 DEF longer

\* What there is at each of the names of a way.
IsStation(base, rel, reals, kinds, k) ==
    /\ IsList(reals[k]) /\ RealIn(tree, base \o SubSeq(rel, 1, k)) = reals[k]
    /\ KindIn(tree, reals[k]) = kinds[k]
    /\ KindAt(tree, base \o SubSeq(rel, 1, k)) \in {"none", kinds[k]}
IsPassage(rel, reals, links, k) ==
    LET next == Append(reals[k - 1], rel[k])
    IN  /\ KindIn(tree, next) # "link" => reals[k] = next
        /\ k \notin links <=> reals[k] = next
LEMMA WayIsThere ==
    ASSUME AreNodes(tree), NEW base, IsList(base), Len(base) > 0, NEW rel, IsList(rel), Len(rel) > 0,
           NEW reals, NEW links, NEW kinds, IsAtWay(tree, base, rel, reals, links, kinds)
    PROVE  /\ Len(rel) \in Nat \ {0} /\ links \subseteq 1..Len(rel) /\ SubSeq(rel, 1, Len(rel)) = rel
           /\ reals[0] = RealIn(tree, base)
           /\ \A k \in 0..Len(rel) : IsStation(base, rel, reals, kinds, k)
           /\ \A k \in 1..Len(rel) : IsPassage(rel, reals, links, k)
  <1>1. reals = RealsOf(tree, base, rel) /\ links = LinksOf(reals, rel)
        /\ \A k \in 0..Len(rel) : KindIn(tree, reals[k]) = kinds[k]
    BY DEF IsAtWay
  <1>2. Len(rel) \in Nat \ {0} /\ SubSeq(rel, 1, Len(rel)) = rel
    BY LenProperties, SubSeqFull DEF IsList
  <1>3. reals[0] = RealIn(tree, base)
    BY ONLY <1>1, AreNodes(tree), IsList(base), IsList(rel), WaySteps
  <1>4. \A k \in 0..Len(rel) : IsStop(tree, reals, base, rel, k)
    BY ONLY <1>1, AreNodes(tree), IsList(base), IsList(rel), WaySteps
  <1>5. \A k \in 1..Len(rel) : IsStep(tree, reals, rel, k)
    BY ONLY <1>1, AreNodes(tree), IsList(base), IsList(rel), WaySteps
  <1>6. \A path : KindAt(tree, path) \in {"none", KindIn(tree, RealIn(tree, path))}
    BY DEF KindAt, RealIn
  <1>7. ASSUME NEW k \in 0..Len(rel) PROVE IsStation(base, rel, reals, kinds, k)
    BY <1>1, <1>4, <1>6 DEF IsStop, IsStation
  <1>8. ASSUME NEW k \in 1..Len(rel) PROVE IsPassage(rel, reals, links, k)
    <2>1. k \in links <=> reals[k] # Append(reals[k - 1], rel[k])
      BY <1>1 DEF LinksOf
    <2>2. QED BY <1>5, <2>1 DEF IsStep, IsPassage
  <1>9. links \subseteq 1..Len(rel)
    BY <1>1 DEF LinksOf
  <1>10. QED BY <1>2, <1>3, <1>7, <1>8, <1>9

\* What is in a folder on the way is on the way, or is the file at its end.
LEMMA EntryCame ==
    ASSUME AreNodes(tree), NEW base, IsList(base), Len(base) > 0, NEW rel, IsList(rel), Len(rel) > 0,
           NEW reals, NEW links, NEW kinds, IsAtWay(tree, base, rel, reals, links, kinds),
           NEW s, ArePatterns(s.include), NEW t, TaskFields \subseteq DOMAIN t, IsList(t.rel),
           t.kind = "folder", CameDown(s, t, rel, reals, links, kinds),
           NEW p \in Children(tree, RealIn(tree, base \o t.rel))
    PROVE  LET e == Entry(t, p)
           IN  /\ e.kind # "file" /\ e.kind \in {"link", "folder"} =>
                      CameDown(s, e, rel, reals, links, kinds)
               /\ e.kind = "file" /\ e.matches /\ e.rel = rel => MayBeFound(s, rel, reals, links)
  <1> DEFINE name == Last(p)
             e == Entry(t, p)
             n == Len(rel)
  <1>1. /\ n \in Nat \ {0} /\ links \subseteq 1..n /\ SubSeq(rel, 1, n) = rel
        /\ \A k \in 0..n : IsStation(base, rel, reals, kinds, k)
        /\ \A k \in 1..n : IsPassage(rel, reals, links, k)
    BY WayIsThere
  <1>2. /\ e.kind = IF KindIn(tree, p) \in Folders THEN "folder" ELSE KindIn(tree, p)
        /\ e.rel = Append(t.rel, name) /\ e.matches = FileMatches(t.stage, name)
        /\ e.stage = IF KindIn(tree, p) = "link" THEN Follow(t.stage, name)
                     ELSE Enter(t.stage, name)
        /\ e.depth = t.depth /\ e.real = t.real /\ e.passed = t.passed
    BY DEF Entry, TaskFields
  <1> HIDE DEF e
  <1>3. ASSUME NEW k \in 0..n, e.rel = SubSeq(rel, 1, k)
        PROVE  /\ e.kind \in {"link", "folder"} =>
                      IF e.kind = "folder" THEN CameToFolder(s, e, rel, reals, links, k)
                      ELSE CameToLink(s, e, rel, reals, links, kinds, k)
               /\ e.kind = "file" /\ e.matches /\ k = n => MayBeFound(s, rel, reals, links)
    <2> DEFINE j == k - 1
               before == links \cap 1..j
    <2>1. /\ k \in 1..n /\ Len(t.rel) = j /\ j \in 0..n /\ t.rel = SubSeq(rel, 1, j)
          /\ name = rel[k]
      <3>1. Append(t.rel, name) = SubSeq(rel, 1, k)
        BY <1>2, <1>3
      <3> HIDE DEF name
      <3>2. IsBeginning(t.rel, name, rel, k)
        BY ONLY <3>1, k \in 0..Len(rel), IsList(rel), IsList(t.rel), SameBeginning
      <3>3. QED BY <3>2 DEF IsBeginning
    <2>2. j \in Nat /\ j < n /\ k = j + 1 /\ k > 0 /\ j \in 0..(n - 1)
      BY <1>1, <2>1
    <2>3. NoLoops(reals, before) /\ t.stage = StageAt(s, rel, links, j) /\ Trail(t, rel, reals, j)
      BY <2>1 DEF CameDown, CameToFolder
    <2>4. IsList(reals[j]) /\ RealIn(tree, base \o t.rel) = reals[j]
      BY <1>1, <2>1 DEF IsStation
    <2>5. p \in DOMAIN tree /\ IsList(p) /\ p = Append(reals[j], rel[k])
      <3>1. p \in DOMAIN tree /\ Len(p) = Len(reals[j]) + 1 /\ IsPrefix(reals[j], p)
        BY <2>4 DEF Children
      <3>2. IsList(p)
        BY <3>1 DEF AreNodes, IsNode
      <3>3. p = Append(reals[j], Last(p))
        BY <2>4, <3>1, <3>2, ChildFacts
      <3>4. QED BY <2>1, <3>1, <3>2, <3>3
    <2>6. /\ KindIn(tree, p) # "link" => reals[k] = p
          /\ k \notin links <=> reals[k] = p
          /\ KindIn(tree, reals[k]) = kinds[k]
      BY <1>1, <2>1, <2>5 DEF IsPassage, IsStation
    <2>7. AreLinks(before, t.rel) /\ before \subseteq 1..Len(t.rel)
      BY <2>1 DEF AreLinks
    <2>8. t.stage = StageOf(s.include, t.rel, before)
      BY <2>1, <2>3 DEF StageAt
    <2>9. /\ Enter(t.stage, name) = StageOf(s.include, e.rel, before)
          /\ Follow(t.stage, name) = StageOf(s.include, e.rel, before \cup {k})
      <3>1. \A b : IsList(b) => \A l : AreLinks(l, b) => \A x :
                /\ Enter(StageOf(s.include, b, l), x) = StageOf(s.include, Append(b, x), l)
                /\ Follow(StageOf(s.include, b, l), x)
                       = StageOf(s.include, Append(b, x), l \cup {Len(b) + 1})
        BY StageStep, Zenon
      <3> HIDE DEF before, name, j
      <3>2. /\ Enter(StageOf(s.include, t.rel, before), name)
                   = StageOf(s.include, Append(t.rel, name), before)
            /\ Follow(StageOf(s.include, t.rel, before), name)
                   = StageOf(s.include, Append(t.rel, name), before \cup {Len(t.rel) + 1})
        BY <2>7, <3>1
      <3>3. QED BY <1>2, <2>1, <2>2, <2>8, <3>2
    <2>10. e.matches <=> Names(s.include, e.rel, before)
      <3> HIDE DEF before, name
      <3>1. FileMatches(StageOf(s.include, t.rel, before), name)
                <=> Names(s.include, Append(t.rel, name), before)
        BY <2>7, StageMatches
      <3>2. QED BY <1>2, <2>8, <3>1
    <2>11. links \cap 1..(k - 1) = before /\ (k \notin links => links \cap 1..k = before)
      BY <2>2
    <2>12. CASE KindIn(tree, p) = "link"
      <3>1. e.kind = "link"
        BY <1>2, <2>12 DEF Folders
      <3>2. k \in links \/ kinds[k] = "link"
        BY <2>6, <2>12
      <3>3. Trail(e, rel, reals, k - 1)
        BY <1>2, <2>3 DEF Trail
      <3>4. e.stage = StageOf(s.include, e.rel, before \cup {k})
        BY <1>2, <2>9, <2>12
      <3> HIDE DEF j, before
      <3>5. CameToLink(s, e, rel, reals, links, kinds, k)
        BY <2>2, <2>3, <2>10, <2>11, <3>1, <3>2, <3>3, <3>4 DEF CameToLink
      <3>6. QED BY <3>1, <3>5
    <2>13. CASE KindIn(tree, p) # "link"
      <3>1. k \notin links /\ reals[k] = p /\ e.kind # "link"
        BY <1>2, <2>6, <2>13
      <3>2. e.stage = StageAt(s, rel, links, k)
        <4>1. e.stage = StageOf(s.include, e.rel, before)
          BY <1>2, <2>9, <2>13
        <4> HIDE DEF before
        <4>2. QED BY <1>3, <2>11, <3>1, <4>1 DEF StageAt
      <3>3. Trail(e, rel, reals, k)
        <4>1. \A m \in 0..j : IsList(reals[m])
          <5>1. \A m \in 0..j : m \in 0..n
            BY <2>2
          <5>2. QED BY <1>1, <5>1 DEF IsStation
        <4>2. reals[j + 1] = Append(reals[j], rel[j + 1])
          BY <2>2, <2>5, <3>1
        <4> HIDE DEF j, n
        <4>3. j < Len(rel)
          BY <2>2 DEF n
        <4>4. Trail(e, rel, reals, j + 1)
          BY <1>2, <2>2, <2>3, <4>1, <4>2, <4>3, TrailGoesOn
        <4>5. QED BY <2>2, <4>4
      <3>4. NoLoops(reals, links \cap 1..k)
        <4> HIDE DEF before
        <4>1. QED BY <2>3, <2>11, <3>1
      <3>5. CameToFolder(s, e, rel, reals, links, k)
        BY <3>2, <3>3, <3>4 DEF CameToFolder
      <3>6. ASSUME e.matches, k = n PROVE MayBeFound(s, rel, reals, links)
        <4>1. links \ {n} = before
          <5>1. \A m : m \in 1..j <=> m \in 1..n /\ m # n
            BY <2>2, <3>6
          <5>2. QED BY <1>1, <5>1
        <4>2. e.rel = rel
          BY <1>1, <1>3, <3>6
        <4> HIDE DEF before
        <4>3. QED BY <2>3, <2>10, <3>6, <4>1, <4>2 DEF MayBeFound, n
      <3>7. QED BY <3>1, <3>5, <3>6
    <2>14. QED BY <2>12, <2>13
  <1>4. e.kind \in {"link", "folder"} => CameDown(s, e, rel, reals, links, kinds)
    BY <1>3 DEF CameDown
  <1>5. e.kind = "file" /\ e.matches /\ e.rel = rel => MayBeFound(s, rel, reals, links)
    <2>1. n \in 0..n
      BY <1>1
    <2>2. QED BY <1>1, <1>3, <2>1
  <1>6. QED BY <1>4, <1>5 DEF e

\* What is known of the walk at i.
LEMMA RightFacts ==
    ASSUME PathsAreLists, AcceptedInv, WalkInv, HeldInv, RightInv, discovery # None,
           NEW i \in DOMAIN discovery.walks
    PROVE  /\ tree \in discovery.seen
           /\ IsRight(discovery.project, Source(i), Walk(i), discovery.seen)
           /\ Source(i).filePath = None => IsList(Base(i)) /\ Len(Base(i)) > 0
  <1>1. tree \in discovery.seen /\ i \in DOMAIN discovery.project.sources
    BY HeldFacts
  <1>2. IsRight(discovery.project, Source(i), Walk(i), discovery.seen)
    BY <1>1 DEF RightInv, Source, Walk
  <1>3. IsAccepted(discovery.project)
    BY DEF AcceptedInv
  <1>4. Source(i).filePath = None => IsList(Base(i)) /\ Len(Base(i)) > 0
    BY <1>1, <1>3, AcceptedPaths DEF Base, Source
  <1>5. QED BY <1>1, <1>2, <1>4

\* A walk that goes on, and leaves the others alone.
LEMMA RightGoesOn ==
    ASSUME WalkInv, HeldInv, RightInv, discovery # None, NEW i \in DOMAIN discovery.walks, NEW w,
           SetWalk(i, w), IsRight(discovery.project, Source(i), w, discovery.seen)
    PROVE  RightInv'
  <1> DEFINE project == discovery.project
             D == DOMAIN project.sources
             walks == [discovery.walks EXCEPT ![i] = w]
  <1>1. {"project", "walks", "seen"} \subseteq DOMAIN discovery /\ i \in D
    BY HeldFacts
  <1>2. DOMAIN discovery.walks = D
    BY DEF WalkInv, DiscoveryInv
  <1>3. \A j \in D : IsRight(project, project.sources[j], discovery.walks[j], discovery.seen)
    BY DEF RightInv
  <1>4. discovery' = [discovery EXCEPT !.walks[i] = w] /\ UNCHANGED discovered
    BY DEF SetWalk
  <1>5. /\ discovery'.project = project /\ discovery'.walks = walks
        /\ discovery'.seen = discovery.seen
    BY <1>1, <1>4
  <1>6. /\ walks[i] = w /\ \A j \in D : j # i => walks[j] = discovery.walks[j]
    BY <1>1, <1>2
  <1>7. \A j \in D : IsRight(project, project.sources[j], walks[j], discovery.seen)
    <2>1. IsRight(project, project.sources[i], w, discovery.seen)
      BY DEF Source
    <2> HIDE DEF project, D, walks
    <2>2. QED BY <1>3, <1>6, <2>1
  <1> HIDE DEF project, walks
  <1>8. FoundAreRight'
    <2>1. FoundAreRight /\ discovered' = discovered
      BY <1>4 DEF RightInv
    <2>2. QED BY <2>1 DEF FoundAreRight
  <1>9. QED BY <1>5, <1>7, <1>8 DEF RightInv, D

\* A walk without tasks.
LEMMA RestingIsRight ==
    ASSUME NEW project, NEW s, NEW w, NEW seen, w.tasks = {}, w.found = {}, w.rootReal = None,
           \A f \in w.files : s.filePath = None => IsFoundRightly(s, BaseOf(s, f.locale), f.rel, seen)
    PROVE  IsRight(project, s, w, seen)
  BY DEF IsRight, IsOnWay

\* A step of a walk in its locale: what is found now is there, its links may be
\* followed, and so may those of the new tasks.
IsNewFile(base, rel) == IsList(rel) /\ Len(rel) > 0 /\ KindAt(tree, base \o rel) = "file"
StaysOnWay(s, base, old, w, rel, reals, links, kinds) ==
    /\ IsOnWay(s, base, w, rel, reals, links, kinds)
    /\ rel \in w.found \ old.found => MayBeFound(s, rel, reals, links)
LEMMA SameLocaleRight ==
    ASSUME PathsAreLists, AcceptedInv, WalkInv, HeldInv, RightInv, discovery # None,
           NEW i \in DOMAIN discovery.walks, NEW w, SetWalk(i, w),
           w.at = Walk(i).at, w.files = Walk(i).files,
           \A rel \in w.found \ Walk(i).found : IsNewFile(Base(i), rel),
           IsList(Base(i)) /\ Len(Base(i)) > 0 =>
               \A rel, reals, links, kinds :
                   /\ IsList(rel) /\ Len(rel) > 0
                   /\ IsAtWay(tree, Base(i), rel, reals, links, kinds)
                   /\ IsOnWay(Source(i), Base(i), Walk(i), rel, reals, links, kinds)
                   => StaysOnWay(Source(i), Base(i), Walk(i), w, rel, reals, links, kinds)
    PROVE  RightInv'
  <1> DEFINE project == discovery.project
             s == Source(i)
             seen == discovery.seen
             base == Base(i)
  <1>1. /\ tree \in seen /\ IsRight(project, s, Walk(i), seen)
        /\ s.filePath = None => IsList(base) /\ Len(base) > 0
    BY RightFacts
  <1>2. base = BaseOf(s, LocalesOf(project, s)[w.at])
    BY DEF Base, Locale
  <1>3. ASSUME s.filePath = None PROVE
            /\ \A f \in w.files : IsFoundRightly(s, BaseOf(s, f.locale), f.rel, seen)
            /\ \A rel \in w.found : IsFoundRightly(s, base, rel, seen)
            /\ \A rel, reals, links, kinds :
                   /\ IsList(rel) /\ Len(rel) > 0
                   /\ IsFixed(seen, base, rel, reals, links, kinds)
                   => IsOnWay(s, base, w, rel, reals, links, kinds)
    <2>1. /\ \A f \in w.files : IsFoundRightly(s, BaseOf(s, f.locale), f.rel, seen)
          /\ \A rel \in Walk(i).found : IsFoundRightly(s, base, rel, seen)
          /\ \A rel, reals, links, kinds :
                 /\ IsList(rel) /\ Len(rel) > 0
                 /\ IsFixed(seen, base, rel, reals, links, kinds)
                 => IsOnWay(s, base, Walk(i), rel, reals, links, kinds)
      BY <1>1, <1>2, <1>3, Zenon DEF IsRight
    <2>2. ASSUME NEW rel, NEW reals, NEW links, NEW kinds, IsList(rel), Len(rel) > 0,
                 IsFixed(seen, base, rel, reals, links, kinds)
          PROVE  StaysOnWay(s, base, Walk(i), w, rel, reals, links, kinds)
      <3>1. IsOnWay(s, base, Walk(i), rel, reals, links, kinds)
        BY <2>1, <2>2, Zenon
      <3>2. IsAtWay(tree, base, rel, reals, links, kinds)
        BY <1>1, <2>2 DEF IsFixed
      <3>3. IsList(base) /\ Len(base) > 0
        BY <1>1, <1>3
      <3>4. QED BY <2>2, <3>1, <3>2, <3>3, Zenon
    <2>3. ASSUME NEW rel \in w.found, rel \notin Walk(i).found
          PROVE  IsFoundRightly(s, base, rel, seen)
      <3>1. IsNewFile(base, rel)
        BY <2>3
      <3>2. ASSUME NEW reals, NEW links, NEW kinds, IsFixed(seen, base, rel, reals, links, kinds)
            PROVE  MayBeFound(s, rel, reals, links)
        <4>1. StaysOnWay(s, base, Walk(i), w, rel, reals, links, kinds)
          BY <2>2, <3>1, <3>2 DEF IsNewFile
        <4>2. QED BY <2>3, <4>1 DEF StaysOnWay
      <3> HIDE DEF s, base, seen
      <3>3. QED BY <1>1, <3>1, <3>2 DEF IsFoundRightly, IsNewFile
    <2> HIDE DEF s, base, seen
    <2>4. \A rel \in w.found : IsFoundRightly(s, base, rel, seen)
      BY <2>1, <2>3
    <2>5. \A rel, reals, links, kinds :
              /\ IsList(rel) /\ Len(rel) > 0
              /\ IsFixed(seen, base, rel, reals, links, kinds)
              => IsOnWay(s, base, w, rel, reals, links, kinds)
      BY <2>2 DEF StaysOnWay
    <2>6. QED BY <2>1, <2>4, <2>5, Zenon
  <1>4. IsRight(project, s, w, seen)
    BY <1>2, <1>3, Zenon DEF IsRight
  <1>5. QED BY <1>4, RightGoesOn

\* One task is done, and others may follow it.
LEMMA OneTaskRight ==
    ASSUME PathsAreLists, AcceptedInv, WalkInv, HeldInv, RightInv, discovery # None,
           NEW i \in DOMAIN discovery.walks, NEW w, SetWalk(i, w),
           w.at = Walk(i).at, w.files = Walk(i).files, w.rootReal = Walk(i).rootReal,
           NEW t \in Walk(i).tasks, NEW more, w.tasks \subseteq Walk(i).tasks \cup more,
           \A rel \in w.found \ Walk(i).found : IsNewFile(Base(i), rel),
           IsList(Base(i)) /\ Len(Base(i)) > 0 =>
               \A rel, reals, links, kinds :
                   /\ IsList(rel) /\ Len(rel) > 0
                   /\ IsAtWay(tree, Base(i), rel, reals, links, kinds)
                   /\ Walk(i).rootReal \in {None, reals[0]}
                   /\ CameDown(Source(i), t, rel, reals, links, kinds)
                   => /\ \A e \in more : CameDown(Source(i), e, rel, reals, links, kinds)
                      /\ rel \in w.found \ Walk(i).found => MayBeFound(Source(i), rel, reals, links)
    PROVE  RightInv'
  <1> DEFINE s == Source(i)
             base == Base(i)
  <1>1. ASSUME IsList(base) /\ Len(base) > 0, NEW rel, NEW reals, NEW links, NEW kinds,
               IsList(rel), Len(rel) > 0, IsAtWay(tree, base, rel, reals, links, kinds),
               IsOnWay(s, base, Walk(i), rel, reals, links, kinds)
        PROVE  StaysOnWay(s, base, Walk(i), w, rel, reals, links, kinds)
    <2>1. /\ Walk(i).rootReal \in {None, reals[0]}
          /\ \A e \in Walk(i).tasks : CameDown(s, e, rel, reals, links, kinds)
      BY <1>1 DEF IsOnWay
    <2>2. /\ \A e \in more : CameDown(s, e, rel, reals, links, kinds)
          /\ rel \in w.found \ Walk(i).found => MayBeFound(s, rel, reals, links)
      BY <1>1, <2>1, Zenon
    <2> HIDE DEF s, base
    <2>3. IsOnWay(s, base, w, rel, reals, links, kinds)
      BY <2>1, <2>2 DEF IsOnWay
    <2>4. QED BY <2>2, <2>3 DEF StaysOnWay
  <1> HIDE DEF s, base
  <1>2. IsList(base) /\ Len(base) > 0 =>
            \A rel, reals, links, kinds :
                /\ IsList(rel) /\ Len(rel) > 0
                /\ IsAtWay(tree, base, rel, reals, links, kinds)
                /\ IsOnWay(s, base, Walk(i), rel, reals, links, kinds)
                => StaysOnWay(s, base, Walk(i), w, rel, reals, links, kinds)
    BY <1>1, Zenon
  <1>3. QED BY <1>2, SameLocaleRight DEF s, base

\* The steps of a walk.
LEMMA BeginSourceRight ==
    ASSUME WalkInv, HeldInv, RightInv, discovery # None,
           NEW i \in DOMAIN discovery.walks, BeginSource(i)
    PROVE  RightInv'
  <1> DEFINE errors == IF Source(i).kind = "collection" THEN {"source-missing"}
                       ELSE IF Source(i).optional THEN {} ELSE {"singleton-missing"}
             file == {[id |-> Source(i).name, locale |-> None,
                       rel |-> <<Last(Source(i).filePath)>>]}
             missing == [NewWalk EXCEPT !.pc = "done", !.errors = errors]
             single == [NewWalk EXCEPT !.pc = "done", !.files = file]
             walked == [NewWalk EXCEPT !.pc = "locale"]
             Right(w) == IsRight(discovery.project, Source(i), w, discovery.seen)
  <1>1. \/ SetWalk(i, missing)
        \/ Source(i).filePath # None /\ SetWalk(i, single)
        \/ SetWalk(i, walked)
    BY Zenon DEF BeginSource
  <1>2. Right(missing)
    <2> HIDE DEF errors
    <2>1. missing.tasks = {} /\ missing.found = {} /\ missing.rootReal = None /\ missing.files = {}
      BY DEF NewWalk
    <2> HIDE DEF missing
    <2>2. QED BY <2>1, RestingIsRight
  <1>3. Right(walked)
    <2>1. walked.tasks = {} /\ walked.found = {} /\ walked.rootReal = None /\ walked.files = {}
      BY DEF NewWalk
    <2> HIDE DEF walked
    <2>2. QED BY <2>1, RestingIsRight
  <1>4. Source(i).filePath # None => Right(single)
    <2> HIDE DEF single
    <2>1. QED BY DEF IsRight
  <1> HIDE DEF missing, single, walked
  <1>5. QED BY <1>1, <1>2, <1>3, <1>4, RightGoesOn

\* The root is on every way.
LEMMA BeginLocaleRight ==
    ASSUME PathsAreLists, AcceptedInv, FiniteInv, WalkInv, HeldInv, RightInv, discovery # None,
           NEW i \in DOMAIN discovery.walks, BeginLocale(i)
    PROVE  RightInv'
  <1> DEFINE tasks == IF Locale(i) = None \/ KindAt(tree, Base(i)) \in Folders
                      THEN {RootTask(i)} ELSE {}
             w == [Walk(i) EXCEPT !.pc = "list", !.found = {}, !.rootReal = None, !.tasks = tasks]
             s == Source(i)
             base == Base(i)
  <1>1. SetWalk(i, w)
    BY DEF BeginLocale
  <1>2. tasks \subseteq {RootTask(i)}
    OBVIOUS
  <1> HIDE DEF tasks
  <1>3. /\ w.at = Walk(i).at /\ w.files = Walk(i).files /\ w.tasks = tasks
        /\ w.found = {} /\ w.rootReal = None
    BY WalkFacts
  <1> HIDE DEF w
  <1>4. ASSUME IsList(base), Len(base) > 0, NEW rel, NEW reals, NEW links, NEW kinds,
               IsList(rel), Len(rel) > 0, IsAtWay(tree, base, rel, reals, links, kinds)
        PROVE  CameDown(s, RootTask(i), rel, reals, links, kinds)
    <2>1. /\ RootTask(i).kind = "folder" /\ RootTask(i).rel = <<>>
          /\ RootTask(i).stage = Start(s.include)
          /\ RootTask(i).depth = 0 /\ RootTask(i).passed = {}
      BY DEF RootTask
    <2>2. ASSUME NEW k \in 0..Len(rel), <<>> = SubSeq(rel, 1, k) PROVE k = 0
      <3>1. Len(SubSeq(rel, 1, k)) = k
        BY Beginnings
      <3>2. Len(<<>>) = 0
        BY NoNames
      <3>3. QED BY <2>2, <3>1, <3>2
    <2>3. Len(rel) \in Nat /\ 0 \in 0..Len(rel) /\ links \cap 1..0 = {}
      BY LenProperties DEF IsList
    <2>4. IsList(reals[0])
      <3>1. AreNodes(tree)
        BY DEF FiniteInv
      <3>2. \A k \in 0..Len(rel) : IsStation(base, rel, reals, kinds, k)
        BY <1>4, <3>1, WayIsThere
      <3>3. QED BY <2>3, <3>2 DEF IsStation
    <2>5. Trail(RootTask(i), rel, reals, 0)
      BY <1>4, <2>1, <2>4, TrailBegins
    <2>6. RootTask(i).stage = StageAt(s, rel, links, 0)
      <3>1. Start(s.include) = StageOf(s.include, <<>>, {})
        BY WalkFacts, StageStart
      <3>2. SubSeq(rel, 1, 0) = <<>>
        BY <1>4, Beginnings
      <3>3. QED BY <2>1, <2>3, <3>1, <3>2 DEF StageAt
    <2>7. CameToFolder(s, RootTask(i), rel, reals, links, 0)
      BY <2>3, <2>5, <2>6 DEF CameToFolder, NoLoops
    <2>8. QED BY <2>1, <2>2, <2>7 DEF CameDown
  <1>5. ASSUME IsList(base) /\ Len(base) > 0, NEW rel, NEW reals, NEW links, NEW kinds,
               IsList(rel), Len(rel) > 0, IsAtWay(tree, base, rel, reals, links, kinds)
        PROVE  StaysOnWay(s, base, Walk(i), w, rel, reals, links, kinds)
    <2>1. CameDown(s, RootTask(i), rel, reals, links, kinds)
      BY <1>4, <1>5
    <2> HIDE DEF s, base
    <2>2. QED BY <1>2, <1>3, <2>1 DEF StaysOnWay, IsOnWay
  <1> HIDE DEF s, base
  <1>6. IsList(base) /\ Len(base) > 0 =>
            \A rel, reals, links, kinds :
                /\ IsList(rel) /\ Len(rel) > 0
                /\ IsAtWay(tree, base, rel, reals, links, kinds)
                /\ IsOnWay(s, base, Walk(i), rel, reals, links, kinds)
                => StaysOnWay(s, base, Walk(i), w, rel, reals, links, kinds)
    BY <1>5, Zenon
  <1>7. \A rel \in w.found \ Walk(i).found : IsNewFile(base, rel)
    BY <1>3
  <1>8. QED BY <1>1, <1>3, <1>6, <1>7, SameLocaleRight DEF s, base

\* A file of a folder is there, and what else there is is on the way.
LEMMA ReadFolderRight ==
    ASSUME PathsAreLists, AcceptedInv, FiniteInv, WalkInv, HeldInv, RightInv, discovery # None,
           NEW i \in DOMAIN discovery.walks, ReadFolder(i)
    PROVE  RightInv'
  <1> DEFINE s == Source(i)
             base == Base(i)
  <1>1. PICK t \in Walk(i).tasks :
            LET there == Children(tree, RealIn(tree, PathOf(i, t)))
                entries == {Entry(t, p) : p \in {q \in there : Last(q) \notin Hidden}}
                files == {e \in entries : /\ e.kind = "file" /\ e.matches
                                          /\ ~ExcludesFile(Source(i).exclude, e.rel)}
                folders == {e \in entries : e.kind = "folder" /\ e.stage # {} /\ IsOpen(i, e.rel)}
                links == {e \in entries : e.kind = "link" /\ (e.matches \/ e.stage # {})}
            IN  /\ t.kind = "folder"
                /\ KindAt(tree, PathOf(i, t)) = "folder"
                /\ SetWalk(i, [Walk(i) EXCEPT
                       !.tasks = (@ \ {t}) \cup folders \cup links,
                       !.found = @ \cup {e.rel : e \in files}])
    BY Zenon DEF ReadFolder
  <1> DEFINE there == Children(tree, RealIn(tree, PathOf(i, t)))
             entries == {Entry(t, p) : p \in {q \in there : Last(q) \notin Hidden}}
             files == {e \in entries : /\ e.kind = "file" /\ e.matches
                                       /\ ~ExcludesFile(Source(i).exclude, e.rel)}
             folders == {e \in entries : e.kind = "folder" /\ e.stage # {} /\ IsOpen(i, e.rel)}
             linked == {e \in entries : e.kind = "link" /\ (e.matches \/ e.stage # {})}
             tasks == (Walk(i).tasks \ {t}) \cup folders \cup linked
             more == folders \cup linked
             found == Walk(i).found \cup {e.rel : e \in files}
             w == [Walk(i) EXCEPT !.tasks = tasks, !.found = found]
  <1>2. SetWalk(i, w) /\ t.kind = "folder" /\ KindAt(tree, base \o t.rel) = "folder"
    BY <1>1 DEF PathOf
  <1>3. ArePatterns(s.include) /\ TaskFields \subseteq DOMAIN t /\ IsList(t.rel) /\ AreNodes(tree)
    BY WalkFacts DEF IsTask, FiniteInv
  <1>4. /\ tasks \subseteq Walk(i).tasks \cup more
        /\ \A rel \in found \ Walk(i).found : \E e \in files : rel = e.rel
        /\ \A e \in files : e \in entries /\ e.kind = "file" /\ e.matches
        /\ \A e \in more : e \in entries /\ e.kind \in {"folder", "link"}
        /\ \A e \in entries : \E p \in Children(tree, RealIn(tree, base \o t.rel)) : e = Entry(t, p)
    BY DEF PathOf
  <1> HIDE DEF files, more, tasks, found, entries
  <1>5. ASSUME IsList(base) /\ Len(base) > 0, NEW rel, NEW reals, NEW links, NEW kinds,
               IsList(rel), Len(rel) > 0, IsAtWay(tree, base, rel, reals, links, kinds),
               CameDown(s, t, rel, reals, links, kinds)
        PROVE  /\ \A e \in more : CameDown(s, e, rel, reals, links, kinds)
               /\ rel \in found \ Walk(i).found => MayBeFound(s, rel, reals, links)
    <2> HIDE DEF s, base
    <2>1. ASSUME NEW e \in entries
          PROVE  /\ e.kind # "file" /\ e.kind \in {"link", "folder"} =>
                        CameDown(s, e, rel, reals, links, kinds)
                 /\ e.kind = "file" /\ e.matches /\ e.rel = rel => MayBeFound(s, rel, reals, links)
      <3>1. PICK p \in Children(tree, RealIn(tree, base \o t.rel)) : e = Entry(t, p)
        BY <1>4
      <3>2. LET x == Entry(t, p)
            IN  /\ x.kind # "file" /\ x.kind \in {"link", "folder"} =>
                       CameDown(s, x, rel, reals, links, kinds)
                /\ x.kind = "file" /\ x.matches /\ x.rel = rel => MayBeFound(s, rel, reals, links)
        BY <1>2, <1>3, <1>5, EntryCame
      <3>3. QED BY <3>1, <3>2
    <2>2. ASSUME NEW e \in more PROVE CameDown(s, e, rel, reals, links, kinds)
      BY <1>4, <2>1
    <2>3. QED BY <1>4, <2>1, <2>2
  <1>6. s.filePath = None => \A rel \in found \ Walk(i).found : IsNewFile(base, rel)
    <2> SUFFICES ASSUME s.filePath = None, NEW rel \in found \ Walk(i).found
                 PROVE  IsNewFile(base, rel)
      OBVIOUS
    <2>1. IsList(base) /\ Len(base) > 0
      BY RightFacts
    <2>2. PICK p \in Children(tree, RealIn(tree, base \o t.rel)) :
              rel = Entry(t, p).rel /\ Entry(t, p).kind = "file"
      BY <1>4
    <2> DEFINE path == base \o t.rel
               name == Last(p)
    <2>3. IsList(path) /\ Len(path) = Len(base) + Len(t.rel) /\ Len(base) \in Nat /\ Len(t.rel) \in Nat
      BY <1>3, <2>1, PathsJoin
    <2>4. rel = Append(t.rel, name) /\ KindIn(tree, p) = "file"
      BY <1>3, <2>2 DEF Entry, TaskFields, Folders
    <2>5. IsList(rel) /\ Len(rel) > 0
      BY <1>3, <2>3, <2>4, PathFacts
    <2>6. base \o rel = Append(path, name)
      <3> HIDE DEF base, name
      <3>1. QED BY <1>3, <2>1, <2>4, JoinAppend
    <2>7. p = Append(RealIn(tree, path), name)
      <3> HIDE DEF path
      <3>1. IsList(p) /\ Len(p) = Len(RealIn(tree, path)) + 1 /\ IsPrefix(RealIn(tree, path), p)
        BY <1>3, <2>2 DEF Children, AreNodes, IsNode, path
      <3>2. IsList(RealIn(tree, path))
        <4>1. Len(path) \in 0..Len(path)
          BY <2>3 DEF path
        <4>2. QED BY <1>3, <2>3, <4>1, RoutesAreLists DEF RealIn
      <3>3. QED BY <3>1, <3>2, ChildFacts
    <2>8. Len(path) > 0 /\ KindAt(tree, path) = "folder"
      BY <1>2, <2>1, <2>3
    <2> HIDE DEF path, name, base
    <2>9. KindAt(tree, Append(path, name)) = "file"
      BY <2>3, <2>4, <2>7, <2>8, ChildIsThere
    <2>10. QED BY <2>5, <2>6, <2>9 DEF IsNewFile
  <1>7. /\ w.at = Walk(i).at /\ w.files = Walk(i).files /\ w.rootReal = Walk(i).rootReal
        /\ w.tasks = tasks /\ w.found = found
    BY WalkFacts
  <1> HIDE DEF w
  <1>8. CASE s.filePath = None
    <2>1. \A rel \in w.found \ Walk(i).found : IsNewFile(Base(i), rel)
      BY <1>6, <1>7, <1>8
    <2>2. w.tasks \subseteq Walk(i).tasks \cup more
      BY <1>4, <1>7
    <2>3. IsList(base) /\ Len(base) > 0 =>
              \A rel, reals, links, kinds :
                  /\ IsList(rel) /\ Len(rel) > 0
                  /\ IsAtWay(tree, base, rel, reals, links, kinds)
                  /\ Walk(i).rootReal \in {None, reals[0]}
                  /\ CameDown(s, t, rel, reals, links, kinds)
                  => /\ \A e \in more : CameDown(s, e, rel, reals, links, kinds)
                     /\ rel \in w.found \ Walk(i).found => MayBeFound(s, rel, reals, links)
      <3> HIDE DEF s, base
      <3>1. QED BY <1>5, <1>7, Zenon
    <2>4. QED BY <1>2, <1>7, <2>1, <2>2, <2>3, OneTaskRight
  <1>9. CASE s.filePath # None
    <2>1. IsRight(discovery.project, s, w, discovery.seen)
      BY <1>9 DEF IsRight
    <2>2. QED BY <1>2, <2>1, RightGoesOn
  <1>10. QED BY <1>8, <1>9

\* A walk that finds no more, and has no other tasks.
LEMMA LessIsRight ==
    ASSUME PathsAreLists, AcceptedInv, WalkInv, HeldInv, RightInv, discovery # None,
           NEW i \in DOMAIN discovery.walks, NEW w, SetWalk(i, w),
           w.at = Walk(i).at, w.files = Walk(i).files, w.rootReal = Walk(i).rootReal,
           w.tasks \subseteq Walk(i).tasks, w.found \subseteq Walk(i).found
    PROVE  RightInv'
  <1>1. \A rel, reals, links, kinds :
            IsOnWay(Source(i), Base(i), Walk(i), rel, reals, links, kinds)
                => StaysOnWay(Source(i), Base(i), Walk(i), w, rel, reals, links, kinds)
    BY DEF IsOnWay, StaysOnWay
  <1>2. \A rel \in w.found \ Walk(i).found : IsNewFile(Base(i), rel)
    OBVIOUS
  <1>3. QED BY <1>1, <1>2, SameLocaleRight
LEMMA FailedRight ==
    ASSUME PathsAreLists, AcceptedInv, WalkInv, HeldInv, RightInv, discovery # None,
           NEW i \in DOMAIN discovery.walks, CannotRead(i) \/ ListingFails(i)
    PROVE  RightInv'
  <1> DEFINE less(t) == [Walk(i) EXCEPT !.tasks = Walk(i).tasks \ {t}]
  <1>1. SetWalk(i, FailedWalk(i)) \/ \E t \in Walk(i).tasks : SetWalk(i, less(t))
    BY DEF CannotRead, ListingFails
  <1>2. /\ FailedWalk(i).at = Walk(i).at /\ FailedWalk(i).files = Walk(i).files
        /\ FailedWalk(i).rootReal = Walk(i).rootReal
        /\ FailedWalk(i).tasks = {} /\ FailedWalk(i).found = {}
    BY WalkFacts DEF FailedWalk
  <1>3. \A t : /\ less(t).at = Walk(i).at /\ less(t).files = Walk(i).files
               /\ less(t).rootReal = Walk(i).rootReal /\ less(t).found = Walk(i).found
               /\ less(t).tasks \subseteq Walk(i).tasks
    BY WalkFacts
  <1> HIDE DEF less
  <1>4. CASE SetWalk(i, FailedWalk(i))
    BY <1>2, <1>4, LessIsRight
  <1>5. ASSUME NEW t \in Walk(i).tasks, SetWalk(i, less(t)) PROVE RightInv'
    BY <1>3, <1>5, LessIsRight
  <1>6. QED BY <1>1, <1>4, <1>5

\* A link to a file is there, and may be followed; a link to a folder is on the
\* way.
LEMMA LookAtLinkRight ==
    ASSUME PathsAreLists, AcceptedInv, FiniteInv, WalkInv, HeldInv, RightInv, discovery # None,
           NEW i \in DOMAIN discovery.walks, LookAtLink(i)
    PROVE  RightInv'
  <1> DEFINE s == Source(i)
             base == Base(i)
  <1>1. PICK t \in Walk(i).tasks :
            LET kind == KindAt(tree, PathOf(i, t))
                leads == kind \in Folders /\ t.stage # {} /\ IsOpen(i, t.rel)
                listed == kind = "file" /\ t.matches /\ ~ExcludesFile(Source(i).exclude, t.rel)
            IN  /\ t.kind = "link"
                /\ SetWalk(i, [Walk(i) EXCEPT
                       !.tasks = (@ \ {t}) \cup (IF leads THEN {[t EXCEPT !.kind = "target"]} ELSE {}),
                       !.found = @ \cup (IF listed THEN {t.rel} ELSE {})])
    BY Zenon DEF LookAtLink
  <1> DEFINE kind == KindAt(tree, PathOf(i, t))
             leads == kind \in Folders /\ t.stage # {} /\ IsOpen(i, t.rel)
             listed == kind = "file" /\ t.matches /\ ~ExcludesFile(Source(i).exclude, t.rel)
             next == [t EXCEPT !.kind = "target"]
             more == IF leads THEN {next} ELSE {}
             rels == IF listed THEN {t.rel} ELSE {}
             tasks == (Walk(i).tasks \ {t}) \cup more
             found == Walk(i).found \cup rels
             w == [Walk(i) EXCEPT !.tasks = tasks, !.found = found]
  <1>2. SetWalk(i, w) /\ t.kind = "link"
    BY <1>1
  <1>3. /\ ArePatterns(s.include) /\ TaskFields \subseteq DOMAIN t /\ IsList(t.rel) /\ AreNodes(tree)
        /\ t.matches => Len(t.rel) > 0
    BY WalkFacts DEF IsTask, FiniteInv
  <1>4. /\ next.kind = "target" /\ next.rel = t.rel /\ next.stage = t.stage
        /\ next.depth = t.depth /\ next.real = t.real /\ next.passed = t.passed
        /\ next.matches = t.matches
    BY <1>3 DEF TaskFields
  <1> HIDE DEF next
  <1>5. /\ tasks \subseteq Walk(i).tasks \cup more
        /\ \A e \in more : e = next /\ KindAt(tree, base \o t.rel) \in Folders
        /\ \A rel \in found \ Walk(i).found :
               rel = t.rel /\ KindAt(tree, base \o t.rel) = "file" /\ t.matches
    BY DEF PathOf
  <1> HIDE DEF more, tasks, found
  <1>6. ASSUME IsList(base) /\ Len(base) > 0, NEW rel, NEW reals, NEW links, NEW kinds,
               IsList(rel), Len(rel) > 0, IsAtWay(tree, base, rel, reals, links, kinds),
               CameDown(s, t, rel, reals, links, kinds)
        PROVE  /\ \A e \in more : CameDown(s, e, rel, reals, links, kinds)
               /\ rel \in found \ Walk(i).found => MayBeFound(s, rel, reals, links)
    <2> DEFINE n == Len(rel)
    <2>1. /\ n \in Nat \ {0} /\ links \subseteq 1..n /\ SubSeq(rel, 1, n) = rel
          /\ \A k \in 0..n : IsStation(base, rel, reals, kinds, k)
      BY <1>3, <1>6, WayIsThere
    <2>2. \A k \in 0..n : t.rel = SubSeq(rel, 1, k) => CameToLink(s, t, rel, reals, links, kinds, k)
      BY <1>2, <1>6 DEF CameDown
    <2> HIDE DEF s, base, n
    <2>3. ASSUME NEW e \in more, NEW k \in 0..n, e.rel = SubSeq(rel, 1, k)
          PROVE  e.kind # "folder" /\ CameToLink(s, e, rel, reals, links, kinds, k)
      <3>1. e = next /\ KindAt(tree, base \o t.rel) \in Folders /\ t.rel = SubSeq(rel, 1, k)
        BY <1>4, <1>5, <2>3
      <3>2. CameToLink(s, t, rel, reals, links, kinds, k)
        BY <2>2, <3>1
      <3>3. kinds[k] # "link"
        BY <2>1, <3>1 DEF IsStation, Folders
      <3>4. Trail(e, rel, reals, k - 1)
        BY <1>4, <3>1, <3>2 DEF CameToLink, Trail
      <3>5. QED BY <1>4, <3>1, <3>2, <3>3, <3>4 DEF CameToLink
    <2>4. ASSUME NEW e \in more PROVE CameDown(s, e, rel, reals, links, kinds)
      BY <2>3 DEF CameDown, n
    <2>5. ASSUME rel \in found \ Walk(i).found PROVE MayBeFound(s, rel, reals, links)
      <3>1. rel = t.rel /\ t.matches
        BY <1>5, <2>5
      <3>2. CameToLink(s, t, rel, reals, links, kinds, n)
        BY <2>1, <2>2, <3>1
      <3>3. links \ {n} = links \cap 1..(n - 1)
        <4>1. \A m : m \in 1..(n - 1) <=> m \in 1..n /\ m # n
          BY <2>1
        <4>2. QED BY <2>1, <4>1
      <3>4. QED BY <3>1, <3>2, <3>3 DEF CameToLink, MayBeFound, n
    <2>6. QED BY <2>4, <2>5
  <1>7. \A rel \in found \ Walk(i).found : IsNewFile(base, rel)
    BY <1>3, <1>5 DEF IsNewFile
  <1>8. /\ w.at = Walk(i).at /\ w.files = Walk(i).files /\ w.rootReal = Walk(i).rootReal
        /\ w.tasks = tasks /\ w.found = found
    BY WalkFacts
  <1> HIDE DEF w
  <1>9. IsList(base) /\ Len(base) > 0 =>
            \A rel, reals, links, kinds :
                /\ IsList(rel) /\ Len(rel) > 0
                /\ IsAtWay(tree, base, rel, reals, links, kinds)
                /\ Walk(i).rootReal \in {None, reals[0]}
                /\ CameDown(s, t, rel, reals, links, kinds)
                => /\ \A e \in more : CameDown(s, e, rel, reals, links, kinds)
                   /\ rel \in w.found \ Walk(i).found => MayBeFound(s, rel, reals, links)
    <2> HIDE DEF s, base
    <2>1. QED BY <1>6, <1>8, Zenon
  <1>10. QED BY <1>2, <1>5, <1>7, <1>8, <1>9, OneTaskRight

\* The target is what the way leads to behind the link, or unknown.
LEMMA FindTargetRight ==
    ASSUME PathsAreLists, AcceptedInv, FiniteInv, WalkInv, HeldInv, RightInv, discovery # None,
           NEW i \in DOMAIN discovery.walks, FindTarget(i)
    PROVE  RightInv'
  <1> DEFINE s == Source(i)
             base == Base(i)
  <1>1. PICK t \in Walk(i).tasks :
            LET path == PathOf(i, t)
                target == IF KindAt(tree, path) = "none" THEN None ELSE RealIn(tree, path)
            IN  /\ t.kind = "target"
                /\ SetWalk(i, [Walk(i) EXCEPT
                       !.tasks = (@ \ {t}) \cup {[t EXCEPT !.kind = "enter", !.target = target]}])
    BY Zenon DEF FindTarget
  <1> DEFINE path == PathOf(i, t)
             target == IF KindAt(tree, path) = "none" THEN None ELSE RealIn(tree, path)
             next == [t EXCEPT !.kind = "enter", !.target = target]
             more == {next}
             tasks == (Walk(i).tasks \ {t}) \cup more
             w == [Walk(i) EXCEPT !.tasks = tasks]
  <1>2. SetWalk(i, w) /\ t.kind = "target"
    BY <1>1
  <1>3. TaskFields \subseteq DOMAIN t /\ AreNodes(tree)
    BY WalkFacts DEF IsTask, FiniteInv
  <1>4. /\ next.kind = "enter" /\ next.rel = t.rel /\ next.stage = t.stage
        /\ next.target = target /\ next.matches = t.matches
        /\ next.depth = t.depth /\ next.real = t.real /\ next.passed = t.passed
    <2> HIDE DEF target
    <2>1. QED BY <1>3 DEF TaskFields
  <1>5. target \in {None, RealIn(tree, base \o t.rel)}
    BY DEF PathOf
  <1>6. tasks \subseteq Walk(i).tasks \cup more /\ \A e \in more : e = next
    OBVIOUS
  <1> HIDE DEF next, target, tasks, more
  <1>7. ASSUME IsList(base) /\ Len(base) > 0, NEW rel, NEW reals, NEW links, NEW kinds,
               IsList(rel), Len(rel) > 0, IsAtWay(tree, base, rel, reals, links, kinds),
               CameDown(s, t, rel, reals, links, kinds)
        PROVE  CameDown(s, next, rel, reals, links, kinds)
    <2> SUFFICES ASSUME NEW k \in 0..Len(rel), next.rel = SubSeq(rel, 1, k)
                 PROVE  CameToLink(s, next, rel, reals, links, kinds, k)
      BY <1>4 DEF CameDown
    <2>1. CameToLink(s, t, rel, reals, links, kinds, k)
      BY <1>2, <1>4, <1>7 DEF CameDown
    <2>2. IsStation(base, rel, reals, kinds, k)
      BY <1>3, <1>7, WayIsThere
    <2> HIDE DEF s, base
    <2>3. next.target \in {None, reals[k]}
      BY <1>4, <1>5, <2>2 DEF IsStation
    <2>4. Trail(next, rel, reals, k - 1)
      BY <1>4, <2>1 DEF CameToLink, Trail
    <2>5. QED BY <1>2, <1>4, <2>1, <2>3, <2>4 DEF CameToLink
  <1>8. /\ w.at = Walk(i).at /\ w.files = Walk(i).files /\ w.rootReal = Walk(i).rootReal
        /\ w.tasks = tasks /\ w.found = Walk(i).found
    BY WalkFacts
  <1> HIDE DEF w
  <1>9. IsList(base) /\ Len(base) > 0 =>
            \A rel, reals, links, kinds :
                /\ IsList(rel) /\ Len(rel) > 0
                /\ IsAtWay(tree, base, rel, reals, links, kinds)
                /\ Walk(i).rootReal \in {None, reals[0]}
                /\ CameDown(s, t, rel, reals, links, kinds)
                => /\ \A e \in more : CameDown(s, e, rel, reals, links, kinds)
                   /\ rel \in w.found \ Walk(i).found => MayBeFound(s, rel, reals, links)
    <2>1. w.found \ Walk(i).found = {}
      BY <1>8
    <2> HIDE DEF s, base
    <2>2. QED BY <1>6, <1>7, <2>1
  <1>10. \A rel \in w.found \ Walk(i).found : IsNewFile(base, rel)
    BY <1>8
  <1>11. w.tasks \subseteq Walk(i).tasks \cup more
    BY <1>6, <1>8
  <1>12. w.at = Walk(i).at /\ w.files = Walk(i).files /\ w.rootReal = Walk(i).rootReal
    BY <1>8
  <1>13. QED BY <1>2, <1>9, <1>10, <1>11, <1>12, OneTaskRight

\* The real path of the base is where every way begins.
LEMMA FindRootRight ==
    ASSUME PathsAreLists, AcceptedInv, FiniteInv, WalkInv, HeldInv, RightInv, discovery # None,
           NEW i \in DOMAIN discovery.walks, FindRoot(i)
    PROVE  RightInv'
  <1> DEFINE w == [Walk(i) EXCEPT !.rootReal = RealIn(tree, Base(i))]
             s == Source(i)
             base == Base(i)
  <1>1. SetWalk(i, FailedWalk(i)) \/ SetWalk(i, w)
    BY DEF FindRoot
  <1>2. CASE SetWalk(i, FailedWalk(i))
    <2>1. /\ FailedWalk(i).at = Walk(i).at /\ FailedWalk(i).files = Walk(i).files
          /\ FailedWalk(i).rootReal = Walk(i).rootReal
          /\ FailedWalk(i).tasks = {} /\ FailedWalk(i).found = {}
      BY WalkFacts DEF FailedWalk
    <2>2. QED BY <1>2, <2>1, LessIsRight
  <1>3. CASE SetWalk(i, w)
    <2>1. /\ w.at = Walk(i).at /\ w.files = Walk(i).files
          /\ w.tasks = Walk(i).tasks /\ w.found = Walk(i).found
          /\ w.rootReal = RealIn(tree, Base(i))
      BY WalkFacts
    <2> HIDE DEF w
    <2>2. ASSUME IsList(base) /\ Len(base) > 0, NEW rel, NEW reals, NEW links, NEW kinds,
                 IsList(rel), Len(rel) > 0, IsAtWay(tree, base, rel, reals, links, kinds),
                 IsOnWay(s, base, Walk(i), rel, reals, links, kinds)
          PROVE  StaysOnWay(s, base, Walk(i), w, rel, reals, links, kinds)
      <3>1. reals[0] = RealIn(tree, base)
        BY <2>2, WayIsThere DEF FiniteInv
      <3>2. QED BY <2>1, <2>2, <3>1 DEF IsOnWay, StaysOnWay
    <2> HIDE DEF s, base
    <2>3. IsList(base) /\ Len(base) > 0 =>
              \A rel, reals, links, kinds :
                  /\ IsList(rel) /\ Len(rel) > 0
                  /\ IsAtWay(tree, base, rel, reals, links, kinds)
                  /\ IsOnWay(s, base, Walk(i), rel, reals, links, kinds)
                  => StaysOnWay(s, base, Walk(i), w, rel, reals, links, kinds)
      BY <2>2, Zenon
    <2>4. \A rel \in w.found \ Walk(i).found : IsNewFile(base, rel)
      BY <2>1
    <2>5. QED BY <1>3, <2>1, <2>3, <2>4, SameLocaleRight DEF s, base
  <1>4. QED BY <1>1, <1>2, <1>3

\* A link is entered when it leads to no folder that was passed.
LEMMA EnterLinkRight ==
    ASSUME NoneIsNoPath, PathsAreLists, AcceptedInv, FiniteInv, WalkInv, HeldInv, RightInv,
           discovery # None, NEW i \in DOMAIN discovery.walks, EnterLink(i)
    PROVE  RightInv'
  <1> DEFINE s == Source(i)
             base == Base(i)
  <1>1. PICK t \in Walk(i).tasks :
            LET passed == Passed(i, t)
                behind == [t EXCEPT !.kind = "folder", !.depth = Len(t.rel), !.real = t.target,
                                    !.passed = passed, !.target = None]
            IN  /\ t.kind = "enter" /\ (t.depth = 0 => Walk(i).rootReal # None)
                /\ SetWalk(i, [Walk(i) EXCEPT
                       !.tasks = (@ \ {t}) \cup
                           (IF t.target = None \/ IsOnPath(passed, t.target) THEN {} ELSE {behind})])
    BY Zenon DEF EnterLink
  <1> DEFINE passed == Passed(i, t)
             behind == [t EXCEPT !.kind = "folder", !.depth = Len(t.rel), !.real = t.target,
                                 !.passed = passed, !.target = None]
             stops == t.target = None \/ IsOnPath(passed, t.target)
             more == IF stops THEN {} ELSE {behind}
             tasks == (Walk(i).tasks \ {t}) \cup more
             w == [Walk(i) EXCEPT !.tasks = tasks]
  <1>2. SetWalk(i, w) /\ t.kind = "enter" /\ (t.depth = 0 => Walk(i).rootReal # None)
    BY <1>1
  <1>3. TaskFields \subseteq DOMAIN t /\ AreNodes(tree)
    BY WalkFacts DEF IsTask, FiniteInv
  <1>4. /\ behind.kind = "folder" /\ behind.rel = t.rel /\ behind.stage = t.stage
        /\ behind.depth = Len(t.rel) /\ behind.real = t.target /\ behind.passed = passed
    <2> HIDE DEF passed
    <2>1. QED BY <1>3 DEF TaskFields
  <1> HIDE DEF behind
  <1>5. /\ tasks \subseteq Walk(i).tasks \cup more
        /\ \A e \in more : e = behind /\ t.target # None /\ ~IsOnPath(passed, t.target)
    OBVIOUS
  <1> HIDE DEF more, tasks
  <1>6. ASSUME IsList(base) /\ Len(base) > 0, NEW rel, NEW reals, NEW links, NEW kinds,
               IsList(rel), Len(rel) > 0, IsAtWay(tree, base, rel, reals, links, kinds),
               Walk(i).rootReal \in {None, reals[0]},
               CameDown(s, t, rel, reals, links, kinds), NEW e \in more
        PROVE  CameDown(s, e, rel, reals, links, kinds)
    <2>1. e = behind /\ t.target # None /\ ~IsOnPath(passed, t.target)
      BY <1>5
    <2> SUFFICES ASSUME NEW k \in 0..Len(rel), t.rel = SubSeq(rel, 1, k)
                 PROVE  CameToFolder(s, e, rel, reals, links, k)
      BY <1>4, <2>1 DEF CameDown
    <2>2. CameToLink(s, t, rel, reals, links, kinds, k)
      BY <1>2, <1>6 DEF CameDown
    <2>3. IsStation(base, rel, reals, kinds, k)
      BY <1>3, <1>6, WayIsThere
    <2>4. Len(rel) \in Nat \ {0} /\ links \subseteq 1..Len(rel)
      BY <1>3, <1>6, WayIsThere
    <2>5. Len(t.rel) = k
      BY <1>6, Beginnings
    <2> HIDE DEF s, base
    <2>6. k \in 1..Len(rel) /\ k \in links
      BY <1>2, <2>2, <2>4 DEF CameToLink
    <2>7. t.target = reals[k] /\ IsList(reals[k]) /\ Trail(t, rel, reals, k - 1)
          /\ NoLoops(reals, links \cap 1..(k - 1))
          /\ t.stage = StageOf(s.include, t.rel, (links \cap 1..(k - 1)) \cup {k})
      BY <1>2, <2>1, <2>2, <2>3 DEF CameToLink, IsStation
    <2> DEFINE parts == t.passed \cup {[from |-> reals[t.depth], to |-> reals[k - 1]]}
    <2>8. passed = parts
      <3>1. t.depth = 0 => Walk(i).rootReal = reals[0]
        BY <1>2, <1>6
      <3>2. QED BY <1>6, <2>6, <2>7, <3>1, TrailIsPassed
    <2>9. \A j \in 0..(k - 1) : reals[k] # reals[j]
      <3>1. \A x : IsList(x) =>
              ((\E part \in parts : IsPart(x, part)) <=> (\E j \in 0..(k - 1) : x = reals[j]))
        BY <2>7, Zenon DEF Trail, Covers
      <3>2. (\E part \in parts : IsPart(reals[k], part))
                <=> (\E j \in 0..(k - 1) : reals[k] = reals[j])
        BY <2>7, <3>1, Zenon
      <3>3. IsOnPath(parts, reals[k]) <=> (\E part \in parts : IsPart(reals[k], part))
        BY Zenon DEF IsOnPath, IsPart
      <3> HIDE DEF parts, passed
      <3>4. ~IsOnPath(parts, reals[k])
        BY <2>1, <2>7, <2>8
      <3>5. QED BY <3>2, <3>3, <3>4
    <2> HIDE DEF parts, passed
    <2>10. links \cap 1..k = (links \cap 1..(k - 1)) \cup {k}
      <3>1. \A m : m \in 1..k <=> m \in 1..(k - 1) \/ m = k
        BY <2>4, <2>6
      <3>2. QED BY <2>6, <3>1
    <2>11. NoLoops(reals, links \cap 1..k)
      BY <2>7, <2>9, <2>10 DEF NoLoops
    <2>12. e.stage = StageAt(s, rel, links, k)
      BY <1>4, <2>1, <2>7, <2>10 DEF StageAt
    <2>13. Trail(e, rel, reals, k)
      BY <1>4, <1>6, <2>1, <2>5, <2>6, <2>7, <2>8, TrailBehind DEF parts
    <2>14. QED BY <2>11, <2>12, <2>13 DEF CameToFolder
  <1>7. /\ w.at = Walk(i).at /\ w.files = Walk(i).files /\ w.rootReal = Walk(i).rootReal
        /\ w.tasks = tasks /\ w.found = Walk(i).found
    BY WalkFacts
  <1> HIDE DEF w, passed
  <1>8. IsList(base) /\ Len(base) > 0 =>
            \A rel, reals, links, kinds :
                /\ IsList(rel) /\ Len(rel) > 0
                /\ IsAtWay(tree, base, rel, reals, links, kinds)
                /\ Walk(i).rootReal \in {None, reals[0]}
                /\ CameDown(s, t, rel, reals, links, kinds)
                => /\ \A e \in more : CameDown(s, e, rel, reals, links, kinds)
                   /\ rel \in w.found \ Walk(i).found => MayBeFound(s, rel, reals, links)
    <2>1. w.found \ Walk(i).found = {}
      BY <1>7
    <2> HIDE DEF s, base
    <2>2. QED BY <1>6, <2>1
  <1>9. \A rel \in w.found \ Walk(i).found : IsNewFile(base, rel)
    BY <1>7
  <1>10. w.tasks \subseteq Walk(i).tasks \cup more
    BY <1>5, <1>7
  <1>11. w.at = Walk(i).at /\ w.files = Walk(i).files /\ w.rootReal = Walk(i).rootReal
    BY <1>7
  <1>12. QED BY <1>2, <1>8, <1>9, <1>10, <1>11, OneTaskRight

\* The files of a locale were found in it.
LEMMA FilesWereFound ==
    ASSUME NEW i, NEW f \in Documents(i) \cup SingletonFiles(i)
    PROVE  f.locale = Locale(i) /\ f.rel \in Walk(i).found
  <1>1. CASE f \in Documents(i)
    <2> DEFINE found == Walk(i).found
               first(id) == CHOOSE r \in found : FoldedId(r) = id
    <2>1. PICK id \in {FoldedId(rel) : rel \in found} :
              f = [id |-> IdOf(first(id)), locale |-> Locale(i), rel |-> first(id)]
      BY <1>1, Zenon DEF Documents
    <2>2. first(id) \in found
      BY <2>1
    <2> HIDE DEF first
    <2>3. QED BY <2>1, <2>2
  <1>2. CASE f \in SingletonFiles(i)
    BY <1>2 DEF SingletonFiles
  <1>3. QED BY <1>1, <1>2
LEMMA EndLocaleRight ==
    ASSUME WalkInv, HeldInv, RightInv, discovery # None, NEW i \in DOMAIN discovery.walks,
           EndLocale(i)
    PROVE  RightInv'
  <1> DEFINE collection == Source(i).kind = "collection"
             more == IF collection THEN Documents(i) ELSE SingletonFiles(i)
             files == Walk(i).files \cup more
             errors == Walk(i).errors \cup (IF collection THEN Duplicates(i) ELSE SingletonErrors(i))
             last == Walk(i).at = Len(LocalesOf(discovery.project, Source(i)))
             pc == IF last THEN "done" ELSE "locale"
             at == IF last THEN 1 ELSE Walk(i).at + 1
             w == [Walk(i) EXCEPT !.files = files, !.errors = errors, !.found = {},
                                  !.rootReal = None, !.pc = pc, !.at = at]
             project == discovery.project
             s == Source(i)
             seen == discovery.seen
  <1>1. Walk(i).tasks = {} /\ SetWalk(i, w)
    BY Zenon DEF EndLocale
  <1>2. \A f \in more : f.locale = Locale(i) /\ f.rel \in Walk(i).found
    BY FilesWereFound
  <1>3. \A f \in files : f \in Walk(i).files \/ f \in more
    OBVIOUS
  <1> HIDE DEF more, files, errors, pc, at
  <1>4. w.files = files /\ w.found = {} /\ w.rootReal = None /\ w.tasks = Walk(i).tasks
    BY WalkFacts
  <1> HIDE DEF w
  <1>5. IsRight(project, s, Walk(i), seen)
    BY HeldFacts DEF RightInv, Source, Walk
  <1>6. Locale(i) = LocalesOf(project, s)[Walk(i).at]
    BY DEF Locale
  <1> HIDE DEF project, s, seen
  <1>7. ASSUME s.filePath = None
        PROVE  /\ \A f \in Walk(i).files : IsFoundRightly(s, BaseOf(s, f.locale), f.rel, seen)
               /\ \A rel \in Walk(i).found : IsFoundRightly(s, BaseOf(s, Locale(i)), rel, seen)
    BY <1>5, <1>6, <1>7, Zenon DEF IsRight
  <1>8. \A f \in w.files : s.filePath = None => IsFoundRightly(s, BaseOf(s, f.locale), f.rel, seen)
    BY <1>2, <1>3, <1>4, <1>7
  <1>9. IsRight(project, s, w, seen)
    BY <1>1, <1>4, <1>8, RestingIsRight
  <1>10. QED BY <1>1, <1>9, RightGoesOn DEF project, s, seen

\* At first nothing is found.
LEMMA BeginDiscoveryRight ==
    ASSUME BeginDiscovery PROVE RightInv'
  <1> DEFINE project == loaded.project
             ss == project.sources
             walks == [i \in DOMAIN ss |-> NewWalk]
  <1>1. /\ discovered' = None
        /\ discovery' = [project |-> project, walks |-> walks, seen |-> {tree}]
    BY DEF BeginDiscovery
  <1>2. \A i \in DOMAIN ss : IsRight(project, ss[i], walks[i], {tree})
    <2>1. NewWalk.tasks = {} /\ NewWalk.found = {} /\ NewWalk.rootReal = None /\ NewWalk.files = {}
      BY DEF NewWalk
    <2>2. \A s : IsRight(project, s, NewWalk, {tree})
      BY <2>1, RestingIsRight
    <2>3. QED BY <2>2
  <1> HIDE DEF project, walks
  <1>3. /\ discovery'.project = project /\ discovery'.walks = walks
        /\ discovery'.seen = {tree}
    BY <1>1
  <1>4. FoundAreRight'
    BY <1>1 DEF FoundAreRight
  <1>5. QED BY <1>2, <1>3, <1>4 DEF RightInv

\* What the walks have is what is discovered.
LEMMA EndDiscoveryRight ==
    ASSUME WalkInv, HeldInv, RightInv, EndDiscovery PROVE RightInv'
  <1> DEFINE project == discovery.project
             seen == discovery.seen
             files == [i \in DOMAIN discovery.walks |-> Walk(i).files]
             errors == UNION {Walk(i).errors : i \in DOMAIN discovery.walks}
             d == [project |-> project, seen |-> seen, errors |-> errors, files |-> files]
  <1>1. discovery # None /\ discovery' = None /\ discovered' = d
    BY Zenon DEF EndDiscovery
  <1>2. DOMAIN discovery.walks = DOMAIN project.sources
    BY <1>1 DEF WalkInv, DiscoveryInv
  <1>3. d.project = project /\ d.seen = seen /\ d.files = files
    BY Zenon
  <1> HIDE DEF d
  <1>4. ASSUME NEW i \in DOMAIN d.project.sources, d.project.sources[i].filePath = None,
               NEW f \in d.files[i]
        PROVE  IsFoundRightly(d.project.sources[i], BaseOf(d.project.sources[i], f.locale), f.rel,
                              d.seen)
    <2>1. f \in Walk(i).files
      BY <1>2, <1>3, <1>4
    <2>2. IsRight(project, project.sources[i], Walk(i), seen)
      BY <1>1, <1>3, <1>4 DEF RightInv, Walk
    <2> HIDE DEF project, seen
    <2>3. QED BY <1>3, <1>4, <2>1, <2>2, Zenon DEF IsRight
  <1>5. FoundAreRight'
    <2>1. \A i \in DOMAIN d.project.sources :
              LET s == d.project.sources[i]
              IN  s.filePath = None => \A f \in d.files[i] :
                      IsFoundRightly(s, BaseOf(s, f.locale), f.rel, d.seen)
      BY <1>4
    <2>2. QED BY <1>1, <2>1, Zenon DEF FoundAreRight
  <1>6. QED BY <1>1, <1>5 DEF RightInv

\* After an edit fewer ways were the same throughout, and what was there was there.
LEMMA MoreSeen ==
    ASSUME NEW s, NEW base, NEW rel, NEW seen, NEW more, seen \subseteq more,
           IsFoundRightly(s, base, rel, seen)
    PROVE  IsFoundRightly(s, base, rel, more)
  <1>1. \A reals, links, kinds : IsFixed(more, base, rel, reals, links, kinds)
                                     => IsFixed(seen, base, rel, reals, links, kinds)
    BY DEF IsFixed
  <1>2. QED BY <1>1 DEF IsFoundRightly
LEMMA MoreIsRight ==
    ASSUME NEW project, NEW s, NEW w, NEW seen, NEW more, seen \subseteq more,
           IsRight(project, s, w, seen)
    PROVE  IsRight(project, s, w, more)
  <1> DEFINE base == BaseOf(s, LocalesOf(project, s)[w.at])
  <1>1. ASSUME s.filePath = None
        PROVE  /\ \A f \in w.files : IsFoundRightly(s, BaseOf(s, f.locale), f.rel, more)
               /\ \A rel \in w.found : IsFoundRightly(s, base, rel, more)
               /\ \A rel, reals, links, kinds :
                      /\ IsList(rel) /\ Len(rel) > 0
                      /\ IsFixed(more, base, rel, reals, links, kinds)
                      => IsOnWay(s, base, w, rel, reals, links, kinds)
    <2>1. /\ \A f \in w.files : IsFoundRightly(s, BaseOf(s, f.locale), f.rel, seen)
          /\ \A rel \in w.found : IsFoundRightly(s, base, rel, seen)
          /\ \A rel, reals, links, kinds :
                 /\ IsList(rel) /\ Len(rel) > 0
                 /\ IsFixed(seen, base, rel, reals, links, kinds)
                 => IsOnWay(s, base, w, rel, reals, links, kinds)
      BY <1>1, Zenon DEF IsRight
    <2>2. \A rel, reals, links, kinds :
              IsFixed(more, base, rel, reals, links, kinds)
                  => IsFixed(seen, base, rel, reals, links, kinds)
      BY DEF IsFixed
    <2> HIDE DEF base
    <2>3. \A f \in w.files : IsFoundRightly(s, BaseOf(s, f.locale), f.rel, more)
      BY <2>1, MoreSeen
    <2>4. \A rel \in w.found : IsFoundRightly(s, base, rel, more)
      BY <2>1, MoreSeen
    <2>5. QED BY <2>1, <2>2, <2>3, <2>4, Zenon
  <1>2. QED BY <1>1, Zenon DEF IsRight
LEMMA EditTreeRight ==
    ASSUME WalkInv, HeldInv, RightInv, EditTree PROVE RightInv'
  <1>1. FoundAreRight'
    <2>1. FoundAreRight /\ discovered' = discovered
      BY DEF RightInv, EditTree
    <2>2. QED BY <2>1 DEF FoundAreRight
  <1>2. CASE discovery = None
    <2>1. discovery' = None
      BY <1>2 DEF EditTree
    <2>2. QED BY <1>1, <2>1 DEF RightInv
  <1>3. CASE discovery # None
    <2> DEFINE seen == discovery.seen \cup {tree'}
    <2>1. discovery' = [discovery EXCEPT !.seen = seen]
      BY <1>3, EditKeepsWalks
    <2>2. {"project", "walks", "seen"} \subseteq DOMAIN discovery
      BY <1>3 DEF HeldInv
    <2>3. /\ discovery'.project = discovery.project /\ discovery'.walks = discovery.walks
          /\ discovery'.seen = seen
      <3> HIDE DEF seen
      <3>1. QED BY <2>1, <2>2
    <2>4. discovery.seen \subseteq seen
      OBVIOUS
    <2> HIDE DEF seen
    <2>5. \A i \in DOMAIN discovery.project.sources :
              IsRight(discovery.project, discovery.project.sources[i], discovery.walks[i],
                      discovery.seen)
      BY <1>3 DEF RightInv
    <2>6. \A i \in DOMAIN discovery.project.sources :
              IsRight(discovery.project, discovery.project.sources[i], discovery.walks[i], seen)
      BY <2>4, <2>5, MoreIsRight
    <2>7. QED BY <1>1, <2>3, <2>6 DEF RightInv
  <1>4. QED BY <1>2, <1>3

LEMMA InitRight == Init => RightInv
  BY DEF Init, RightInv, FoundAreRight

\* Every step.
LEMMA RightNextInv ==
    ASSUME NoneIsNoPath, PathsAreLists, AcceptedInv, FiniteInv, WalkInv, HeldInv, RightInv,
           [Next]_vars
    PROVE  RightInv'
  <1>1. CASE UNCHANGED <<discovery, discovered>>
    <2>1. discovery' = discovery /\ discovered' = discovered
      BY <1>1
    <2>2. FoundAreRight'
      <3>1. FoundAreRight
        BY DEF RightInv
      <3>2. QED BY <2>1, <3>1 DEF FoundAreRight
    <2>3. QED BY <2>1, <2>2 DEF RightInv
  <1>2. CASE UNCHANGED walking \/ UNCHANGED vars
    BY <1>1, <1>2 DEF walking, vars
  <1>3. CASE BeginDiscovery
    BY <1>3, BeginDiscoveryRight
  <1>4. ASSUME discovery # None, NEW i \in DOMAIN discovery.walks, WalkNext(i) PROVE RightInv'
    BY <1>4, BeginSourceRight, BeginLocaleRight, ReadFolderRight, FailedRight, LookAtLinkRight,
       FindTargetRight, FindRootRight, EnterLinkRight, EndLocaleRight, Zenon DEF WalkNext
  <1>5. CASE EndDiscovery
    BY <1>5, EndDiscoveryRight
  <1>6. CASE Interrupt
    <2>1. discovery' = None /\ discovered' = discovered
      BY <1>6 DEF Interrupt
    <2>2. FoundAreRight'
      <3>1. FoundAreRight
        BY DEF RightInv
      <3>2. QED BY <2>1, <3>1 DEF FoundAreRight
    <2>3. QED BY <2>1, <2>2 DEF RightInv
  <1>7. CASE EditTree
    BY <1>7, EditTreeRight
  <1>8. QED
    <2>1. Next => \/ UNCHANGED walking \/ BeginDiscovery
                  \/ discovery # None /\ \E i \in DOMAIN discovery.walks : WalkNext(i)
                  \/ EndDiscovery \/ Interrupt \/ EditTree
      BY Zenon DEF Next
    <2>2. QED BY <1>2, <1>3, <1>4, <1>5, <1>6, <1>7, <2>1, Zenon

\* A file that a discovery has was there at some time; and if its path was the
\* same throughout, it was there throughout and its links may be followed, so
\* that it is not one behind a link to a folder its path came through already.
FoundWereThere ==
    discovered # None =>
        \A i \in DOMAIN discovered.project.sources :
            LET s == discovered.project.sources[i]
                seen == discovered.seen
            IN  s.filePath = None => \A f \in discovered.files[i] :
                    LET base == BaseOf(s, f.locale)
                    IN  /\ IsList(f.rel) /\ Len(f.rel) > 0
                        /\ \E nodes \in seen : KindAt(nodes, base \o f.rel) = "file"
                        /\ IsSteady(seen, base \o f.rel) =>
                               \A nodes \in seen : MayFollow(nodes, s, base, f.rel)
LEMMA RightWereThere ==
    ASSUME SeenInv, PathsAreLists, AcceptedInv, FoundAreRight PROVE FoundWereThere
  <1> SUFFICES ASSUME discovered # None, NEW i \in DOMAIN discovered.project.sources,
                      discovered.project.sources[i].filePath = None,
                      NEW f \in discovered.files[i]
               PROVE  LET s == discovered.project.sources[i]
                          seen == discovered.seen
                          base == BaseOf(s, f.locale)
                      IN  /\ IsList(f.rel) /\ Len(f.rel) > 0
                          /\ \E nodes \in seen : KindAt(nodes, base \o f.rel) = "file"
                          /\ IsSteady(seen, base \o f.rel) =>
                                 \A nodes \in seen : MayFollow(nodes, s, base, f.rel)
    BY Zenon DEF FoundWereThere
  <1> DEFINE seen == discovered.seen
             s == discovered.project.sources[i]
             base == BaseOf(s, f.locale)
             rel == f.rel
  <1>1. IsFoundRightly(s, base, rel, seen)
    BY DEF FoundAreRight
  <1>2. IsList(base) /\ Len(base) > 0
    BY AcceptedPaths DEF AcceptedInv
  <1>3. IsList(rel) /\ Len(rel) > 0 /\ \E nodes \in seen : KindAt(nodes, base \o rel) = "file"
    BY <1>1 DEF IsFoundRightly
  <1> HIDE DEF seen, s, base, rel
  <1>4. ASSUME IsSteady(seen, base \o rel), NEW one \in seen
        PROVE  MayFollow(one, s, base, rel)
    <2> DEFINE reals == RealsOf(one, base, rel)
               links == LinksOf(reals, rel)
               kinds == [k \in 0..Len(rel) |-> KindIn(one, reals[k])]
    <2>1. ASSUME NEW nodes \in seen PROVE IsAtWay(nodes, base, rel, reals, links, kinds)
      <3>1. Route(nodes, base \o rel) = Route(one, base \o rel)
        BY <1>4 DEF IsSteady
      <3>2. \A m \in DOMAIN Route(one, base \o rel) :
                KindIn(one, Route(one, base \o rel)[m]) = KindIn(nodes, Route(one, base \o rel)[m])
        BY <1>4, Zenon DEF IsSteady
      <3>3. RealsOf(nodes, base, rel) = reals
        BY <3>1 DEF RealsOf
      <3>4. \A k \in 0..Len(rel) : /\ Len(base) + k \in DOMAIN Route(one, base \o rel)
                                   /\ reals[k] = Route(one, base \o rel)[Len(base) + k]
        <4>1. /\ IsList(base \o rel) /\ Len(base \o rel) = Len(base) + Len(rel)
              /\ Len(base) \in Nat /\ Len(rel) \in Nat
          BY <1>2, <1>3, PathsJoin
        <4>2. DOMAIN Route(one, base \o rel) = 0..(Len(base) + Len(rel))
          BY <4>1, RouteFacts
        <4>3. \A k \in 0..Len(rel) : Len(base) + k \in 0..(Len(base) + Len(rel))
          BY <4>1
        <4>4. \A k \in 0..Len(rel) : reals[k] = Route(one, base \o rel)[Len(base) + k]
          BY Zenon DEF RealsOf
        <4>5. QED BY <4>2, <4>3, <4>4
      <3>5. \A k \in 0..Len(rel) : kinds[k] = KindIn(one, reals[k])
        BY Zenon
      <3> HIDE DEF reals, kinds
      <3>6. \A k \in 0..Len(rel) : KindIn(nodes, reals[k]) = kinds[k]
        BY <3>2, <3>4, <3>5
      <3>7. QED BY <3>3, <3>6 DEF IsAtWay
    <2> HIDE DEF kinds
    <2>2. IsFixed(seen, base, rel, reals, links, kinds)
      BY <2>1 DEF IsFixed
    <2>3. MayBeFound(s, rel, reals, links)
      <3> HIDE DEF reals, links
      <3>1. QED BY <1>1, <2>2, Zenon DEF IsFoundRightly
    <2>4. MayFollow(one, s, base, rel)
              <=> /\ NoLoops(reals, LinksOf(reals, rel) \ {Len(rel)})
                  /\ Names(s.include, rel, LinksOf(reals, rel) \ {Len(rel)})
      <3> HIDE DEF reals
      <3>1. reals = RealsOf(one, base, rel)
        BY DEF reals
      <3>2. QED BY ONLY <1>3, <3>1, FollowedLinks
    <2>5. QED BY <2>3, <2>4 DEF MayBeFound
  <1>5. QED BY <1>3, <1>4 DEF seen, s, base, rel

\* Whatever is edited meanwhile, a discovery has no file that was not there, and
\* of the paths that lead to one file through links only those that may be
\* followed (the second half of DiscoveredIsThere, at every depth; that the names
\* of a file are wanted says OnlyWantedFilesAreFound).
THEOREM FoundFilesWereThere ==
    ASSUME PatternsAreParsed, NoneIsNoPath, PathsAreLists, EditsAreTrees
    PROVE  Spec /\ IsFiniteSet(DOMAIN tree) /\ AreNodes(tree) => []FoundWereThere
  <1> DEFINE Inv == NamesInv /\ WalkInv /\ AcceptedInv /\ FiniteInv /\ HeldInv /\ SeenInv /\ RightInv
  <1>1. Init /\ IsFiniteSet(DOMAIN tree) /\ AreNodes(tree) => Inv
    BY InitNames, InitWalk, InitHeld, InitRight DEF Init, AcceptedInv, FiniteInv, SeenInv
  <1>2. Inv /\ [Next]_vars => Inv'
    BY NamesNextInv, WalkNextInv, AcceptedNextInv, FiniteNextInv, HeldNextInv, SeenNextInv,
       RightNextInv
  <1>3. Inv => FoundWereThere
    BY RightWereThere DEF RightInv
  <1>4. QED BY <1>1, <1>2, <1>3, PTL DEF Spec

-----------------------------------------------------------------------------
(* What a discovery keeps away from.                                       *)

\* The folders of the scopes of an accepted config are lists of names as well.
ScopesAreLists ==
    \A texts : Accepted(ConfigOf(texts)) =>
        \A dir \in Elements(ScopeDirs(ConfigOf(texts))) : IsList(dir)

\* No file of a discovery lies in the folder that a scope writes to.
ScopesAreApart ==
    discovered # None =>
        LET project == discovered.project
        IN  \A i \in DOMAIN project.sources :
                LET s == project.sources[i]
                IN  s.filePath = None =>
                        \A f \in discovered.files[i] : \A dir \in Elements(project.scopeDirs) :
                            ~IsInside(BaseOf(s, f.locale) \o f.rel, dir)

\* What a path begins with, name by name.
LEMMA BeginsAlike ==
    ASSUME NEW a, IsList(a), NEW b, IsList(b)
    PROVE  IsInside(b, a) <=> Len(a) <= Len(b) /\ \A k \in 1..Len(a) : a[k] = b[k]
  <1>1. Len(a) \in Nat /\ Len(b) \in Nat /\ Len(a) \in 0..Len(a)
    BY LenProperties DEF IsList
  <1>2. ASSUME Len(a) <= Len(b)
        PROVE  /\ SubSeq(a, 1, Len(a)) = Restrict(a, 1..Len(a))
               /\ SubSeq(b, 1, Len(a)) = Restrict(b, 1..Len(a))
    <2>1. Len(a) \in 0..Len(b)
      BY <1>1, <1>2
    <2>2. QED BY <1>1, <2>1, SubSeqRestrict DEF IsList
  <1>3. /\ \A k \in 1..Len(a) : Restrict(a, 1..Len(a))[k] = a[k]
        /\ \A k \in 1..Len(a) : Restrict(b, 1..Len(a))[k] = b[k]
        /\ (\A k \in 1..Len(a) : a[k] = b[k])
              => Restrict(a, 1..Len(a)) = Restrict(b, 1..Len(a))
    BY DEF Restrict
  <1>4. QED BY <1>2, <1>3 DEF IsInside, IsPrefix

\* Of two paths that one is inside of, one is inside the other.
LEMMA InsideBoth ==
    ASSUME NEW x, IsList(x), NEW a, IsList(a), NEW b, IsList(b), IsInside(x, a), IsInside(x, b)
    PROVE  Overlaps(a, b)
  <1>1. Len(a) \in Nat /\ Len(b) \in Nat
    BY LenProperties DEF IsList
  <1>2. /\ \A k \in 1..Len(a) : a[k] = x[k]
        /\ \A k \in 1..Len(b) : b[k] = x[k]
    BY BeginsAlike
  <1>3. CASE Len(a) <= Len(b)
    <2>1. \A k \in 1..Len(a) : k \in 1..Len(b)
      BY <1>1, <1>3
    <2>2. IsInside(b, a)
      BY <1>2, <1>3, <2>1, BeginsAlike
    <2>3. QED BY <2>2 DEF Overlaps
  <1>4. CASE Len(b) <= Len(a)
    <2>1. \A k \in 1..Len(b) : k \in 1..Len(a)
      BY <1>1, <1>4
    <2>2. IsInside(a, b)
      BY <1>2, <1>4, <2>1, BeginsAlike
    <2>3. QED BY <2>2 DEF Overlaps
  <1>5. QED BY <1>1, <1>3, <1>4

\* No source that is walked lies in the folder of a scope, nor has one in it.
LEMMA ScopesLieElsewhere ==
    ASSUME NEW config, Accepted(config), NEW s \in Elements(Sources(config)), s.filePath = None,
           NEW dir \in Elements(ScopeDirs(config))
    PROVE  ~Overlaps(dir, s.root)
  <1>1. PathsOk(config, Elements(Sources(config)))
    BY Zenon DEF Accepted
  <1>2. Overlaps(dir, s.root) => IsInside(dir, s.root)
    BY <1>1 DEF PathsOk, ManagedOk
  <1>3. ~IsInside(dir, s.root)
    <2>1. PICK i \in DOMAIN ScopeDirs(config) : dir = ScopeDirs(config)[i]
      BY DEF Elements
    <2>2. QED BY <1>1, <2>1, Zenon DEF PathsOk, ScopeDirsApart
  <1>4. QED BY <1>2, <1>3

\* What a scope writes is not content again: the walk does not see to it, the
\* check of the config does (checkPaths).  Whatever the tree, its links and its
\* edits, no path of a file of a discovery lies in the folder of a scope.
THEOREM NothingOfAScopeIsFound ==
    ASSUME PatternsAreParsed, NoneIsNoPath, PathsAreLists, ScopesAreLists, EditsAreTrees
    PROVE  Spec /\ IsFiniteSet(DOMAIN tree) /\ AreNodes(tree) => []ScopesAreApart
  <1> DEFINE Inv == NamesInv /\ WalkInv /\ AcceptedInv /\ FiniteInv /\ HeldInv /\ RightInv
  <1>1. Init /\ IsFiniteSet(DOMAIN tree) /\ AreNodes(tree) => Inv
    BY InitNames, InitWalk, InitHeld, InitRight DEF Init, AcceptedInv, FiniteInv
  <1>2. Inv /\ [Next]_vars => Inv'
    BY NamesNextInv, WalkNextInv, AcceptedNextInv, FiniteNextInv, HeldNextInv, RightNextInv
  <1>3. Inv => ScopesAreApart
    <2> SUFFICES ASSUME Inv, discovered # None,
                        NEW i \in DOMAIN discovered.project.sources,
                        discovered.project.sources[i].filePath = None,
                        NEW f \in discovered.files[i],
                        NEW dir \in Elements(discovered.project.scopeDirs),
                        IsInside(BaseOf(discovered.project.sources[i], f.locale) \o f.rel, dir)
                 PROVE  FALSE
      BY Zenon DEF ScopesAreApart
    <2> DEFINE project == discovered.project
               s == project.sources[i]
               base == BaseOf(s, f.locale)
    <2>1. PICK texts : Accepted(ConfigOf(texts)) /\ project = ResolveProject(ConfigOf(texts))
      BY DEF AcceptedInv, IsAccepted
    <2>2. s \in Elements(Sources(ConfigOf(texts))) /\ dir \in Elements(ScopeDirs(ConfigOf(texts)))
      BY <2>1 DEF ResolveProject, Elements
    <2>3. IsList(s.root) /\ IsList(dir) /\ ~Overlaps(dir, s.root)
      BY <2>1, <2>2, ScopesLieElsewhere DEF PathsAreLists, ScopesAreLists
    <2>4. IsList(f.rel)
      BY DEF RightInv, FoundAreRight, IsFoundRightly
    <2> HIDE DEF project, s
    <2>5. IsList(base)
      BY <2>3, PathFacts DEF BaseOf
    <2>6. IsInside(base, s.root)
      BY <2>3, <2>4, InsideFacts, InsideJoin DEF BaseOf
    <2>7. IsList(base \o f.rel) /\ IsInside(base \o f.rel, base)
      BY <2>4, <2>5, InsideJoin, PathsJoin
    <2>8. IsInside(base \o f.rel, s.root)
      <3> HIDE DEF base
      <3>1. Len(s.root) \in Nat /\ Len(base) \in Nat
        BY <2>3, <2>5, LenProperties DEF IsList
      <3>2. /\ Len(s.root) <= Len(base) /\ \A k \in 1..Len(s.root) : s.root[k] = base[k]
            /\ Len(base) <= Len(base \o f.rel)
            /\ \A k \in 1..Len(base) : base[k] = (base \o f.rel)[k]
        BY <2>3, <2>5, <2>6, <2>7, BeginsAlike
      <3>3. Len(base \o f.rel) \in Nat
        BY <2>7, LenProperties DEF IsList
      <3> DEFINE path == base \o f.rel
      <3> HIDE DEF path
      <3>4. /\ Len(s.root) <= Len(path) /\ \A k \in 1..Len(s.root) : s.root[k] = path[k]
        BY <3>1, <3>2, <3>3 DEF path
      <3>5. QED BY <2>3, <2>7, <3>4, BeginsAlike DEF path
    <2>9. IsInside(base \o f.rel, dir)
      BY DEF project, s
    <2>10. QED BY <2>3, <2>7, <2>8, <2>9, InsideBoth
  <1>4. QED BY <1>1, <1>2, <1>3, PTL DEF Spec
=============================================================================
