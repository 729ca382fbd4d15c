------------------------- MODULE PublicationProofs -------------------------
(***************************************************************************)
(* What the two publications guarantee: of the outputs of a build          *)
(* (Publish), and of the packages on npm (Release).                        *)
(***************************************************************************)
EXTENDS Publish, Release, TLAPS

(***************************************************************************)
(* The outputs of a build.  What the locks of publishAll are good for, for *)
(* every number of builders and scopes and every order in which the        *)
(* configs list the scopes: who writes the main output has all scopes      *)
(* locked, so nobody else comes between the first and the last file of a   *)
(* build.                                                                  *)
(***************************************************************************)

HasScopes(b) == \A s \in Scopes : lock[s] = b

Before == {"main", "before"}
During == {"after", "scopes"}

\* A build locks the scopes in its order, and keeps them until it ends.
LocksAreKept ==
    \A b \in Builders :
        /\ pc[b] = "locks" => \A i \in 1..(at[b] - 1) : lock[order[b][i]] = b
        /\ pc[b] \in Before \cup During => HasScopes(b)
        /\ pc[b] \in {"idle", "after"} \cup Before => at[b] = 1

\* While a build writes, the outputs it is through with are of the version it
\* read.
WrittenSoFar ==
    \A b \in Builders : Writing(b) =>
        /\ ~whole
        /\ out[Main] = got[b]
        /\ pc[b] = "scopes" =>
              \A i \in 1..(at[b] - 1) : out[order[b][i]] = got[b]

WholeIsUniform == whole => \A o \in Outputs : out[o] = out[Main]

Inv ==
    /\ TypeOK
    /\ LocksAreKept
    /\ WrittenSoFar
    /\ WholeIsUniform

----------------------------------------------------------------------------
(* Facts about orders and locks.                                           *)

\* An order lists the scopes, all of them.
LEMMA OrderFacts ==
    ASSUME NEW o \in Orders
    PROVE  /\ Len(o) \in Nat \ {0}
           /\ \A i \in 1..Len(o) : o[i] \in Scopes
           /\ \A s \in Scopes : \E i \in 1..Len(o) : o[i] = s
  <1>1. o \in Seq(Scopes) /\ Len(o) > 0 /\ {o[i] : i \in DOMAIN o} = Scopes
    BY OrdersAreComplete
  <1>2. DOMAIN o = 1..Len(o) /\ Len(o) \in Nat
    BY <1>1
  <1>3. QED
    BY <1>1, <1>2

\* The scope a build has come to is a scope.
LEMMA HereFacts ==
    ASSUME TypeOK, NEW b \in Builders
    PROVE  /\ at[b] \in 1..Len(order[b])
           /\ order[b] \in Orders
           /\ Len(order[b]) \in Nat \ {0}
           /\ Here(b) \in Scopes
           /\ Here(b) # Main
  <1>1. order[b] \in Orders /\ at[b] \in 1..Len(order[b])
    BY DEF TypeOK
  <1>2. QED
    BY <1>1, OrderFacts, Inputs DEF Here

\* Two builds never hold all scopes at once.
LEMMA OneHasScopes ==
    ASSUME TypeOK, NEW a \in Builders, NEW b \in Builders,
           HasScopes(a), HasScopes(b)
    PROVE  a = b
  <1>1. \E s \in Scopes : TRUE
    BY HereFacts
  <1>2. QED
    BY <1>1 DEF HasScopes

\* Giving back what b has locked takes nothing from anybody else.
LEMMA FreeFacts ==
    ASSUME TypeOK, NEW b \in Builders
    PROVE  /\ Free(b) \in [Outputs -> Builders \cup {None}]
           /\ \A o \in Outputs : \A a \in Builders \ {b} :
                 lock[o] = a => Free(b)[o] = a
  BY DEF Free, TypeOK

----------------------------------------------------------------------------

LEMMA InitInv == Init => Inv
  <1> SUFFICES ASSUME Init PROVE Inv
    OBVIOUS
  <1>1. TypeOK
    <2>1. ASSUME NEW b \in Builders PROVE at[b] \in 1..Len(order[b])
      <3>1. order[b] \in Orders /\ at[b] = 1
        BY DEF Init
      <3>2. Len(order[b]) \in Nat \ {0}
        BY <3>1, OrderFacts
      <3>3. QED
        BY <3>1, <3>2
    <2>2. QED
      BY <2>1, Inputs DEF Init, TypeOK
  <1>2. QED
    BY <1>1 DEF Init, Inv, LocksAreKept, WrittenSoFar, WholeIsUniform, Writing,
                Before, During, Outputs

----------------------------------------------------------------------------
(* A step at a time.                                                       *)

\* A build that ends, for whatever reason, while the outputs stay as they are
\* or are no longer whole.
LEMMA EndInv ==
    ASSUME Inv, NEW b \in Builders, NEW said \in {"none", "ok", "failed"},
           EndBuild(b, said),
           out' \in [Outputs -> 0..MaxEdits \cup {Mixed}], whole' \in BOOLEAN,
           UNCHANGED <<content, got, order>>,
           \A a \in Builders \ {b} : Writing(a) => out' = out /\ whole' = whole,
           whole' => \A o \in Outputs : out'[o] = out'[Main]
    PROVE  Inv'
  <1> USE DEF Inv
  <1>1. TypeOK'
    <2>1. \A a \in Builders : at'[a] \in 1..Len(order'[a])
      BY HereFacts DEF EndBuild, TypeOK
    <2>2. lock' \in [Outputs -> Builders \cup {None}]
      BY FreeFacts DEF EndBuild
    <2>3. /\ pc' \in [Builders -> {"idle", "locks", "main", "before", "after",
                                "scopes"}]
          /\ at' \in [Builders -> Nat]
          /\ outcome' \in [Builders -> {"none", "ok", "failed"}]
      BY DEF EndBuild, Goto, TypeOK
    <2>4. \A a \in Builders : pc'[a] \in {"before", "after"} => lock'[Main] = a
      BY FreeFacts DEF EndBuild, Goto, TypeOK, Outputs
    <2>5. QED
      BY <2>1, <2>2, <2>3, <2>4 DEF TypeOK
  <1>2. LocksAreKept'
    <2> SUFFICES ASSUME NEW a \in Builders
                 PROVE  LocksAreKept!(a)'
      BY DEF LocksAreKept
    <2>1. CASE a = b
      <3>1. pc'[a] = "idle" /\ at'[a] = 1
        BY <2>1 DEF EndBuild, Goto, TypeOK
      <3>2. QED
        BY <3>1 DEF LocksAreKept, Before, During
    <2>2. CASE a # b
      <3>1. pc'[a] = pc[a] /\ at'[a] = at[a] /\ order'[a] = order[a]
        BY <2>2 DEF EndBuild, Goto, TypeOK
      <3>2. \A s \in Scopes : lock[s] = a => lock'[s] = a
        BY <2>2, FreeFacts DEF EndBuild, Outputs
      <3>3. \A i \in 1..(at[a] - 1) : order[a][i] \in Scopes
        BY HereFacts, OrderFacts
      <3>4. QED
        BY <3>1, <3>2, <3>3 DEF LocksAreKept, HasScopes
    <2>3. QED
      BY <2>1, <2>2
  <1>3. WrittenSoFar'
    <2> SUFFICES ASSUME NEW a \in Builders, Writing(a)'
                 PROVE  WrittenSoFar!(a)'
      BY DEF WrittenSoFar
    <2>1. a # b /\ Writing(a) /\ pc'[a] = pc[a] /\ at'[a] = at[a]
      BY DEF EndBuild, Goto, TypeOK, Writing
    <2>2. QED
      BY <2>1 DEF WrittenSoFar
  <1>4. WholeIsUniform'
    BY DEF WholeIsUniform
  <1>5. QED
    BY <1>1, <1>2, <1>3, <1>4

\* The steps that end a build: nobody else writes when this one did.
LEMMA OthersDoNotWrite ==
    ASSUME Inv, NEW b \in Builders, pc[b] \in Before \cup During
    PROVE  \A a \in Builders \ {b} : ~Writing(a)
  BY OneHasScopes DEF Inv, LocksAreKept, Writing, Before, During

LEMMA FailsBeforeWritingInv ==
    ASSUME Inv, NEW b \in Builders, FailsBeforeWriting(b)
    PROVE  Inv'
  BY EndInv DEF FailsBeforeWriting, Inv, TypeOK, WholeIsUniform

LEMMA WriteMainFailsInv ==
    ASSUME Inv, NEW b \in Builders, WriteMainFails(b)
    PROVE  Inv'
  <1>1. out' \in [Outputs -> 0..MaxEdits \cup {Mixed}]
    BY DEF WriteMainFails, Inv, TypeOK, Outputs
  <1>2. \A a \in Builders \ {b} : ~Writing(a)
    BY OthersDoNotWrite DEF WriteMainFails, Before
  <1>3. QED
    BY <1>1, <1>2, EndInv DEF WriteMainFails

LEMMA HookFailsInv ==
    ASSUME Inv, NEW b \in Builders, HookFails(b)
    PROVE  Inv'
  BY EndInv DEF HookFails, Inv, TypeOK, WholeIsUniform

LEMMA WriteScopeFailsInv ==
    ASSUME Inv, NEW b \in Builders, WriteScopeFails(b)
    PROVE  Inv'
  <1>1. out' \in [Outputs -> 0..MaxEdits \cup {Mixed}]
    BY HereFacts DEF WriteScopeFails, Inv, TypeOK, Outputs
  <1>2. \A a \in Builders \ {b} : ~Writing(a)
    BY OthersDoNotWrite DEF WriteScopeFails, During
  <1>3. ~whole /\ whole' = whole
    BY DEF WriteScopeFails, Inv, WrittenSoFar, Writing
  <1>4. QED
    BY <1>1, <1>2, <1>3, EndInv DEF WriteScopeFails, Inv, TypeOK

LEMMA CrashInv ==
    ASSUME Inv, NEW b \in Builders, Crash(b)
    PROVE  Inv'
  BY EndInv DEF Crash, Inv, TypeOK, WholeIsUniform

\* With its last scope a build makes the outputs whole.
LEMMA LastScopeInv ==
    ASSUME Inv, NEW b \in Builders, WriteScope(b), ~More(b)
    PROVE  Inv'
  <1>1. /\ pc[b] = "scopes"
        /\ out' = [out EXCEPT ![Here(b)] = got[b]]
        /\ EndBuild(b, "ok") /\ whole' = TRUE
        /\ UNCHANGED <<content, got, order>>
    BY DEF WriteScope
  <1>2. out' \in [Outputs -> 0..MaxEdits \cup {Mixed}]
    BY <1>1 DEF Inv, TypeOK
  <1>3. \A a \in Builders \ {b} : ~Writing(a)
    BY <1>1, OthersDoNotWrite DEF During
  <1>4. \A s \in Scopes : out'[s] = got[b]
    <2> SUFFICES ASSUME NEW s \in Scopes PROVE out'[s] = got[b]
      OBVIOUS
    <2>1. PICK i \in 1..Len(order[b]) : order[b][i] = s
      BY HereFacts, OrderFacts DEF Inv
    <2>2. at[b] = Len(order[b]) /\ at[b] \in Nat
      BY HereFacts DEF More, Inv
    <2>3. CASE i = at[b]
      BY <1>1, <2>1, <2>3 DEF Here, Inv, TypeOK, Outputs
    <2>4. CASE i # at[b]
      <3>1. out[s] = got[b]
        BY <1>1, <2>1, <2>2, <2>4 DEF Inv, WrittenSoFar, Writing
      <3>2. QED
        BY <1>1, <3>1 DEF Inv, TypeOK, Outputs
    <2>5. QED
      BY <2>3, <2>4
  <1>5. out'[Main] = got[b]
    BY <1>1, HereFacts DEF Inv, WrittenSoFar, Writing, TypeOK, Outputs
  <1>6. QED
    BY <1>1, <1>2, <1>3, <1>4, <1>5, EndInv DEF Outputs

\* The steps that go on with a build.
LEMMA EditInv ==
    ASSUME Inv, Edit
    PROVE  Inv'
  <1>1. TypeOK'
    BY Inputs DEF Inv, Edit, TypeOK
  <1>2. QED
    BY <1>1 DEF Inv, Edit, LocksAreKept, HasScopes, WrittenSoFar, Writing,
                WholeIsUniform

LEMMA BuildBeginsInv ==
    ASSUME Inv, NEW b \in Builders, BuildBegins(b)
    PROVE  Inv'
  <1> USE DEF Inv
  <1>1. /\ pc[b] = "idle" /\ at[b] = 1
        /\ pc' = [pc EXCEPT ![b] = "locks"]
        /\ got' = [got EXCEPT ![b] = content]
        /\ UNCHANGED <<content, out, lock, at, whole>>
    BY DEF BuildBegins, Goto, LocksAreKept
  <1>2. PICK o \in Orders : order' = [order EXCEPT ![b] = o]
    BY DEF BuildBegins
  <1>3. TypeOK'
    <2>1. \A a \in Builders : at'[a] \in 1..Len(order'[a])
      BY <1>1, <1>2, OrderFacts DEF TypeOK
    <2>2. outcome' \in [Builders -> {"none", "ok", "failed"}]
      BY DEF BuildBegins, TypeOK
    <2>3. QED
      BY <1>1, <1>2, <2>1, <2>2 DEF TypeOK
  <1>4. \A a \in Builders \ {b} :
            pc'[a] = pc[a] /\ got'[a] = got[a] /\ order'[a] = order[a]
    BY <1>1, <1>2 DEF TypeOK
  <1>5. pc'[b] = "locks" /\ at'[b] = 1
    BY <1>1 DEF TypeOK
  <1>6. LocksAreKept'
    BY <1>1, <1>4, <1>5 DEF LocksAreKept, HasScopes, Before, During
  <1>7. WrittenSoFar'
    BY <1>1, <1>4, <1>5 DEF WrittenSoFar, Writing
  <1>8. QED
    BY <1>1, <1>3, <1>6, <1>7 DEF WholeIsUniform

LEMMA LockScopeInv ==
    ASSUME Inv, NEW b \in Builders, LockScope(b)
    PROVE  Inv'
  <1> USE DEF Inv
  <1>1. /\ pc[b] = "locks" /\ lock[Here(b)] = None
        /\ lock' = [lock EXCEPT ![Here(b)] = b]
        /\ UNCHANGED <<content, out, got, order, outcome, whole>>
    BY DEF LockScope
  <1>2. Here(b) \in Scopes /\ Here(b) # Main /\ Here(b) \in Outputs
    BY HereFacts DEF Outputs
  <1>3. /\ \A o \in Outputs : \A a \in Builders : lock[o] = a => lock'[o] = a
        /\ lock'[Here(b)] = b /\ lock'[Main] = lock[Main]
        /\ lock' \in [Outputs -> Builders \cup {None}]
    BY <1>1, <1>2, Inputs DEF TypeOK, Outputs
  <1>4. \A a \in Builders \ {b} : pc'[a] = pc[a] /\ at'[a] = at[a]
    BY DEF LockScope, Goto, TypeOK
  <1>5. \A a \in Builders : \A i \in 1..(at[a] - 1) : order[a][i] \in Outputs
    BY HereFacts, OrderFacts DEF Outputs
  <1>6. \A i \in 1..at[b] : lock'[order[b][i]] = b
    <2>1. at[b] \in Nat
      BY DEF TypeOK
    <2>2. \A i \in 1..(at[b] - 1) : lock'[order[b][i]] = b
      BY <1>1, <1>3, <1>5 DEF LocksAreKept
    <2>3. QED
      BY <1>3, <2>1, <2>2 DEF Here
  <1>7. WrittenSoFar'
    <2>1. ~Writing(b)'
      BY <1>1 DEF LockScope, Goto, TypeOK, Writing
    <2>2. QED
      BY <1>1, <1>4, <2>1 DEF WrittenSoFar, Writing
  <1>8. CASE More(b)
    <2>1. /\ pc' = pc /\ at' = [at EXCEPT ![b] = @ + 1]
          /\ at'[b] = at[b] + 1
      BY <1>8 DEF LockScope, TypeOK
    <2>2. TypeOK'
      <3>1. \A a \in Builders : at'[a] \in 1..Len(order'[a])
        BY <1>1, <1>4, <1>8, <2>1, HereFacts DEF More, TypeOK
      <3>2. QED
        BY <1>1, <1>3, <2>1, <3>1 DEF TypeOK
    <2>3. LocksAreKept'
      <3> SUFFICES ASSUME NEW a \in Builders PROVE LocksAreKept!(a)'
        BY DEF LocksAreKept
      <3>1. CASE a = b
        <4>1. at[b] \in Nat
          BY DEF TypeOK
        <4>2. QED
          BY <1>1, <1>6, <2>1, <3>1, <4>1 DEF LocksAreKept, Before, During
      <3>2. CASE a # b
        BY <1>1, <1>3, <1>4, <1>5, <3>2 DEF LocksAreKept, HasScopes, Outputs
      <3>3. QED
        BY <3>1, <3>2
    <2>4. QED
      BY <1>1, <1>7, <2>2, <2>3 DEF WholeIsUniform
  <1>9. CASE ~More(b)
    <2>1. /\ pc' = [pc EXCEPT ![b] = "main"] /\ at' = [at EXCEPT ![b] = 1]
          /\ pc'[b] = "main" /\ at'[b] = 1
      BY <1>9 DEF LockScope, Goto, TypeOK
    <2>2. TypeOK'
      <3>1. \A a \in Builders : at'[a] \in 1..Len(order'[a])
        BY <1>1, <1>4, <2>1, HereFacts DEF TypeOK
      <3>2. QED
        BY <1>1, <1>3, <2>1, <3>1 DEF TypeOK
    <2>3. \A s \in Scopes : lock'[s] = b
      <3>1. at[b] = Len(order[b])
        BY <1>9, HereFacts DEF More
      <3>2. QED
        BY <1>6, <3>1, HereFacts, OrderFacts
    <2>4. LocksAreKept'
      <3> SUFFICES ASSUME NEW a \in Builders PROVE LocksAreKept!(a)'
        BY DEF LocksAreKept
      <3>1. CASE a = b
        BY <2>1, <2>3, <3>1 DEF LocksAreKept, HasScopes
      <3>2. CASE a # b
        BY <1>1, <1>3, <1>4, <1>5, <3>2 DEF LocksAreKept, HasScopes, Outputs
      <3>3. QED
        BY <3>1, <3>2
    <2>5. QED
      BY <1>1, <1>7, <2>2, <2>4 DEF WholeIsUniform
  <1>10. QED
    BY <1>8, <1>9

LEMMA LockMainInv ==
    ASSUME Inv, NEW b \in Builders, LockMain(b)
    PROVE  Inv'
  <1> USE DEF Inv
  <1>1. /\ pc[b] = "main" /\ lock[Main] = None
        /\ lock' = [lock EXCEPT ![Main] = b]
        /\ pc' = [pc EXCEPT ![b] = "before"]
        /\ UNCHANGED <<content, out, got, order, at, outcome, whole>>
    BY DEF LockMain, Goto
  <1>2. lock'[Main] = b /\ \A s \in Scopes : lock'[s] = lock[s]
    BY <1>1, Inputs DEF TypeOK, Outputs
  <1>3. pc'[b] = "before" /\ \A a \in Builders \ {b} : pc'[a] = pc[a]
    BY <1>1 DEF TypeOK
  <1>4. TypeOK'
    <2>1. \A a \in Builders : pc'[a] \in {"before", "after"} => lock'[Main] = a
      BY <1>1, <1>2, <1>3, Inputs DEF TypeOK
    <2>2. QED
      BY <1>1, <2>1 DEF TypeOK
  <1>5. LocksAreKept'
    <2>1. \A a \in Builders : \A i \in 1..(at[a] - 1) : order[a][i] \in Scopes
      BY HereFacts, OrderFacts
    <2>2. QED
      BY <1>1, <1>2, <1>3, <2>1 DEF LocksAreKept, HasScopes, Before, During
  <1>6. WrittenSoFar'
    BY <1>1, <1>3 DEF WrittenSoFar, Writing
  <1>7. QED
    BY <1>1, <1>4, <1>5, <1>6 DEF WholeIsUniform

LEMMA WriteMainInv ==
    ASSUME Inv, NEW b \in Builders, WriteMain(b)
    PROVE  Inv'
  <1> USE DEF Inv
  <1>1. /\ pc[b] = "before" /\ whole' = FALSE
        /\ out' = [out EXCEPT ![Main] = got[b]]
        /\ pc' = [pc EXCEPT ![b] = "after"]
        /\ UNCHANGED <<content, lock, got, order, at, outcome>>
    BY DEF WriteMain, Goto
  <1>2. pc'[b] = "after" /\ \A a \in Builders \ {b} : pc'[a] = pc[a]
    BY <1>1 DEF TypeOK
  <1>3. \A a \in Builders \ {b} : ~Writing(a)
    BY <1>1, OthersDoNotWrite DEF Before
  <1>4. TypeOK'
    <2>1. out' \in [Outputs -> 0..MaxEdits \cup {Mixed}]
      BY <1>1 DEF TypeOK
    <2>2. QED
      BY <1>1, <1>2, <2>1 DEF TypeOK
  <1>5. LocksAreKept'
    BY <1>1, <1>2 DEF LocksAreKept, HasScopes, Before, During
  <1>6. WrittenSoFar'
    BY <1>1, <1>2, <1>3 DEF WrittenSoFar, Writing, TypeOK, Outputs
  <1>7. QED
    BY <1>1, <1>4, <1>5, <1>6 DEF WholeIsUniform

LEMMA HooksAreDoneInv ==
    ASSUME Inv, NEW b \in Builders, HooksAreDone(b)
    PROVE  Inv'
  <1> USE DEF Inv
  <1>1. /\ pc[b] = "after" /\ lock[Main] = b
        /\ lock' = [lock EXCEPT ![Main] = None]
        /\ pc' = [pc EXCEPT ![b] = "scopes"]
        /\ UNCHANGED <<content, out, got, order, at, outcome, whole>>
    BY DEF HooksAreDone, Goto, TypeOK
  <1>2. pc'[b] = "scopes" /\ \A a \in Builders \ {b} : pc'[a] = pc[a]
    BY <1>1 DEF TypeOK
  <1>3. \A s \in Scopes : lock'[s] = lock[s]
    BY <1>1, Inputs DEF TypeOK, Outputs
  <1>4. TypeOK'
    <2>1. \A a \in Builders : pc'[a] \in {"before", "after"} => lock'[Main] = a
      BY <1>1, <1>2 DEF TypeOK
    <2>2. QED
      BY <1>1, <2>1 DEF TypeOK
  <1>5. LocksAreKept'
    <2>1. \A a \in Builders : \A i \in 1..(at[a] - 1) : order[a][i] \in Scopes
      BY HereFacts, OrderFacts
    <2>2. QED
      BY <1>1, <1>2, <1>3, <2>1 DEF LocksAreKept, HasScopes, Before, During
  <1>6. WrittenSoFar'
    <2>1. at[b] = 1
      BY <1>1 DEF LocksAreKept
    <2>2. QED
      BY <1>1, <1>2, <2>1 DEF WrittenSoFar, Writing
  <1>7. QED
    BY <1>1, <1>4, <1>5, <1>6 DEF WholeIsUniform

\* A scope that is not the last one.
LEMMA NextScopeInv ==
    ASSUME Inv, NEW b \in Builders, WriteScope(b), More(b)
    PROVE  Inv'
  <1> USE DEF Inv
  <1>1. /\ pc[b] = "scopes"
        /\ out' = [out EXCEPT ![Here(b)] = got[b]]
        /\ at' = [at EXCEPT ![b] = @ + 1]
        /\ UNCHANGED <<content, lock, pc, got, order, outcome, whole>>
    BY DEF WriteScope
  <1>2. at[b] \in Nat /\ at'[b] = at[b] + 1
    BY <1>1 DEF TypeOK
  <1>3. \A a \in Builders \ {b} : at'[a] = at[a] /\ ~Writing(a)
    BY <1>1, OthersDoNotWrite DEF TypeOK, During
  <1>4. ~whole
    BY <1>1 DEF WrittenSoFar, Writing
  <1>5. TypeOK'
    <2>1. \A a \in Builders : at'[a] \in 1..Len(order'[a])
      BY <1>1, <1>2, <1>3, HereFacts DEF More, TypeOK
    <2>2. out' \in [Outputs -> 0..MaxEdits \cup {Mixed}]
      BY <1>1 DEF TypeOK
    <2>3. at' \in [Builders -> Nat]
      BY <1>1 DEF TypeOK
    <2>4. QED
      BY <1>1, <2>1, <2>2, <2>3 DEF TypeOK
  <1>6. LocksAreKept'
    BY <1>1, <1>3 DEF LocksAreKept, HasScopes, Before, During
  <1>7. WrittenSoFar'
    <2> SUFFICES ASSUME NEW a \in Builders, Writing(a)'
                 PROVE  WrittenSoFar!(a)'
      BY DEF WrittenSoFar
    <2>1. a = b
      BY <1>1, <1>3 DEF Writing
    <2>2. Here(b) \in Outputs /\ Here(b) # Main /\ Main \in Outputs
      BY HereFacts DEF Outputs
    <2>3. out'[Main] = got[b]
      BY <1>1, <2>2 DEF WrittenSoFar, Writing, TypeOK
    <2>4. \A i \in 1..(at[b] - 1) : order[b][i] \in Outputs
      BY HereFacts, OrderFacts DEF Outputs
    <2>5. \A i \in 1..(at[b] - 1) : out'[order[b][i]] = got[b]
      BY <1>1, <2>2, <2>4 DEF WrittenSoFar, Writing, TypeOK
    <2>6. out'[order[b][at[b]]] = got[b]
      BY <1>1, <2>2 DEF Here, TypeOK
    <2>7. \A i \in 1..at[b] : out'[order[b][i]] = got[b]
      BY <1>2, <2>5, <2>6
    <2>8. QED
      BY <1>1, <1>2, <1>4, <2>1, <2>3, <2>7 DEF WrittenSoFar
  <1>8. QED
    BY <1>1, <1>4, <1>5, <1>6, <1>7 DEF WholeIsUniform

----------------------------------------------------------------------------

LEMMA NextInv == Inv /\ [Next]_vars => Inv'
  <1> SUFFICES ASSUME Inv, [Next]_vars PROVE Inv'
    OBVIOUS
  <1>1. CASE Edit
    BY <1>1, EditInv
  <1>2. ASSUME NEW b \in Builders, BuildBegins(b) PROVE Inv'
    BY <1>2, BuildBeginsInv
  <1>3. ASSUME NEW b \in Builders, Step(b) PROVE Inv'
    <2>1. CASE LockScope(b)
      BY <2>1, LockScopeInv
    <2>2. CASE LockMain(b)
      BY <2>2, LockMainInv
    <2>3. CASE FailsBeforeWriting(b)
      BY <2>3, FailsBeforeWritingInv
    <2>4. CASE WriteMain(b)
      BY <2>4, WriteMainInv
    <2>5. CASE WriteMainFails(b)
      BY <2>5, WriteMainFailsInv
    <2>6. CASE HooksAreDone(b)
      BY <2>6, HooksAreDoneInv
    <2>7. CASE HookFails(b)
      BY <2>7, HookFailsInv
    <2>8. CASE WriteScope(b)
      BY <2>8, NextScopeInv, LastScopeInv
    <2>9. CASE WriteScopeFails(b)
      BY <2>9, WriteScopeFailsInv
    <2>10. QED
      BY <1>3, <2>1, <2>2, <2>3, <2>4, <2>5, <2>6, <2>7, <2>8, <2>9 DEF Step
  <1>4. ASSUME NEW b \in Builders, Crash(b) PROVE Inv'
    BY <1>4, CrashInv
  <1>5. CASE UNCHANGED vars
    BY <1>5 DEF Inv, vars, TypeOK, LocksAreKept, HasScopes, WrittenSoFar,
                Writing, WholeIsUniform
  <1>6. QED
    BY <1>1, <1>2, <1>3, <1>4, <1>5 DEF Next

\* The invariant that ties the locks, the progress of the builds and what is
\* on disk together holds in every behaviour of publishAll.
THEOREM Invariance == Spec => []Inv
  <1>1. QED
    BY InitInv, NextInv, PTL DEF Spec

\* Every variable of publishAll keeps its type, and a build that writes the
\* main output or runs the hooks after it has it locked (engine.service.ts:629).
THEOREM TypeCorrectness == Spec => []TypeOK
  <1>1. Inv => TypeOK
    BY DEF Inv
  <1>2. QED
    BY <1>1, Invariance, PTL

\* publishAll (engine.service.ts:774-777): who has begun to write has every
\* scope that it still has to write.
THEOREM ScopesAreLocked == Spec => []ScopesStayLocked
  <1>1. Inv => ScopesStayLocked
    BY DEF Inv, LocksAreKept, ScopesStayLocked, HasScopes, Writing, During
  <1>2. QED
    BY <1>1, Invariance, PTL

\* publishAll (engine.service.ts:757-760): the main output and the scopes come
\* from the same content whenever nobody writes and the last build that wrote
\* succeeded, although the main output is unlocked before the scopes are
\* written.
THEOREM OutputsAreOfOneVersion == Spec => []OutputsAgree
  <1>1. Inv => OutputsAgree
    BY DEF Inv, WholeIsUniform, OutputsAgree
  <1>2. QED
    BY <1>1, Invariance, PTL


(***************************************************************************)
(* The packages on npm.  What the release script guarantees for every list *)
(* of packages that names dependencies before dependents, whatever fails   *)
(* and wherever a command stops: what is on npm can be installed, and      *)
(* nothing is there that a gate refuses.                                   *)
(***************************************************************************)

\* Where the publish command is: at its n-th step.
Publishes(n) ==
    /\ Len(run.todo) = 8 - n
    /\ \A i \in 1..(8 - n) : run.todo[i] = Plan["publish"][n + i - 1]

\* What the steps of the publish command leave behind for those that follow.
Loaded == /\ run.loaded \in [Packages -> Versions]
          /\ \A p, q \in Packages : run.loaded[p] = run.loaded[q]
Built(p) == /\ dist[p] \in {source, "good"}
            /\ dist[p] = "shebang" => p = Cli
Gated(p) == /\ dist[p] \in {"good", "shebang"}
            /\ dist[p] = "shebang" => p = Cli
OnNpm(p) == npm[p][run.loaded[p]] # Nothing

Reached(n) ==
    /\ n > 1 => Loaded
    /\ n > 3 => source # "tests"
    /\ n = 4 => \A i \in 1..(run.at - 1) : Built(Order[i])
    /\ n > 4 => \A p \in Packages : Built(p)
    /\ n = 6 => \A i \in 1..(run.at - 1) : Gated(Order[i])
    /\ n > 6 => \A p \in Packages : Gated(p)
    /\ n = 7 => \A i \in 1..(run.at - 1) : OnNpm(Order[i])

\* No other command publishes, and one that sets versions knows which.
OtherCommand ==
    \A i \in DOMAIN run.todo : /\ run.todo[i] # "publish"
                               /\ run.todo[i] = "set" => run.target \in Versions

OrderlyRun ==
    run # Nothing =>
        \/ OtherCommand
        \/ \E n \in 1..7 : Publishes(n) /\ Reached(n)

\* npm shows only what it has.
VisibleIsThere ==
    \A p \in Packages, v \in Versions : <<p, v>> \in visible => npm[p][v] # Nothing

\* A package pins the version it was published as, and its dependencies were
\* there before it.
Pinned ==
    \A p \in Packages, v \in Versions :
        npm[p][v] # Nothing => /\ npm[p][v].pin = v
                            /\ \A d \in Deps[p] : npm[d][v] # Nothing

ReleaseInv ==
    /\ ReleaseTypeOK
    /\ OrderlyRun
    /\ VisibleIsThere
    /\ Pinned
    /\ InvalidIsNotPublished

----------------------------------------------------------------------------
(* Sequences and plans.                                                    *)

LEMMA PackagesInOrder ==
    /\ Len(Order) \in Nat \ {0} /\ DOMAIN Order = 1..Len(Order)
    /\ \A i \in 1..Len(Order) : Order[i] \in Packages
    /\ \A p \in Packages : \E i \in 1..Len(Order) : p = Order[i]
  BY Shape DEF Packages

\* The first step of a command, and those that are left after it.
LEMMA Todo ==
    ASSUME NEW s \in Seq(Steps), s # <<>>
    PROVE  /\ Len(s) \in Nat \ {0} /\ Head(s) = s[1] /\ Head(s) \in Steps
           /\ Tail(s) \in Seq(Steps) /\ Len(Tail(s)) = Len(s) - 1
           /\ \A i \in 1..(Len(s) - 1) : Tail(s)[i] = s[i + 1]
           /\ Tail(s) = <<>> <=> Len(s) = 1
  <1>1. Len(s) \in Nat \ {0} /\ Head(s) = s[1] /\ Head(s) \in Steps
    OBVIOUS
  <1>2. /\ Tail(s) \in Seq(Steps) /\ Len(Tail(s)) = Len(s) - 1
        /\ \A i \in 1..(Len(s) - 1) : Tail(s)[i] = s[i + 1]
    OBVIOUS
  <1>3. Tail(s) = <<>> <=> Len(Tail(s)) = 0
    BY <1>2
  <1>4. QED
    BY <1>1, <1>2, <1>3

LEMMA Plans ==
    \A command \in DOMAIN Plan :
        /\ Plan[command] \in Seq(Steps) \ {<<>>}
        /\ command # "publish" =>
              \A i \in DOMAIN Plan[command] :
                  Plan[command][i] \notin {"publish", "set"}
  <1>1. DOMAIN Plan = {"sync_check", "verify", "prepare", "publish"}
    BY DEF Plan
  <1>2. /\ Plan["sync_check"] \in Seq(Steps) \ {<<>>}
        /\ \A i \in DOMAIN Plan["sync_check"] :
              Plan["sync_check"][i] \notin {"publish", "set"}
    BY DEF Plan, Steps
  <1>3. /\ Plan["verify"] \in Seq(Steps) \ {<<>>}
        /\ \A i \in DOMAIN Plan["verify"] :
              Plan["verify"][i] \notin {"publish", "set"}
    BY DEF Plan, Steps
  <1>4. /\ Plan["prepare"] \in Seq(Steps) \ {<<>>}
        /\ \A i \in DOMAIN Plan["prepare"] :
              Plan["prepare"][i] \notin {"publish", "set"}
    BY DEF Plan, Steps
  <1>5. Plan["publish"] \in Seq(Steps) \ {<<>>}
    BY DEF Plan, Steps
  <1>6. QED
    BY <1>1, <1>2, <1>3, <1>4, <1>5

LEMMA PublishPlan ==
    /\ Len(Plan["publish"]) = 7
    /\ Plan["publish"][1] = "load" /\ Plan["publish"][2] = "lock"
    /\ Plan["publish"][3] = "quality" /\ Plan["publish"][4] = "build"
    /\ Plan["publish"][5] = "load" /\ Plan["publish"][6] = "gate"
    /\ Plan["publish"][7] = "publish"
  BY DEF Plan

\* Where a command is after a step, or after a package of a step.
LEMMA Moves ==
    ASSUME ReleaseTypeOK, run # Nothing
    PROVE  /\ run \in Run /\ run.todo \in Seq(Steps) /\ run.todo # <<>>
           /\ run.at \in 1..Len(Order) /\ Current \in Packages
           /\ NextStep \in Run \cup {Nothing}
           /\ NextStep # Nothing => /\ NextStep.todo = Tail(run.todo)
                                 /\ NextStep.at = 1
                                 /\ NextStep.loaded = run.loaded
                                 /\ NextStep.target = run.target
           /\ NextPackage \in Run \cup {Nothing}
           /\ run.at = Len(Order) => NextPackage = NextStep
           /\ run.at # Len(Order) => /\ NextPackage # Nothing
                                     /\ NextPackage.todo = run.todo
                                     /\ NextPackage.at = run.at + 1
                                     /\ NextPackage.loaded = run.loaded
                                     /\ NextPackage.target = run.target
  <1>1. run \in Run
    BY DEF ReleaseTypeOK
  <1>2. /\ run.todo \in Seq(Steps) /\ run.todo # <<>>
        /\ run.at \in 1..Len(Order)
        /\ run.target \in Versions \cup {Nothing}
        /\ run.loaded \in [Packages -> Versions \cup {Nothing}]
    BY <1>1, PackagesInOrder DEF Run
  <1>3. Current \in Packages
    BY <1>2, PackagesInOrder DEF Current
  <1>4. /\ NextStep \in Run \cup {Nothing}
        /\ NextStep # Nothing => /\ NextStep.todo = Tail(run.todo)
                              /\ NextStep.at = 1
                              /\ NextStep.loaded = run.loaded
                              /\ NextStep.target = run.target
    <2>1. CASE Tail(run.todo) = <<>>
      BY <2>1 DEF NextStep
    <2>2. CASE Tail(run.todo) # <<>>
      <3>1. NextStep = [run EXCEPT !.todo = Tail(@), !.at = 1]
        BY <2>2 DEF NextStep
      <3>2. Tail(run.todo) \in Seq(Steps) \ {<<>>} /\ 1 \in DOMAIN Order
        BY <1>2, <2>2, Todo, PackagesInOrder
      <3>3. QED
        BY <1>1, <3>1, <3>2 DEF Run
    <2>3. QED
      BY <2>1, <2>2
  <1>5. CASE run.at = Len(Order)
    BY <1>1, <1>2, <1>3, <1>4, <1>5 DEF NextPackage
  <1>6. CASE run.at # Len(Order)
    <2>1. NextPackage = [run EXCEPT !.at = @ + 1]
      BY <1>6 DEF NextPackage
    <2>2. run.at + 1 \in DOMAIN Order
      BY <1>2, <1>6, PackagesInOrder
    <2>3. /\ NextPackage \in Run
          /\ NextPackage.todo = run.todo
          /\ NextPackage.at = run.at + 1
          /\ NextPackage.loaded = run.loaded
          /\ NextPackage.target = run.target
      BY <1>1, <2>1, <2>2 DEF Run
    <2>4. QED
      BY <1>1, <1>2, <1>3, <1>4, <1>6, <2>3, Shape
  <1>7. QED
    BY <1>5, <1>6

\* A command that does not publish never comes to publish.
LEMMA OtherRun ==
    ASSUME ReleaseTypeOK, run # Nothing, OtherCommand,
           run' # Nothing => /\ run'.todo \in {run.todo, Tail(run.todo)}
                          /\ run'.target = run.target
    PROVE  OrderlyRun'
  <1>1. run.todo \in Seq(Steps) /\ run.todo # <<>>
    BY Moves
  <1>2. \A i \in DOMAIN Tail(run.todo) :
            \E j \in DOMAIN run.todo : Tail(run.todo)[i] = run.todo[j]
    BY <1>1, Todo
  <1>3. QED
    BY <1>2 DEF OrderlyRun, OtherCommand

\* The publish command goes from one of its steps to the next.
LEMMA NextOfPublish ==
    ASSUME ReleaseTypeOK, run # Nothing, NEW n \in 1..7, Publishes(n),
           run' \in Run, run'.todo = Tail(run.todo)
    PROVE  n + 1 \in 1..7 /\ Publishes(n + 1)'
  <1>1. run.todo \in Seq(Steps) /\ run.todo # <<>>
    BY Moves
  <1>2. /\ Len(run'.todo) = 8 - (n + 1)
        /\ \A i \in 1..(8 - (n + 1)) : run'.todo[i] = run.todo[i + 1]
    BY <1>1, Todo DEF Publishes
  <1>3. n + 1 \in 1..7
    <2>1. run'.todo \in Seq(Steps) /\ run'.todo # <<>>
      BY DEF Run
    <2>2. QED
      BY <1>2, <2>1, Todo
  <1>4. \A i \in 1..(8 - (n + 1)) : run'.todo[i] = Plan["publish"][(n + 1) + i - 1]
    BY <1>2 DEF Publishes
  <1>5. QED
    BY <1>2, <1>3, <1>4 DEF Publishes

\* The step the publish command is at tells how far it came.
LEMMA StepOfPublish ==
    ASSUME ReleaseTypeOK, NEW step, At(step), NEW n \in 1..7, Publishes(n)
    PROVE  step = Plan["publish"][n]
  <1>1. run.todo \in Seq(Steps) /\ run.todo # <<>>
    BY Moves DEF At
  <1>2. Len(run.todo) \in Nat \ {0} /\ step = run.todo[1]
    BY <1>1, Todo DEF At
  <1>3. QED
    BY <1>2 DEF Publishes

----------------------------------------------------------------------------
(* The invariant.                                                          *)

LEMMA ReleaseInitInv == ReleaseInit => ReleaseInv
  <1> SUFFICES ASSUME ReleaseInit PROVE ReleaseInv
    OBVIOUS
  <1>1. ReleaseTypeOK
    BY Shape DEF ReleaseInit, ReleaseTypeOK, Contents
  <1>2. OrderlyRun /\ VisibleIsThere
    BY DEF ReleaseInit, OrderlyRun, VisibleIsThere
  <1>3. \A p \in Packages, v \in Versions : npm[p][v] = Nothing
    BY DEF ReleaseInit
  <1>4. QED
    BY <1>1, <1>2, <1>3 DEF ReleaseInv, Pinned, InvalidIsNotPublished

\* A command that ends, in whatever way, leaves everything as it is.
LEMMA RunEndsInv ==
    ASSUME ReleaseInv, run' = Nothing, failures' \in 0..MaxFailures,
           UNCHANGED <<tree, npm, visible>>
    PROVE  ReleaseInv'
  BY DEF ReleaseInv, tree, ReleaseTypeOK, OrderlyRun, VisibleIsThere, Pinned,
         InvalidIsNotPublished

\* A step that only goes on to the next one.
LEMMA StepInv ==
    ASSUME ReleaseInv, run # Nothing, run' \in Run \cup {Nothing},
           run' # Nothing => run'.todo = Tail(run.todo) /\ run'.target = run.target,
           UNCHANGED <<tree, npm, visible, failures>>,
           \A n \in 1..7 : Publishes(n) /\ Reached(n) /\ run' # Nothing =>
              Reached(n + 1)'
    PROVE  ReleaseInv'
  <1>1. ReleaseTypeOK' /\ VisibleIsThere' /\ Pinned' /\ InvalidIsNotPublished'
    BY DEF ReleaseInv, tree, ReleaseTypeOK, VisibleIsThere, Pinned, InvalidIsNotPublished
  <1>2. CASE run' = Nothing
    BY <1>1, <1>2 DEF ReleaseInv, OrderlyRun
  <1>3. CASE run' # Nothing /\ OtherCommand
    BY <1>1, <1>3, OtherRun DEF ReleaseInv
  <1>4. CASE run' # Nothing /\ \E n \in 1..7 : Publishes(n) /\ Reached(n)
    <2>1. PICK n \in 1..7 : Publishes(n) /\ Reached(n)
      BY <1>4
    <2>2. n + 1 \in 1..7 /\ Publishes(n + 1)' /\ Reached(n + 1)'
      BY <1>4, <2>1, NextOfPublish DEF ReleaseInv
    <2>3. QED
      BY <1>1, <2>2 DEF ReleaseInv, OrderlyRun
  <1>5. QED
    BY <1>2, <1>3, <1>4 DEF ReleaseInv, OrderlyRun

LEMMA LoadInv == ReleaseInv /\ Load => ReleaseInv'
  <1> SUFFICES ASSUME ReleaseInv, Load PROVE ReleaseInv'
    OBVIOUS
  <1>1. run # Nothing /\ ReleaseTypeOK
    BY DEF Load, At, ReleaseInv
  <1>2. CASE NextStep = Nothing
    BY <1>1, <1>2, RunEndsInv DEF Load, ReleaseTypeOK
  <1>3. CASE NextStep # Nothing
    <2>1. /\ NextStep \in Run /\ NextStep.todo = Tail(run.todo)
          /\ NextStep.at = 1 /\ NextStep.target = run.target
      BY <1>1, <1>3, Moves
    <2>2. /\ run' \in Run /\ run'.todo = Tail(run.todo) /\ run'.at = 1
          /\ run'.loaded = version /\ run'.target = run.target
      BY <1>1, <1>3, <2>1 DEF Load, ReleaseTypeOK, Run
    <2>3. ASSUME NEW n \in 1..7, Publishes(n), Reached(n)
          PROVE  Reached(n + 1)'
      <3>1. n \in {1, 5}
        BY <1>1, <2>3, StepOfPublish, PublishPlan DEF Load
      <3>2. Loaded'
        BY <1>1, <2>2 DEF Load, Loaded, Synced, ReleaseTypeOK
      <3>3. QED
        BY <2>2, <2>3, <3>1, <3>2 DEF Load, tree, Reached, Built
    <2>4. QED
      BY <1>1, <2>2, <2>3, StepInv DEF Load
  <1>4. QED
    BY <1>2, <1>3

LEMMA LockInv == ReleaseInv /\ CheckLock => ReleaseInv'
  <1> SUFFICES ASSUME ReleaseInv, CheckLock PROVE ReleaseInv'
    OBVIOUS
  <1>1. run # Nothing /\ ReleaseTypeOK /\ run' = NextStep
    BY DEF CheckLock, At, ReleaseInv
  <1>2. ASSUME NEW n \in 1..7, Publishes(n), Reached(n), run' # Nothing
        PROVE  Reached(n + 1)'
    <2>1. n = 2
      BY <1>1, <1>2, StepOfPublish, PublishPlan DEF CheckLock
    <2>2. Loaded'
      BY <1>1, <1>2, <2>1, Moves DEF Reached, Loaded
    <2>3. QED
      BY <2>1, <2>2 DEF Reached
  <1>3. QED
    BY <1>1, <1>2, Moves, StepInv DEF CheckLock

LEMMA QualityInv == ReleaseInv /\ QualityGates => ReleaseInv'
  <1> SUFFICES ASSUME ReleaseInv, QualityGates PROVE ReleaseInv'
    OBVIOUS
  <1>1. run # Nothing /\ ReleaseTypeOK /\ run' = NextStep
    BY DEF QualityGates, At, ReleaseInv
  <1>2. ASSUME NEW n \in 1..7, Publishes(n), Reached(n), run' # Nothing
        PROVE  Reached(n + 1)'
    <2>1. n = 3
      BY <1>1, <1>2, StepOfPublish, PublishPlan DEF QualityGates
    <2>2. Loaded'
      BY <1>1, <1>2, <2>1, Moves DEF Reached, Loaded
    <2>3. source' # "tests" /\ run'.at = 1
      BY <1>1, <1>2, Moves DEF QualityGates, tree
    <2>4. QED
      BY <2>1, <2>2, <2>3 DEF Reached
  <1>3. QED
    BY <1>1, <1>2, Moves, StepInv DEF QualityGates

\* A step that goes through the packages: it is left for the next package, or
\* for the next step.
LEMMA PackageInv ==
    ASSUME ReleaseInv, run # Nothing, run' = NextPackage,
           ReleaseTypeOK', VisibleIsThere', Pinned', InvalidIsNotPublished',
           \A n \in 1..7 : Publishes(n) /\ Reached(n) /\ run' # Nothing =>
              /\ run.at = Len(Order) => Reached(n + 1)'
              /\ run.at # Len(Order) => Reached(n)'
    PROVE  ReleaseInv'
  <1>1. CASE run' = Nothing
    BY <1>1 DEF ReleaseInv, OrderlyRun
  <1>2. CASE run' # Nothing /\ OtherCommand
    <2>1. /\ run'.todo \in {run.todo, Tail(run.todo)}
          /\ run'.target = run.target
      BY <1>2, Moves DEF ReleaseInv
    <2>2. QED
      BY <1>2, <2>1, OtherRun DEF ReleaseInv
  <1>3. CASE run' # Nothing /\ \E n \in 1..7 : Publishes(n) /\ Reached(n)
    <2>1. PICK n \in 1..7 : Publishes(n) /\ Reached(n)
      BY <1>3
    <2>2. CASE run.at = Len(Order)
      <3>1. run' \in Run /\ run'.todo = Tail(run.todo)
        BY <1>3, <2>2, Moves DEF ReleaseInv
      <3>2. n + 1 \in 1..7 /\ Publishes(n + 1)'
        BY <2>1, <3>1, NextOfPublish DEF ReleaseInv
      <3>3. Reached(n + 1)'
        BY <1>3, <2>1, <2>2
      <3>4. QED
        BY <3>2, <3>3 DEF ReleaseInv, OrderlyRun
    <2>3. CASE run.at # Len(Order)
      <3>1. run'.todo = run.todo
        BY <2>3, Moves DEF ReleaseInv
      <3>2. Publishes(n)'
        BY <2>1, <3>1 DEF Publishes
      <3>3. Reached(n)'
        BY <1>3, <2>1, <2>3
      <3>4. QED
        BY <3>2, <3>3 DEF ReleaseInv, OrderlyRun
    <2>4. QED
      BY <2>2, <2>3
  <1>4. QED
    BY <1>1, <1>2, <1>3 DEF ReleaseInv, OrderlyRun

LEMMA SetInv == ReleaseInv /\ SetVersion => ReleaseInv'
  <1> SUFFICES ASSUME ReleaseInv, SetVersion PROVE ReleaseInv'
    OBVIOUS
  <1>1. run # Nothing /\ ReleaseTypeOK /\ run' = NextPackage
    BY DEF SetVersion, At, ReleaseInv
  <1>2. ASSUME NEW n \in 1..7, Publishes(n) PROVE FALSE
    BY <1>1, <1>2, StepOfPublish, PublishPlan DEF SetVersion
  <1>3. OtherCommand
    BY <1>1, <1>2 DEF ReleaseInv, OrderlyRun
  <1>4. run.target \in Versions
    <2>1. run.todo \in Seq(Steps) /\ run.todo # <<>> /\ Head(run.todo) = "set"
      BY <1>1, Moves DEF SetVersion, At
    <2>2. 1 \in DOMAIN run.todo /\ run.todo[1] = "set"
      BY <2>1, Todo
    <2>3. QED
      BY <1>3, <2>2 DEF OtherCommand
  <1>5. ReleaseTypeOK'
    BY <1>1, <1>4, Moves DEF SetVersion, ReleaseTypeOK
  <1>6. VisibleIsThere' /\ Pinned' /\ InvalidIsNotPublished'
    BY DEF SetVersion, ReleaseInv, VisibleIsThere, Pinned, InvalidIsNotPublished
  <1>7. QED
    BY <1>1, <1>2, <1>5, <1>6, PackageInv

LEMMA InstallInv == ReleaseInv /\ Install => ReleaseInv'
  <1> SUFFICES ASSUME ReleaseInv, Install PROVE ReleaseInv'
    OBVIOUS
  <1>1. run # Nothing /\ ReleaseTypeOK /\ run' = NextStep
    BY DEF Install, At, ReleaseInv
  <1>2. ASSUME NEW n \in 1..7, Publishes(n) PROVE FALSE
    BY <1>1, <1>2, StepOfPublish, PublishPlan DEF Install
  <1>3. OtherCommand
    BY <1>1, <1>2 DEF ReleaseInv, OrderlyRun
  <1>4. OrderlyRun'
    BY <1>1, <1>3, Moves, OtherRun
  <1>5. ReleaseTypeOK'
    BY <1>1, Moves DEF Install, ReleaseTypeOK
  <1>6. VisibleIsThere' /\ Pinned' /\ InvalidIsNotPublished'
    BY DEF Install, ReleaseInv, VisibleIsThere, Pinned, InvalidIsNotPublished
  <1>7. QED
    BY <1>4, <1>5, <1>6 DEF ReleaseInv

LEMMA BuildInv == ReleaseInv /\ BuildPackage => ReleaseInv'
  <1> SUFFICES ASSUME ReleaseInv, BuildPackage PROVE ReleaseInv'
    OBVIOUS
  <1>1. /\ run # Nothing /\ ReleaseTypeOK /\ run' = NextPackage /\ Current \in Packages
        /\ run.at \in 1..Len(Order)
    BY Moves DEF BuildPackage, At, ReleaseInv
  <1> PICK c \in Packages : c = Current
    BY <1>1
  <1>2. /\ dist'[c] = IF source = "shebang" /\ c # Cli THEN "good" ELSE source
        /\ \A p \in Packages \ {c} : dist'[p] = dist[p]
        /\ dist' \in [Packages -> Contents \cup {Nothing}]
    BY <1>1 DEF BuildPackage, ReleaseTypeOK, Contents
  <1>3. ReleaseTypeOK'
    BY <1>1, <1>2, Moves DEF BuildPackage, ReleaseTypeOK
  <1>4. VisibleIsThere' /\ Pinned' /\ InvalidIsNotPublished'
    BY DEF BuildPackage, ReleaseInv, VisibleIsThere, Pinned, InvalidIsNotPublished
  <1>5. Built(c)' /\ \A p \in Packages \ {c} : Built(p) => Built(p)'
    BY <1>2 DEF BuildPackage, Built
  <1>6. ASSUME NEW n \in 1..7, Publishes(n), Reached(n), run' # Nothing
        PROVE  /\ run.at = Len(Order) => Reached(n + 1)'
               /\ run.at # Len(Order) => Reached(n)'
    <2>1. n = 4
      BY <1>1, <1>6, StepOfPublish, PublishPlan DEF BuildPackage
    <2>2. Loaded' /\ source' # "tests"
      BY <1>1, <1>6, <2>1, Moves DEF BuildPackage, Reached, Loaded
    <2>3. \A i \in 1..run.at : Built(Order[i])'
      <3>1. \A i \in 1..run.at : Order[i] \in Packages
        BY <1>1, PackagesInOrder
      <3>2. \A i \in 1..(run.at - 1) : Built(Order[i])
        BY <1>6, <2>1 DEF Reached
      <3>3. \A i \in 1..run.at : i \in 1..(run.at - 1) \/ Order[i] = c
        BY <1>1, PackagesInOrder DEF Current
      <3>4. QED
        BY <1>5, <3>1, <3>2, <3>3
    <2>4. CASE run.at = Len(Order)
      <3>1. \A p \in Packages : Built(p)'
        BY <2>3, <2>4, PackagesInOrder
      <3>2. QED
        BY <2>1, <2>2, <2>4, <3>1 DEF Reached
    <2>5. CASE run.at # Len(Order)
      <3>1. run'.at - 1 = run.at
        BY <1>1, <2>5, Moves
      <3>2. QED
        BY <2>1, <2>2, <2>3, <2>5, <3>1 DEF Reached
    <2>6. QED
      BY <2>4, <2>5
  <1>7. QED
    BY <1>1, <1>3, <1>4, <1>6, PackageInv

LEMMA GateInv == ReleaseInv /\ Gate => ReleaseInv'
  <1> SUFFICES ASSUME ReleaseInv, Gate PROVE ReleaseInv'
    OBVIOUS
  <1>1. /\ run # Nothing /\ ReleaseTypeOK /\ run' = NextPackage /\ Current \in Packages
        /\ run.at \in 1..Len(Order)
    BY Moves DEF Gate, At, ReleaseInv
  <1> PICK c \in Packages : c = Current
    BY <1>1
  <1>2. /\ dist[c] \notin {Nothing, "dist", "packed"} /\ source # "source"
        /\ dist'[c] = IF c = Cli /\ dist[c] = "shebang" THEN "good" ELSE dist[c]
        /\ \A p \in Packages \ {c} : dist'[p] = dist[p]
        /\ dist' \in [Packages -> Contents \cup {Nothing}]
        /\ dist[c] \in Contents
    BY <1>1 DEF Gate, SourceOk, DistOk, PackedOk, WithNode, ReleaseTypeOK, Contents
  <1>3. ReleaseTypeOK'
    BY <1>1, <1>2, Moves DEF Gate, ReleaseTypeOK
  <1>4. VisibleIsThere' /\ Pinned' /\ InvalidIsNotPublished'
    BY DEF Gate, ReleaseInv, VisibleIsThere, Pinned, InvalidIsNotPublished
  <1>5. \A p \in Packages : /\ Built(p) => Built(p)'
                            /\ Gated(p) => Gated(p)'
    BY <1>2 DEF Gate, Built, Gated
  <1>6. source # "tests" /\ Built(c) => Gated(c)'
    BY <1>2, Shape DEF Built, Gated, Contents
  <1>7. ASSUME NEW n \in 1..7, Publishes(n), Reached(n), run' # Nothing
        PROVE  /\ run.at = Len(Order) => Reached(n + 1)'
               /\ run.at # Len(Order) => Reached(n)'
    <2>1. n = 6
      BY <1>1, <1>7, StepOfPublish, PublishPlan DEF Gate
    <2>2. /\ Loaded' /\ source # "tests" /\ source' # "tests"
          /\ \A p \in Packages : Built(p) /\ Built(p)'
      <3>1. Loaded /\ source # "tests" /\ \A p \in Packages : Built(p)
        BY <1>7, <2>1 DEF Reached
      <3>2. run'.loaded = run.loaded
        BY <1>1, <1>7, Moves
      <3>3. Loaded'
        BY <3>1, <3>2 DEF Loaded
      <3>4. source' = source
        BY DEF Gate
      <3>5. QED
        BY <1>5, <3>1, <3>3, <3>4
    <2>3. \A i \in 1..run.at : Gated(Order[i])'
      <3>1. \A i \in 1..run.at : Order[i] \in Packages
        BY <1>1, PackagesInOrder
      <3>2. \A i \in 1..(run.at - 1) : Gated(Order[i])
        BY <1>7, <2>1 DEF Reached
      <3>3. \A i \in 1..run.at : i \in 1..(run.at - 1) \/ Order[i] = c
        BY <1>1, PackagesInOrder DEF Current
      <3>4. QED
        BY <1>5, <1>6, <2>2, <3>1, <3>2, <3>3
    <2>4. CASE run.at = Len(Order)
      <3>1. \A p \in Packages : Gated(p)'
        BY <2>3, <2>4, PackagesInOrder
      <3>2. run'.at = 1
        BY <1>1, <1>7, <2>4, Moves
      <3>3. QED
        BY <2>1, <2>2, <2>4, <3>1, <3>2 DEF Reached
    <2>5. CASE run.at # Len(Order)
      <3>1. run'.at - 1 = run.at
        BY <1>1, <2>5, Moves
      <3>2. QED
        BY <2>1, <2>2, <2>3, <2>5, <3>1 DEF Reached
    <2>6. QED
      BY <2>4, <2>5
  <1>8. QED
    BY <1>1, <1>3, <1>4, <1>7, PackageInv

\* What the publish step knows when it is at a package.
LEMMA AtPublish ==
    ASSUME ReleaseInv, At("publish")
    PROVE  /\ Publishes(7) /\ Reached(7)
           /\ Current \in Packages /\ run.loaded[Current] \in Versions
  <1>1. run # Nothing /\ ReleaseTypeOK
    BY DEF At, ReleaseInv
  <1>2. run.todo \in Seq(Steps) /\ run.todo # <<>> /\ run.todo[1] = "publish"
    BY <1>1, Moves, Todo DEF At
  <1>3. ~OtherCommand
    <2>1. 1 \in DOMAIN run.todo
      BY <1>2, Todo
    <2>2. OtherCommand => run.todo[1] # "publish"
      BY <2>1, Zenon DEF OtherCommand
    <2>3. QED
      BY <1>2, <2>2
  <1>4. PICK n \in 1..7 : Publishes(n) /\ Reached(n)
    BY <1>1, <1>3 DEF ReleaseInv, OrderlyRun
  <1>5. n = 7
    BY <1>1, <1>4, StepOfPublish, PublishPlan
  <1>6. Loaded
    BY <1>4, <1>5 DEF Reached
  <1>7. QED
    BY <1>1, <1>4, <1>5, <1>6, Moves DEF Loaded

\* The publish command goes on once the package it is at is on npm.
LEMMA Onward ==
    ASSUME ReleaseInv, At("publish"), run' = NextPackage, NEW n \in 1..7, Publishes(n),
           run' # Nothing, source' = source,
           \A p \in Packages : (Built(p) => Built(p)') /\ (Gated(p) => Gated(p)'),
           \A p \in Packages, v \in Versions : npm[p][v] # Nothing => npm'[p][v] # Nothing,
           npm'[Current][run.loaded[Current]] # Nothing
    PROVE  /\ run.at = Len(Order) => Reached(n + 1)'
           /\ run.at # Len(Order) => Reached(n)'
  <1>1. /\ n = 7 /\ run # Nothing /\ ReleaseTypeOK /\ run.at \in 1..Len(Order)
        /\ Reached(7)
    BY AtPublish, StepOfPublish, PublishPlan, Moves DEF At, ReleaseInv
  <1>2. run.at # Len(Order)
    <2>1. SUFFICES ASSUME run.at = Len(Order) PROVE FALSE
      OBVIOUS
    <2>2. run' \in Run /\ run'.todo = Tail(run.todo)
      BY <1>1, <2>1, Moves
    <2>3. QED
      BY <1>1, <2>2, NextOfPublish
  <1>3. run'.at = run.at + 1 /\ run'.loaded = run.loaded
    BY <1>1, <1>2, Moves
  <1>4. Loaded' /\ source' # "tests"
    BY <1>1, <1>3 DEF Reached, Loaded
  <1>5. \A p \in Packages : Built(p)' /\ Gated(p)'
    BY <1>1 DEF Reached
  <1>6. \A i \in 1..run.at : OnNpm(Order[i])'
    <2>1. \A i \in 1..run.at : Order[i] \in Packages /\ run.loaded[Order[i]] \in Versions
      BY <1>1, PackagesInOrder DEF Reached, Loaded
    <2>2. \A i \in 1..(run.at - 1) : OnNpm(Order[i])
      BY <1>1 DEF Reached
    <2>3. \A i \in 1..run.at : i \in 1..(run.at - 1) \/ Order[i] = Current
      BY <1>1, PackagesInOrder DEF Current
    <2>4. QED
      BY <1>3, <2>1, <2>2, <2>3 DEF OnNpm
  <1>7. QED
    BY <1>1, <1>2, <1>3, <1>4, <1>5, <1>6 DEF Reached

LEMMA SkipInv == ReleaseInv /\ SkipPublished => ReleaseInv'
  <1> SUFFICES ASSUME ReleaseInv, SkipPublished PROVE ReleaseInv'
    OBVIOUS
  <1>1. /\ run # Nothing /\ ReleaseTypeOK /\ run' = NextPackage /\ At("publish")
        /\ UNCHANGED <<source, dist, npm>>
    BY DEF SkipPublished, At, ReleaseInv, tree
  <1>2. ReleaseTypeOK'
    BY <1>1, Moves DEF SkipPublished, tree, ReleaseTypeOK
  <1>3. VisibleIsThere' /\ Pinned' /\ InvalidIsNotPublished'
    BY DEF SkipPublished, ReleaseInv, VisibleIsThere, Pinned, InvalidIsNotPublished
  <1>4. npm[Current][run.loaded[Current]] # Nothing
    BY <1>1, AtPublish DEF SkipPublished, NextToPublish, IsPublished, ReleaseInv,
       VisibleIsThere
  <1>5. \A p \in Packages : (Built(p) => Built(p)') /\ (Gated(p) => Gated(p)')
    BY <1>1 DEF Built, Gated
  <1>6. ASSUME NEW n \in 1..7, Publishes(n), Reached(n), run' # Nothing
        PROVE  /\ run.at = Len(Order) => Reached(n + 1)'
               /\ run.at # Len(Order) => Reached(n)'
    BY <1>1, <1>4, <1>5, <1>6, Onward
  <1>7. QED
    BY <1>1, <1>2, <1>3, <1>6, PackageInv

LEMMA PublishInv ==
    ASSUME ReleaseInv, NEW answered \in BOOLEAN, Publish(answered)
    PROVE  ReleaseInv'
  <1>1. /\ run # Nothing /\ ReleaseTypeOK /\ At("publish")
        /\ Publishes(7) /\ Reached(7)
    BY AtPublish DEF Publish, At, ReleaseInv
  <1>2. PICK p \in Packages, v \in Versions : p = Current /\ v = run.loaded[p]
    BY <1>1, AtPublish
  <1>3. /\ npm[p][v] = Nothing
        /\ npm' = [npm EXCEPT ![p][v] = Staged(p)]
        /\ dist' = [dist EXCEPT ![p] = WithNode(p)]
        /\ answered \/ failures < MaxFailures
        /\ run' = IF answered THEN NextPackage ELSE Nothing
        /\ failures' = IF answered THEN failures ELSE failures + 1
        /\ UNCHANGED <<version, lockfile, source, visible>>
    BY <1>2 DEF Publish, NextToPublish
  <1>4. /\ Gated(p) /\ Loaded
        /\ WithNode(p) = "good" /\ Staged(p) = [content |-> "good", pin |-> v]
    BY <1>1, <1>2 DEF Reached, Gated, WithNode, Staged
  <1>5. /\ Staged(p) \in Published /\ Staged(p) # Nothing
        /\ Staged(p).pin = v /\ Staged(p).content = "good"
    BY <1>4, Shape DEF Published, Contents
  <1>6. /\ npm' \in [Packages -> [Versions -> Published \cup {Nothing}]]
        /\ npm'[p][v] = Staged(p)
        /\ \A q \in Packages, w \in Versions :
              q # p \/ w # v => npm'[q][w] = npm[q][w]
    BY <1>1, <1>3, <1>5, Zenon DEF ReleaseTypeOK
  <1>7. /\ dist'[p] = "good" /\ \A q \in Packages \ {p} : dist'[q] = dist[q]
        /\ dist' \in [Packages -> Contents \cup {Nothing}]
    BY <1>1, <1>3, <1>4 DEF ReleaseTypeOK, Contents
  <1>8. ReleaseTypeOK'
    <2>1. run' = Nothing \/ run' \in Run
      BY <1>1, <1>3, Moves
    <2>2. failures' \in 0..MaxFailures
      BY <1>1, <1>3, Shape DEF ReleaseTypeOK
    <2>3. QED
      BY <1>1, <1>3, <1>6, <1>7, <2>1, <2>2 DEF ReleaseTypeOK
  <1>9. \A q \in Packages, w \in Versions : npm[q][w] # Nothing => npm'[q][w] # Nothing
    BY <1>3, <1>6
  <1>10. VisibleIsThere'
    BY <1>3, <1>9 DEF ReleaseInv, VisibleIsThere
  <1>11. InvalidIsNotPublished'
    BY <1>5, <1>6 DEF ReleaseInv, InvalidIsNotPublished
  <1>12. Pinned'
    <2>1. ASSUME NEW q \in Packages, NEW w \in Versions, npm'[q][w] # Nothing
          PROVE  npm'[q][w].pin = w /\ \A d \in Deps[q] : npm'[d][w] # Nothing
      <3>1. Deps[q] \subseteq Packages
        BY Shape
      <3>2. CASE q = p /\ w = v
        <4>1. ASSUME NEW d \in Deps[p] PROVE npm[d][v] # Nothing
          <5>1. p = Order[run.at] /\ run.at \in 1..Len(Order)
            BY <1>1, <1>2, Moves DEF Current
          <5>2. PICK i \in 1..(run.at - 1) : d = Order[i]
            BY <4>1, <5>1, PackagesInOrder, DependenciesFirst
          <5>3. npm[d][run.loaded[d]] # Nothing
            BY <1>1, <5>2 DEF Reached, OnNpm
          <5>4. d \in Packages /\ run.loaded[d] = v
            BY <1>2, <1>4, <3>1, <3>2 DEF Loaded
          <5>5. QED
            BY <5>3, <5>4
        <4>2. QED
          BY <1>5, <1>6, <1>9, <3>1, <3>2, <4>1
      <3>3. CASE q # p \/ w # v
        BY <1>6, <1>9, <2>1, <3>1, <3>3 DEF ReleaseInv, Pinned
      <3>4. QED
        BY <3>2, <3>3
    <2>2. QED
      BY <2>1 DEF Pinned
  <1>13. CASE answered
    <2>1. \A q \in Packages : (Built(q) => Built(q)') /\ (Gated(q) => Gated(q)')
      BY <1>3, <1>7 DEF Built, Gated
    <2>2. ASSUME NEW n \in 1..7, Publishes(n), Reached(n), run' # Nothing
          PROVE  /\ run.at = Len(Order) => Reached(n + 1)'
                 /\ run.at # Len(Order) => Reached(n)'
      BY <1>1, <1>2, <1>3, <1>5, <1>6, <1>9, <1>13, <2>1, <2>2, Onward
    <2>3. QED
      BY <1>1, <1>3, <1>8, <1>10, <1>11, <1>12, <1>13, <2>2, PackageInv
  <1>14. CASE ~answered
    BY <1>3, <1>8, <1>10, <1>11, <1>12, <1>14 DEF ReleaseInv, OrderlyRun
  <1>15. QED
    BY <1>13, <1>14

LEMMA StartInv ==
    ASSUME ReleaseInv, NEW command \in DOMAIN Plan, Start(command)
    PROVE  ReleaseInv'
  <1>1. run' = [todo |-> Plan[command], at |-> 1, target |-> Nothing,
                loaded |-> [p \in Packages |-> Nothing]]
    BY DEF Start
  <1>2. run' \in Run
    BY <1>1, Plans, PackagesInOrder DEF Run
  <1>3. ReleaseTypeOK' /\ VisibleIsThere' /\ Pinned' /\ InvalidIsNotPublished'
    BY <1>2 DEF Start, tree, ReleaseInv, ReleaseTypeOK, VisibleIsThere, Pinned,
                InvalidIsNotPublished
  <1>4. OrderlyRun'
    <2>1. CASE command = "publish"
      <3>1. Publishes(1)'
        BY <1>1, <2>1, PublishPlan DEF Publishes
      <3>2. Reached(1)'
        BY DEF Reached
      <3>3. QED
        BY <3>1, <3>2 DEF OrderlyRun
    <2>2. CASE command # "publish"
      BY <1>1, <2>2, Plans DEF OrderlyRun, OtherCommand
    <2>3. QED
      BY <2>1, <2>2
  <1>5. QED
    BY <1>3, <1>4 DEF ReleaseInv

LEMMA StartVersionInv ==
    ASSUME ReleaseInv, NEW v \in Versions, StartVersion(v)
    PROVE  ReleaseInv'
  <1>1. run' = [todo |-> <<"set", "install">>, at |-> 1, target |-> v,
                loaded |-> [p \in Packages |-> Nothing]]
    BY DEF StartVersion
  <1>2. /\ <<"set", "install">> \in Seq(Steps) \ {<<>>}
        /\ \A i \in DOMAIN <<"set", "install">> : <<"set", "install">>[i] # "publish"
    BY DEF Steps
  <1>3. run' \in Run
    BY <1>1, <1>2, PackagesInOrder DEF Run
  <1>4. ReleaseTypeOK' /\ VisibleIsThere' /\ Pinned' /\ InvalidIsNotPublished'
    BY <1>3 DEF StartVersion, tree, ReleaseInv, ReleaseTypeOK, VisibleIsThere, Pinned,
                InvalidIsNotPublished
  <1>5. OrderlyRun'
    BY <1>1, <1>2 DEF OrderlyRun, OtherCommand
  <1>6. QED
    BY <1>4, <1>5 DEF ReleaseInv

LEMMA AppearInv ==
    ASSUME ReleaseInv, NEW p \in Packages, NEW v \in Versions, Appear(p, v)
    PROVE  ReleaseInv'
  <1>1. /\ visible' = visible \cup {<<p, v>>} /\ npm[p][v] # Nothing
        /\ UNCHANGED <<version, lockfile, source, dist, npm, run, failures>>
    BY DEF Appear, tree
  <1>2. OrderlyRun'
    BY <1>1 DEF ReleaseInv, OrderlyRun, OtherCommand, Publishes, Reached, Loaded, Built,
                Gated, OnNpm
  <1>3. QED
    BY <1>1, <1>2 DEF ReleaseInv, ReleaseTypeOK, VisibleIsThere, Pinned, InvalidIsNotPublished

LEMMA ReleaseNextInv == ReleaseInv /\ [ReleaseNext]_releaseVars => ReleaseInv'
  <1> SUFFICES ASSUME ReleaseInv, [ReleaseNext]_releaseVars PROVE ReleaseInv'
    OBVIOUS
  <1>1. CASE Succeeds
    BY <1>1, SetInv, InstallInv, LoadInv, LockInv, QualityInv, BuildInv, GateInv,
       SkipInv, PublishInv DEF Succeeds
  <1>2. CASE Publish(FALSE)
    BY <1>2, PublishInv
  <1>3. CASE Throw
    BY <1>3, RunEndsInv DEF Throw, ReleaseInv, ReleaseTypeOK
  <1>4. CASE Interrupt
    BY <1>4, RunEndsInv, Shape DEF Interrupt, ReleaseInv, ReleaseTypeOK
  <1>5. CASE Operator
    <2>1. CASE EditSource
      BY <2>1 DEF EditSource, ReleaseInv, ReleaseTypeOK, OrderlyRun, VisibleIsThere, Pinned,
                  InvalidIsNotPublished
    <2>2. QED
      BY <1>5, <2>1, StartInv, StartVersionInv DEF Operator
  <1>6. ASSUME NEW p \in Packages, NEW v \in Versions, Appear(p, v)
        PROVE  ReleaseInv'
    BY <1>6, AppearInv
  <1>7. CASE UNCHANGED releaseVars
    BY <1>7 DEF releaseVars, tree, ReleaseInv, ReleaseTypeOK, OrderlyRun, OtherCommand, Publishes,
                Reached, Loaded, Built, Gated, OnNpm, VisibleIsThere, Pinned,
                InvalidIsNotPublished
  <1>8. QED
    BY <1>1, <1>2, <1>3, <1>4, <1>5, <1>6, <1>7 DEF ReleaseNext

----------------------------------------------------------------------------
(* The theorems.                                                           *)

\* The inductive invariant holds in every state, whatever fails.
THEOREM ReleaseInvariance == ReleaseSpec => []ReleaseInv
  BY ReleaseInitInv, ReleaseNextInv, PTL DEF ReleaseSpec

\* Types are kept: no command sets a version it was not given, and none
\* publishes one it has not loaded.
THEOREM ReleaseTypeCorrectness == ReleaseSpec => []ReleaseTypeOK
  <1>1. ReleaseInv => ReleaseTypeOK
    BY DEF ReleaseInv
  <1>2. QED
    BY ReleaseInvariance, <1>1, PTL

\* Whatever is on npm can be installed: the versions it pins are there, also
\* when a release stopped half-way or another one took its place
\* (release.ts:43).
THEOREM PinsCanBeInstalled == ReleaseSpec => []PinsAreOnNpm
  <1>1. ReleaseInv => PinsAreOnNpm
    <2> SUFFICES ASSUME ReleaseInv, NEW p \in Packages, NEW v \in Versions,
                        npm[p][v] # Nothing, NEW d \in Deps[p]
                 PROVE  npm[d][npm[p][v].pin] # Nothing
      BY DEF PinsAreOnNpm
    <2> QED
      BY DEF ReleaseInv, Pinned
  <1>2. QED
    BY ReleaseInvariance, <1>1, PTL

\* Nothing is published that a gate refuses, nor a command line that Node
\* cannot run (release.ts:20-22).
THEOREM NothingInvalidIsPublished == ReleaseSpec => []InvalidIsNotPublished
  <1>1. ReleaseInv => InvalidIsNotPublished
    BY DEF ReleaseInv
  <1>2. QED
    BY ReleaseInvariance, <1>1, PTL

=============================================================================
