------------------------------ MODULE PageProofs ------------------------------
(***************************************************************************)
(* What is proved of the pages that are computed from rows others write:   *)
(* the summary of BetLedger, for any users, bets and bodies; the tables    *)
(* and the games' pages of LeagueTables, for any games and corrections;    *)
(* the price pages of PriceBoard, for any books and quotes.                *)
(***************************************************************************)
EXTENDS BetLedger, LeagueTables, PriceBoard, FiniteSetTheorems,
        WellFoundedInduction, TLAPS

(* A set of numbers has a least one.                                        *)
LEMMA LeastNumber ==
  ASSUME NEW T \in SUBSET Nat, T # {}
  PROVE  \E n \in T : \A m \in T : n <= m
<1> DEFINE R == OpToRel(<, Nat)
<1>1. \E n \in T : \A m \in T : <<m, n>> \notin R
  <2> HIDE DEF R
  <2>1. IsWellFoundedOn(R, Nat)
    BY NatLessThanWellFounded DEF R
  <2> QED BY <2>1, WFMin
<1>2. ASSUME NEW n \in Nat, NEW m \in Nat, m < n
      PROVE  <<m, n>> \in R
  BY <1>2 DEF OpToRel
<1> HIDE DEF R
<1>3. PICK n \in T : \A m \in T : <<m, n>> \notin R
  BY <1>1
<1>4. ASSUME NEW m \in T
      PROVE  n <= m
  <2>1. n \in Nat /\ m \in Nat /\ ~(m < n)
    BY <1>2, <1>3
  <2> QED BY <2>1
<1> QED BY <1>4
-----------------------------------------------------------------------------
(* Sums                                                                    *)

(* The pages add up amounts, goals and points. What such a sum is can be   *)
(* proved of it by what a least counterexample would be: the library's     *)
(* facts about well-founded orders are about sets, and a set of parts will *)
(* do.                                                                     *)

(* What holds of a set when it holds of the set with one element less holds *)
(* of every part of a finite set.                                           *)
LEMMA GrowsToAll ==
  ASSUME NEW S, IsFiniteSet(S), NEW P,
         \A A \in SUBSET S : (\A x \in A : A \ {x} \in P) => A \in P
  PROVE  SUBSET S \subseteq P
<1> SUFFICES ASSUME NEW B \in SUBSET S, B \notin P PROVE FALSE
  OBVIOUS
<1> DEFINE T == {A \in SUBSET S : A \notin P}  R == StrictSubsetOrdering(S)
<1>1. FiniteSubsetsOf(S) = SUBSET S
  BY FS_FiniteSubsetsOfFinite
<1>2. PICK A \in T : \A y \in T : <<y, A>> \notin R
  <2>1. IsWellFoundedOn(R, FiniteSubsetsOf(S))
    BY FS_StrictSubsetOrderingWellFounded
  <2>2. T # {} /\ T \subseteq SUBSET S
    OBVIOUS
  <2> HIDE DEF R, T
  <2> QED BY <1>1, <2>1, <2>2, WFMin
<1>3. ASSUME NEW x \in A PROVE A \ {x} \in P
  <2>1. A \ {x} \in SUBSET S /\ <<A \ {x}, A>> \in R
    BY <1>2, <1>3 DEF StrictSubsetOrdering
  <2> QED BY <1>2, <2>1
<1> QED BY <1>2, <1>3

(* A fold over a finite set: g has its value for each part of the set, where *)
(* pick says which element of a part is added last and step what it adds.  *)
Folds(S, V, base, pick, step) ==
  {g \in [SUBSET S -> V] : \A s \in SUBSET S :
     g[s] = IF s = {} THEN base ELSE step[pick[s]][g[s \ {pick[s]}]]}
IsFold(S, V, base, pick, step) ==
  /\ IsFiniteSet(S) /\ base \in V /\ step \in [S -> [V -> V]]
  /\ \A s \in SUBSET S : s # {} => pick[s] \in s

(* There is such a fold, by growing size.                                  *)
LEMMA FoldsExist ==
  ASSUME NEW S, NEW V, NEW base, NEW pick, NEW step, IsFold(S, V, base, pick, step)
  PROVE  Folds(S, V, base, pick, step) # {}
<1> DEFINE Small(n) == {s \in SUBSET S : Cardinality(s) <= n}
           Good(n) == {g \in [Small(n) -> V] : \A s \in Small(n) :
                         g[s] = IF s = {} THEN base ELSE step[pick[s]][g[s \ {pick[s]}]]}
           T == {n \in Nat : Good(n) = {}}
<1> USE DEF IsFold
<1>0. \A s \in SUBSET S :
        /\ IsFiniteSet(s) /\ Cardinality(s) \in Nat /\ Cardinality(s) <= Cardinality(S)
        /\ (Cardinality(s) = 0 <=> s = {})
        /\ s # {} => /\ pick[s] \in S
                     /\ s \ {pick[s]} \in SUBSET S
                     /\ Cardinality(s \ {pick[s]}) = Cardinality(s) - 1
  BY FS_CardinalityType, FS_Subset, FS_EmptySet, FS_RemoveElement
<1>1. Cardinality(S) \in Nat
  BY FS_CardinalityType
<1>2. Good(0) # {}
  <2>1. Small(0) = {{}}
    <3>1. ASSUME NEW s \in SUBSET S PROVE s \in Small(0) <=> s = {}
      <4>1. Cardinality(s) \in Nat /\ (Cardinality(s) = 0 <=> s = {})
        BY <1>0
      <4> QED BY <4>1
    <3> QED BY <3>1
  <2>2. [s \in Small(0) |-> base] \in Good(0)
    BY <2>1
  <2> QED BY <2>2
<1>3. ASSUME NEW n \in Nat, Good(n) # {} PROVE Good(n + 1) # {}
  <2>1. PICK g \in Good(n) : TRUE
    BY <1>3
  <2> DEFINE h == [s \in Small(n + 1) |-> IF s = {} THEN base
                                          ELSE step[pick[s]][g[s \ {pick[s]}]]]
  <2>2. ASSUME NEW s \in Small(n + 1), s # {}
        PROVE  s \ {pick[s]} \in Small(n) /\ pick[s] \in S
    <3>1. /\ s \in SUBSET S /\ Cardinality(s) \in Nat /\ Cardinality(s) <= n + 1
          /\ Cardinality(s \ {pick[s]}) = Cardinality(s) - 1 /\ pick[s] \in S
      BY <1>0, <2>2
    <3>2. Cardinality(s \ {pick[s]}) <= n
      BY <3>1
    <3> QED BY <3>1, <3>2
  <2>3. h \in [Small(n + 1) -> V]
    <3> SUFFICES ASSUME NEW s \in Small(n + 1) PROVE h[s] \in V
      OBVIOUS
    <3>1. CASE s = {}
      BY <3>1
    <3>2. CASE s # {}
      <4>1. pick[s] \in S /\ g[s \ {pick[s]}] \in V
        BY <2>1, <2>2, <3>2
      <4>2. step[pick[s]] \in [V -> V]
        BY <4>1
      <4>3. step[pick[s]][g[s \ {pick[s]}]] \in V
        BY <4>1, <4>2
      <4> QED BY <3>2, <4>3
    <3> QED BY <3>1, <3>2
  <2>4. \A s \in Small(n) : s \in Small(n + 1) /\ h[s] = g[s]
    <3>1. ASSUME NEW s \in Small(n) PROVE s \in Small(n + 1)
      <4>1. Cardinality(s) \in Nat
        BY <1>0
      <4> QED BY <4>1
    <3> HIDE DEF Small
    <3> QED BY <2>1, <3>1
  <2>5. h \in Good(n + 1)
    <3> HIDE DEF Small
    <3> QED BY <2>2, <2>3, <2>4
  <2> QED BY <2>5
<1>4. T = {}
  <2> SUFFICES ASSUME T # {} PROVE FALSE
    OBVIOUS
  <2>1. PICK n \in T : \A m \in T : n <= m
    <3> HIDE DEF T
    <3>1. T \in SUBSET Nat
      BY DEF T
    <3> QED BY <3>1, LeastNumber
  <2>2. \A m \in Nat : m \in T <=> Good(m) = {}
    OBVIOUS
  <2>3. n \in Nat
    OBVIOUS
  <2> HIDE DEF T, Good
  <2>4. n # 0
    BY <1>2, <2>1, <2>2, <2>3
  <2>5. n - 1 \in Nat /\ (n - 1) + 1 = n /\ ~(n <= n - 1)
    BY <2>3, <2>4
  <2>6. Good(n - 1) # {}
    BY <2>1, <2>2, <2>5
  <2>7. Good((n - 1) + 1) # {}
    BY <1>3, <2>5, <2>6
  <2> QED BY <2>1, <2>2, <2>5, <2>7
<1>5. PICK g \in Good(Cardinality(S)) : TRUE
  <2> HIDE DEF Good
  <2> QED BY <1>1, <1>4
<1>6. Small(Cardinality(S)) = SUBSET S
  BY <1>0
<1> HIDE DEF Small
<1> QED BY <1>5, <1>6 DEF Folds

(* The numbers that a fold of + over a finite set goes through: g has the   *)
(* sum of f over each of its parts.                                         *)
AnyOf(s) == CHOOSE x \in s : TRUE
Sums(f, S) ==
  {g \in [SUBSET S -> Int] : \A s \in SUBSET S :
     g[s] = IF s = {} THEN 0 ELSE f[AnyOf(s)] + g[s \ {AnyOf(s)}]}

LEMMA AnyIsOne == \A s : s # {} => AnyOf(s) \in s
BY DEF AnyOf

(* There are such numbers: they are a fold.                                *)
LEMMA SumsExist ==
  ASSUME NEW S, IsFiniteSet(S), NEW f \in [S -> Int]
  PROVE  Sums(f, S) # {}
<1> DEFINE pick == [s \in SUBSET S |-> AnyOf(s)]
           step == [x \in S |-> [v \in Int |-> f[x] + v]]
<1>1. IsFold(S, Int, 0, pick, step)
  BY AnyIsOne DEF IsFold
<1>2. PICK g : g \in Folds(S, Int, 0, pick, step)
  <2> HIDE DEF pick, step
  <2> QED BY <1>1, FoldsExist
<1>3. g \in Sums(f, S)
  <2>1. g \in [SUBSET S -> Int]
    BY <1>2 DEF Folds
  <2>2. ASSUME NEW s \in SUBSET S
        PROVE  g[s] = IF s = {} THEN 0 ELSE f[AnyOf(s)] + g[s \ {AnyOf(s)}]
    <3>1. CASE s = {}
      BY <1>2, <3>1 DEF Folds
    <3>2. CASE s # {}
      <4>1. AnyOf(s) \in S /\ pick[s] = AnyOf(s) /\ g[s \ {AnyOf(s)}] \in Int
        BY <2>1, <3>2, AnyIsOne
      <4>2. g[s] = step[AnyOf(s)][g[s \ {AnyOf(s)}]]
        BY <1>2, <3>2, <4>1 DEF Folds
      <4> QED BY <3>2, <4>1, <4>2
    <3> QED BY <3>1, <3>2
  <2> QED BY <2>1, <2>2 DEF Sums
<1> QED BY <1>3

(* Whichever element is taken away, the rest is summed.                     *)
TakesAny(f, S, g) == \A s \in SUBSET S : \A x \in s : g[s] = f[x] + g[s \ {x}]
Adds(S, g) == \A A \in SUBSET S : \A B \in SUBSET (S \ A) : g[A \cup B] = g[A] + g[B]

LEMMA SumTakesAny ==
  ASSUME NEW S, IsFiniteSet(S), NEW f \in [S -> Int], NEW g \in Sums(f, S)
  PROVE  TakesAny(f, S, g)
<1> DEFINE P == {s \in SUBSET S : \A x \in s : g[s] = f[x] + g[s \ {x}]}
<1>1. ASSUME NEW A \in SUBSET S, \A z \in A : A \ {z} \in P, NEW x \in A
      PROVE  g[A] = f[x] + g[A \ {x}]
  <2> DEFINE y == AnyOf(A)
  <2>1. y \in A /\ g[A] = f[y] + g[A \ {y}]
    BY AnyIsOne DEF Sums
  <2>2. CASE x = y
    BY <2>1, <2>2
  <2>3. CASE x # y
    <3>1. g[A \ {y}] = f[x] + g[(A \ {y}) \ {x}]
      BY <1>1, <2>1, <2>3
    <3>2. g[A \ {x}] = f[y] + g[(A \ {x}) \ {y}]
      BY <1>1, <2>1, <2>3
    <3>3. (A \ {y}) \ {x} = (A \ {x}) \ {y}
      OBVIOUS
    <3>4. f[x] \in Int /\ f[y] \in Int /\ g[(A \ {x}) \ {y}] \in Int
      BY <2>1 DEF Sums
    <3> DEFINE fx == f[x]  fy == f[y]  all == g[A]
               noX == g[A \ {x}]  noY == g[A \ {y}]  no == g[(A \ {x}) \ {y}]
    <3>5. /\ all = fy + noY /\ noY = fx + no /\ noX = fy + no
          /\ fx \in Int /\ fy \in Int /\ no \in Int
      BY <2>1, <3>1, <3>2, <3>3, <3>4
    <3>6. all = fx + noX
      <4> HIDE DEF fx, fy, all, noX, noY, no
      <4> QED BY <3>5
    <3> QED BY <3>6
  <2> QED BY <2>2, <2>3
<1>2. SUBSET S \subseteq P
  <2>1. \A A \in SUBSET S : (\A z \in A : A \ {z} \in P) => A \in P
    BY <1>1
  <2> HIDE DEF P
  <2> QED BY <2>1, GrowsToAll
<1> QED BY <1>2 DEF TakesAny

(* The sum of two parts that share nothing is that of their union.          *)
LEMMA SumsAdd ==
  ASSUME NEW S, IsFiniteSet(S), NEW f \in [S -> Int], NEW g \in Sums(f, S)
  PROVE  Adds(S, g)
<1> SUFFICES ASSUME NEW A \in SUBSET S
             PROVE  \A B \in SUBSET (S \ A) : g[A \cup B] = g[A] + g[B]
  BY DEF Adds
<1> DEFINE P == {B \in SUBSET (S \ A) : g[A \cup B] = g[A] + g[B]}
<1>1. ASSUME NEW B \in SUBSET (S \ A), \A x \in B : B \ {x} \in P
      PROVE  g[A \cup B] = g[A] + g[B]
  <2>0. \A s \in SUBSET S : g[s] \in Int
    BY DEF Sums
  <2>1. CASE B = {}
    <3>1. g[B] = 0 /\ A \cup B = A
      BY <2>1 DEF Sums
    <3>2. \A n \in Int : n = n + 0
      OBVIOUS
    <3> QED BY <2>0, <3>1, <3>2
  <2>2. CASE B # {}
    <3>1. PICK x \in B : TRUE
      BY <2>2
    <3>2. g[A \cup (B \ {x})] = g[A] + g[B \ {x}]
      BY <1>1, <3>1
    <3>3. g[A \cup B] = f[x] + g[(A \cup B) \ {x}] /\ g[B] = f[x] + g[B \ {x}]
      BY <3>1, SumTakesAny DEF TakesAny
    <3>4. (A \cup B) \ {x} = A \cup (B \ {x})
      BY <3>1
    <3>5. f[x] \in Int /\ g[A] \in Int /\ g[B \ {x}] \in Int
      BY <2>0, <3>1
    <3> DEFINE fx == f[x]  a == g[A]  b == g[B]  ab == g[A \cup B]
               rest == g[B \ {x}]  aRest == g[A \cup (B \ {x})]
    <3>6. /\ ab = fx + aRest /\ b = fx + rest /\ aRest = a + rest
          /\ fx \in Int /\ a \in Int /\ rest \in Int
      BY <3>2, <3>3, <3>4, <3>5
    <3>7. ab = a + b
      <4> HIDE DEF fx, a, b, ab, rest, aRest
      <4> QED BY <3>6
    <3> QED BY <3>7
  <2> QED BY <2>1, <2>2
<1>2. SUBSET (S \ A) \subseteq P
  <2> DEFINE rest == S \ A
  <2>1. \A B \in SUBSET rest : (\A x \in B : B \ {x} \in P) => B \in P
    BY <1>1
  <2>2. IsFiniteSet(rest)
    BY FS_Subset
  <2> HIDE DEF P, rest
  <2>3. SUBSET rest \subseteq P
    BY <2>1, <2>2, GrowsToAll
  <2> QED BY <2>3 DEF rest
<1> QED BY <1>2

(* Two functions with the same values have the same sums.                   *)
LEMMA SumsSame ==
  ASSUME NEW S, IsFiniteSet(S), NEW T, IsFiniteSet(T), NEW B \in SUBSET (S \cap T),
         NEW f \in [S -> Int], NEW g \in Sums(f, S),
         NEW e \in [T -> Int], NEW h \in Sums(e, T), \A x \in B : f[x] = e[x]
  PROVE  g[B] = h[B]
<1> DEFINE P == {A \in SUBSET B : g[A] = h[A]}
<1>1. ASSUME NEW A \in SUBSET B, \A x \in A : A \ {x} \in P PROVE g[A] = h[A]
  <2>1. CASE A = {}
    BY <2>1 DEF Sums
  <2>2. CASE A # {}
    <3>1. PICK x \in A : TRUE
      BY <2>2
    <3>2. g[A] = f[x] + g[A \ {x}]
      BY <3>1, SumTakesAny DEF TakesAny
    <3>3. h[A] = e[x] + h[A \ {x}]
      <4>1. TakesAny(e, T, h)
        BY SumTakesAny
      <4> QED BY <3>1, <4>1 DEF TakesAny
    <3> QED BY <1>1, <3>1, <3>2, <3>3
  <2> QED BY <2>1, <2>2
<1>2. SUBSET B \subseteq P
  <2>1. \A A \in SUBSET B : (\A x \in A : A \ {x} \in P) => A \in P
    BY <1>1
  <2>2. IsFiniteSet(B)
    BY FS_Subset
  <2> HIDE DEF P
  <2> QED BY <2>1, <2>2, GrowsToAll
<1> QED BY <1>2

(* The sums of the community modules are such numbers.                      *)
LEMMA FoldIsSum ==
  ASSUME NEW S, IsFiniteSet(S), NEW f, \A x \in S : f[x] \in Int
  PROVE  \E g \in Sums([x \in S |-> f[x]], S) : SumFunctionOnSet(f, S) = g[S]
<1> DEFINE Unfold(g) == [s \in SUBSET S |-> IF s = {} THEN 0
                                          ELSE f[AnyOf(s)] + g[s \ {AnyOf(s)}]]
           g == CHOOSE h : h = Unfold(h)
           e == [x \in S |-> f[x]]
<1>0. e \in [S -> Int] /\ \A s \in SUBSET S : s # {} => e[AnyOf(s)] = f[AnyOf(s)]
  BY AnyIsOne
<1>1. PICK h : h \in Sums(e, S)
  <2> HIDE DEF e
  <2> QED BY <1>0, SumsExist
<1>2. h = Unfold(h)
  <2> HIDE DEF e
  <2> QED BY <1>0, <1>1 DEF Sums
<1>3. g = Unfold(g)
  <2> HIDE DEF Unfold
  <2> QED BY <1>2
<1>4. SumFunctionOnSet(f, S) = g[S]
  BY DEF SumFunctionOnSet, FoldFunctionOnSet, MapThenFoldSet, AnyOf
<1> HIDE DEF g
<1>5. g \in [SUBSET S -> Int]
  <2> DEFINE P == {s \in SUBSET S : g[s] \in Int}
  <2>1. ASSUME NEW A \in SUBSET S, \A x \in A : A \ {x} \in P PROVE g[A] \in Int
    <3>1. CASE A = {}
      BY <1>3, <3>1
    <3>2. CASE A # {}
      <4>1. AnyOf(A) \in A
        BY <3>2, AnyIsOne
      <4>2. g[A] = f[AnyOf(A)] + g[A \ {AnyOf(A)}]
        BY <1>3, <3>2
      <4>3. f[AnyOf(A)] \in Int /\ g[A \ {AnyOf(A)}] \in Int
        BY <2>1, <4>1
      <4> QED BY <4>2, <4>3
    <3> QED BY <3>1, <3>2
  <2>2. SUBSET S \subseteq P
    <3>1. \A A \in SUBSET S : (\A x \in A : A \ {x} \in P) => A \in P
      BY <2>1
    <3> HIDE DEF P
    <3> QED BY <3>1, GrowsToAll
  <2> QED BY <1>3, <2>2
<1>6. g \in Sums(e, S)
  <2> HIDE DEF e
  <2> QED BY <1>0, <1>3, <1>5 DEF Sums
<1> QED BY <1>4, <1>6

LEMMA SumOfPart ==
  ASSUME NEW S, IsFiniteSet(S), NEW f \in [S -> Int],
         NEW g \in Sums(f, S), NEW B \in SUBSET S
  PROVE  SumFunctionOnSet(f, B) = g[B]
<1>1. IsFiniteSet(B)
  BY FS_Subset
<1> DEFINE e == [x \in B |-> f[x]]
<1>2. PICK h \in Sums(e, B) : SumFunctionOnSet(f, B) = h[B]
  BY <1>1, FoldIsSum
<1>3. B \in SUBSET (S \cap B) /\ e \in [B -> Int] /\ \A x \in B : f[x] = e[x]
  OBVIOUS
<1> HIDE DEF e
<1>4. g[B] = h[B]
  BY <1>1, <1>2, <1>3, SumsSame
<1> QED BY <1>2, <1>4

(* What is used of sums: their values, the empty one, one element less, two  *)
(* parts, and that only the values count.                                   *)
SumLaws(f, S) ==
  /\ \A B \in SUBSET S : SumFunctionOnSet(f, B) \in Int
  /\ SumFunctionOnSet(f, {}) = 0
  /\ TakesAny(f, S, [B \in SUBSET S |-> SumFunctionOnSet(f, B)])
  /\ Adds(S, [B \in SUBSET S |-> SumFunctionOnSet(f, B)])

LEMMA SumFacts ==
  ASSUME NEW S, IsFiniteSet(S), NEW f \in [S -> Int]
  PROVE  SumLaws(f, S)
<1>1. PICK g \in Sums(f, S) : TRUE
  BY SumsExist
<1>2. \A B \in SUBSET S : SumFunctionOnSet(f, B) = g[B]
  BY <1>1, SumOfPart
<1>3. g \in [SUBSET S -> Int] /\ g[{}] = 0
  BY <1>1 DEF Sums
<1>4. g = [B \in SUBSET S |-> SumFunctionOnSet(f, B)]
  BY <1>2, <1>3
<1>5. TakesAny(f, S, g) /\ Adds(S, g)
  BY SumTakesAny, SumsAdd
<1> QED BY <1>2, <1>3, <1>4, <1>5 DEF SumLaws

LEMMA SumOfEquals ==
  ASSUME NEW B, IsFiniteSet(B), NEW f, NEW e, \A x \in B : f[x] \in Int /\ e[x] = f[x]
  PROVE  SumFunctionOnSet(f, B) = SumFunctionOnSet(e, B)
<1> DEFINE a == [x \in B |-> f[x]]  b == [x \in B |-> e[x]]
<1>1. PICK g \in Sums(a, B) : SumFunctionOnSet(f, B) = g[B]
  BY FoldIsSum
<1>2. PICK h \in Sums(b, B) : SumFunctionOnSet(e, B) = h[B]
  BY FoldIsSum
<1>3. a = b /\ a \in [B -> Int]
  OBVIOUS
<1> HIDE DEF a, b
<1>4. g[B] = h[B]
  <2>1. B \in SUBSET (B \cap B) /\ \A x \in B : a[x] = b[x]
    BY <1>3
  <2> QED BY <1>1, <1>2, <1>3, <2>1, SumsSame
<1> QED BY <1>1, <1>2, <1>4

(* Summed by kind, and the kinds then, is summed at once.                    *)
LEMMA SumByKind ==
  ASSUME NEW B, IsFiniteSet(B), NEW T, IsFiniteSet(T), NEW kind \in [B -> T],
         NEW f \in [B -> Int]
  PROVE  SumFunction([t \in T |-> SumFunctionOnSet(f, {x \in B : kind[x] = t})])
           = SumFunctionOnSet(f, B)
<1> DEFINE Kind(t) == {x \in B : kind[x] = t}
           In(R) == {x \in B : kind[x] \in R}
           e == [t \in T |-> SumFunctionOnSet(f, Kind(t))]
           P == {R \in SUBSET T : SumFunctionOnSet(e, R) = SumFunctionOnSet(f, In(R))}
<1>0. SumLaws(f, B)
  BY SumFacts
<1>1. e \in [T -> Int]
  BY <1>0 DEF SumLaws
<1>9. SumLaws(e, T)
  <2> HIDE DEF e
  <2> QED BY <1>1, SumFacts
<1>2. ASSUME NEW R \in SUBSET T, \A t \in R : R \ {t} \in P
      PROVE  SumFunctionOnSet(e, R) = SumFunctionOnSet(f, In(R))
  <2>1. CASE R = {}
    <3>1. In(R) = {}
      BY <2>1
    <3>2. SumFunctionOnSet(e, {}) = 0
      <4> HIDE DEF e
      <4> QED BY <1>9 DEF SumLaws
    <3>3. SumFunctionOnSet(f, {}) = 0
      BY <1>0 DEF SumLaws
    <3> HIDE DEF e, In
    <3> QED BY <2>1, <3>1, <3>2, <3>3
  <2>2. CASE R # {}
    <3>1. PICK t \in R : TRUE
      BY <2>2
    <3>2. SumFunctionOnSet(e, R) = e[t] + SumFunctionOnSet(e, R \ {t})
      <4> HIDE DEF e
      <4> QED BY <1>9, <3>1 DEF SumLaws, TakesAny
    <3>3. SumFunctionOnSet(e, R \ {t}) = SumFunctionOnSet(f, In(R \ {t}))
      BY <1>2, <3>1
    <3>4. /\ In(R) = Kind(t) \cup In(R \ {t})
          /\ Kind(t) \in SUBSET B /\ In(R \ {t}) \in SUBSET (B \ Kind(t))
      BY <3>1
    <3>5. e[t] = SumFunctionOnSet(f, Kind(t))
      BY <3>1
    <3> HIDE DEF e, In, Kind
    <3>6. SumFunctionOnSet(f, In(R)) = SumFunctionOnSet(f, Kind(t)) + SumFunctionOnSet(f, In(R \ {t}))
      BY <1>0, <3>4 DEF SumLaws, Adds
    <3> QED BY <3>2, <3>3, <3>5, <3>6
  <2> QED BY <2>1, <2>2
<1>3. SUBSET T \subseteq P
  <2>1. \A R \in SUBSET T : (\A t \in R : R \ {t} \in P) => R \in P
    BY <1>2
  <2> HIDE DEF P
  <2> QED BY <2>1, GrowsToAll
<1>4. SumFunctionOnSet(e, T) = SumFunctionOnSet(f, In(T)) /\ In(T) = B /\ DOMAIN e = T
  BY <1>3
<1> HIDE DEF e
<1>5. SumFunction(e) = SumFunctionOnSet(e, T)
  BY <1>4 DEF SumFunction
<1> QED BY <1>4, <1>5 DEF e

(* What is added to one and taken from another leaves the sum alone.        *)
Shifted(T, f, e, a, b, d) ==
  /\ IsFiniteSet(T) /\ f \in [T -> Int] /\ e \in [T -> Int]
  /\ d \in Int /\ a \in T /\ b \in T /\ a # b
  /\ e[a] = f[a] + d /\ e[b] = f[b] - d
  /\ \A t \in T \ {a, b} : e[t] = f[t]

LEMMA SumShift ==
  ASSUME NEW T, NEW f, NEW e, NEW a, NEW b, NEW d, Shifted(T, f, e, a, b, d)
  PROVE  SumFunction(e) = SumFunction(f)
<1>0. /\ IsFiniteSet(T) /\ f \in [T -> Int] /\ e \in [T -> Int]
      /\ d \in Int /\ a \in T /\ b \in T /\ a # b
      /\ e[a] = f[a] + d /\ e[b] = f[b] - d
      /\ \A t \in T \ {a, b} : e[t] = f[t]
  BY DEF Shifted
<1> DEFINE rest == T \ {a, b}
<1>1. ASSUME NEW h \in [T -> Int]
      PROVE  /\ SumFunction(h) = h[a] + (h[b] + SumFunctionOnSet(h, rest))
             /\ SumFunctionOnSet(h, rest) \in Int
  <2>1. SumLaws(h, T)
    BY <1>0, SumFacts
  <2>2. SumFunctionOnSet(h, T) = h[a] + SumFunctionOnSet(h, T \ {a})
    BY <1>0, <2>1 DEF SumLaws, TakesAny
  <2>3. SumFunctionOnSet(h, T \ {a}) = h[b] + SumFunctionOnSet(h, (T \ {a}) \ {b})
    BY <1>0, <2>1 DEF SumLaws, TakesAny
  <2>4. (T \ {a}) \ {b} = rest
    OBVIOUS
  <2>5. SumFunctionOnSet(h, rest) \in Int
    BY <2>1 DEF SumLaws
  <2> HIDE DEF rest
  <2> QED BY <1>0, <2>2, <2>3, <2>4, <2>5 DEF SumFunction
<1>2. SumFunctionOnSet(f, rest) = SumFunctionOnSet(e, rest)
  <2>1. IsFiniteSet(rest) /\ \A t \in rest : f[t] \in Int /\ e[t] = f[t]
    BY <1>0, FS_Subset
  <2> HIDE DEF rest
  <2> QED BY <2>1, SumOfEquals
<1>3. SumFunction(f) = f[a] + (f[b] + SumFunctionOnSet(f, rest))
  BY <1>0, <1>1
<1>4. SumFunction(e) = e[a] + (e[b] + SumFunctionOnSet(e, rest))
  BY <1>0, <1>1
<1>5. f[a] \in Int /\ f[b] \in Int /\ SumFunctionOnSet(f, rest) \in Int
  BY <1>0, <1>1
<1> HIDE DEF rest
<1> DEFINE fa == f[a]  fb == f[b]  r == SumFunctionOnSet(f, rest)
<1>6. SumFunction(f) = fa + (fb + r) /\ SumFunction(e) = (fa + d) + ((fb - d) + r)
  BY <1>0, <1>2, <1>3, <1>4
<1>7. fa \in Int /\ fb \in Int /\ r \in Int
  BY <1>5
<1> HIDE DEF fa, fb, r
<1> QED BY <1>0, <1>6, <1>7

(* Nothing at all adds up to nothing.                                      *)
LEMMA SumOfNothing == ASSUME NEW T, IsFiniteSet(T) PROVE SumFunction([t \in T |-> 0]) = 0
<1> DEFINE f == [t \in T |-> 0]
           P == {A \in SUBSET T : SumFunctionOnSet(f, A) = 0}
<1>0. SumLaws(f, T)
  <2>1. f \in [T -> Int]
    OBVIOUS
  <2> HIDE DEF f
  <2> QED BY <2>1, SumFacts
<1>1. ASSUME NEW A \in SUBSET T, \A x \in A : A \ {x} \in P
      PROVE  SumFunctionOnSet(f, A) = 0
  <2>1. CASE A = {}
    BY <1>0, <2>1 DEF SumLaws
  <2>2. CASE A # {}
    <3>1. PICK x \in A : TRUE
      BY <2>2
    <3>2. f[x] = 0 /\ SumFunctionOnSet(f, A \ {x}) = 0
      BY <1>1, <3>1
    <3> HIDE DEF f
    <3>3. SumFunctionOnSet(f, A) = f[x] + SumFunctionOnSet(f, A \ {x})
      BY <1>0, <3>1 DEF SumLaws, TakesAny
    <3> QED BY <3>2, <3>3
  <2> QED BY <2>1, <2>2
<1>2. SUBSET T \subseteq P
  <2>1. \A A \in SUBSET T : (\A x \in A : A \ {x} \in P) => A \in P
    BY <1>1
  <2> HIDE DEF P
  <2> QED BY <2>1, GrowsToAll
<1>3. DOMAIN f = T /\ SumFunctionOnSet(f, T) = 0
  BY <1>2
<1> HIDE DEF f
<1>4. SumFunction(f) = 0
  BY <1>3 DEF SumFunction
<1> QED BY <1>4 DEF f

(* Two sets that have nothing in common are counted and summed apart.      *)
LEMMA CountApart ==
  ASSUME NEW A, NEW B, IsFiniteSet(A), IsFiniteSet(B), A \cap B = {}
  PROVE  /\ Cardinality(A \cup B) = Cardinality(A) + Cardinality(B)
         /\ Cardinality(A) \in Nat /\ Cardinality(B) \in Nat
<1>1. /\ Cardinality(A \cup B) = Cardinality(A) + Cardinality(B) - Cardinality(A \cap B)
      /\ Cardinality(A \cap B) = 0
  BY FS_Union, FS_EmptySet
<1>2. Cardinality(A) \in Nat /\ Cardinality(B) \in Nat
  BY FS_CardinalityType
<1> QED BY <1>1, <1>2

LEMMA SumIsInt ==
  ASSUME NEW A, IsFiniteSet(A), NEW f \in [A -> Int]
  PROVE  SumFunction(f) \in Int
<1>1. SumLaws(f, A)
  BY SumFacts
<1> QED BY <1>1 DEF SumLaws, SumFunction

Parted(A, B, f, a, b) ==
  /\ IsFiniteSet(A) /\ IsFiniteSet(B) /\ A \cap B = {}
  /\ f \in [A \cup B -> Int] /\ a \in [A -> Int] /\ b \in [B -> Int]
  /\ \A x \in A : f[x] = a[x]
  /\ \A x \in B : f[x] = b[x]

LEMMA SumApart ==
  ASSUME NEW A, NEW B, NEW f, NEW a, NEW b, Parted(A, B, f, a, b)
  PROVE  SumFunction(f) = SumFunction(a) + SumFunction(b)
<1> DEFINE C == A \cup B
<1>0. /\ IsFiniteSet(A) /\ IsFiniteSet(B)
      /\ f \in [C -> Int] /\ a \in [A -> Int] /\ b \in [B -> Int]
      /\ A \in SUBSET C /\ B \in SUBSET (C \ A) /\ B \in SUBSET C /\ A \cup B = C
      /\ \A x \in A : f[x] \in Int /\ a[x] = f[x]
      /\ \A x \in B : f[x] \in Int /\ b[x] = f[x]
  BY DEF Parted
<1>1. IsFiniteSet(C)
  BY <1>0, FS_Union
<1> HIDE DEF C
<1>2. SumLaws(f, C)
  BY <1>0, <1>1, SumFacts
<1>3. SumFunctionOnSet(f, C) = SumFunctionOnSet(f, A) + SumFunctionOnSet(f, B)
  BY <1>0, <1>2 DEF SumLaws, Adds
<1>4. SumFunctionOnSet(f, A) = SumFunctionOnSet(a, A)
  BY <1>0, SumOfEquals
<1>5. SumFunctionOnSet(f, B) = SumFunctionOnSet(b, B)
  BY <1>0, SumOfEquals
<1> QED BY <1>0, <1>3, <1>4, <1>5 DEF SumFunction

LEMMA SumOfOne ==
  ASSUME NEW g, NEW f \in [{g} -> Int] PROVE SumFunction(f) = f[g]
<1>1. SumLaws(f, {g})
  BY SumFacts, FS_Singleton
<1>2. SumFunctionOnSet(f, {g}) = f[g] + SumFunctionOnSet(f, {g} \ {g})
  BY <1>1 DEF SumLaws, TakesAny
<1>3. SumFunctionOnSet(f, {g} \ {g}) = 0 /\ f[g] \in Int
  BY <1>1 DEF SumLaws
<1> QED BY <1>2, <1>3 DEF SumFunction
-----------------------------------------------------------------------------
(* Bets                                                                     *)

(* A row is open with nothing paid, or settled with a payout and a time.    *)
Sound(row) ==
  IF row.status = "open" THEN row.payout = None /\ row.settled_at = None
                         ELSE row.payout # None /\ row.settled_at # None

(* Where no request is kept, the walk alone writes rows.                    *)
BetsOK ==
  /\ bet = [b \in DOMAIN bet |-> bet[b]] /\ DOMAIN bet \subseteq Bets
  /\ \A b \in DOMAIN bet : bet[b] \in BetType /\ (~keeps => Sound(bet[b]))
RequestsOK ==
  /\ request = [u \in Bettors |-> request[u]]
  /\ \A u \in Bettors : request[u] # None =>
       /\ request[u].base \in BetType /\ request[u].want \in BetType \cup {None}
       /\ request[u].stamped \in SUBSET {"settled_at"}
WalkOK ==
  walk # None => \A b \in DOMAIN walk.want :
    /\ walk.base[b] \in BetType /\ walk.base[b].status = "open"
    /\ ~keeps => Sound(walk.base[b])
    /\ walk.want[b] \in BetType /\ Sound(walk.want[b]) /\ walk.want[b].status # "open"
LedgerIInv == BetsOK /\ RequestsOK /\ WalkOK /\ keeps \in Sessions /\ told \subseteq Bets

(* What a transaction writes of a row it read, on the row as it is by now.  *)
LEMMA WrittenRow ==
  ASSUME NEW now \in BetType, NEW base \in BetType, NEW want \in BetType,
         NEW stamped \in SUBSET {"settled_at"}
  PROVE  /\ Written(now, base, want, stamped) \in BetType
         /\ Written(now, base, want, stamped).status
              = IF want.status = base.status THEN now.status ELSE want.status
         /\ Written(now, base, want, stamped).payout
              = IF want.payout = base.payout THEN now.payout ELSE want.payout
         /\ Written(now, base, want, stamped).settled_at
              = IF want.settled_at = base.settled_at /\ "settled_at" \notin stamped THEN now.settled_at ELSE want.settled_at
<1>1. DOMAIN want = {"owner", "type", "event", "status", "settled_at", "payout"}
  BY DEF BetType
<1> DEFINE w == Written(now, base, want, stamped)
<1>2. w = [owner |-> IF want.owner = base.owner THEN now.owner ELSE want.owner,
           type |-> IF want.type = base.type THEN now.type ELSE want.type,
           event |-> IF want.event = base.event THEN now.event ELSE want.event,
           status |-> IF want.status = base.status THEN now.status ELSE want.status,
           settled_at |-> IF want.settled_at = base.settled_at /\ "settled_at" \notin stamped
                          THEN now.settled_at ELSE want.settled_at,
           payout |-> IF want.payout = base.payout THEN now.payout ELSE want.payout]
  BY <1>1 DEF Written
<1>3. w \in BetType
  BY <1>2 DEF BetType
<1> QED BY <1>2, <1>3

LEMMA EditedTyped ==
  ASSUME NEW row \in BetType, NEW body \in Bodies
  PROVE  Edited(row, body) \in BetType
<1>1. /\ body.status \in BetStatuses \cup {None}
      /\ body.payout \in {"own", None} /\ body.settled_at \in {"own", None}
  BY LedgerAssumption
<1>2. CASE body.status = None
  <2> DEFINE p == IF body.payout # None THEN body.payout ELSE row.payout
             t == IF body.settled_at # None THEN body.settled_at ELSE row.settled_at
  <2>1. p \in Payouts \cup {None} /\ t \in Times \cup {None}
    BY <1>1 DEF BetType, Payouts, Times
  <2>2. Edited(row, body) = [row EXCEPT !.payout = IF body.payout # None THEN body.payout ELSE @,
          !.settled_at = IF body.settled_at # None THEN body.settled_at ELSE @]
    <3>1. body.status # "open"
      BY <1>2, LedgerAssumption DEF BetStatuses
    <3> QED BY <1>2, <3>1 DEF Edited
  <2>3. Edited(row, body) = [row EXCEPT !.payout = p, !.settled_at = t]
    BY <2>2 DEF BetType
  <2> HIDE DEF p, t
  <2> QED BY <2>1, <2>3 DEF BetType
<1>3. CASE body.status # None /\ body.status = "open"
  BY <1>1, <1>3 DEF Edited, BetType, Payouts, Times, BetStatuses
<1>4. CASE body.status \notin {None, "open"}
  <2>1. PayoutFor(body.status) \in Payouts
    BY DEF PayoutFor, Payouts
  <2>2. PatchDecided(row, body) \in BetType
    BY <1>1, <1>4, <2>1 DEF PatchDecided, BetType, Payouts, Times
  <2> QED BY <1>4, <2>2 DEF Edited
<1> QED BY <1>2, <1>3, <1>4

(* The steps of requests.                                                   *)
LEMMA RequestKeeps ==
  ASSUME LedgerIInv, NEW u \in Bettors, NEW b \in Bets,
         \/ \E type \in Types, on \in BOOLEAN : CreateBet(u, b, type, on)
         \/ \E body \in Bodies : UpdateBet(u, b, body)
         \/ DeleteBet(u, b)
  PROVE  LedgerIInv'
<1>1. ASSUME NEW type \in Types, NEW on \in BOOLEAN, CreateBet(u, b, type, on)
      PROVE  LedgerIInv'
  <2> DEFINE new == [owner |-> u, type |-> type, event |-> on,
                     status |-> "open", settled_at |-> None, payout |-> None]
  <2>1. /\ b \notin DOMAIN bet /\ request' = request /\ walk' = walk /\ keeps' = keeps
        /\ bet' = IF ~keeps THEN bet ELSE
                    [x \in DOMAIN bet \cup {b} |-> IF x \in DOMAIN bet THEN bet[x] ELSE new]
        /\ told' = told \cup {b}
    BY <1>1 DEF CreateBet
  <2>2. new \in BetType
    BY DEF BetType, BetStatuses
  <2> HIDE DEF new
  <2>3. BetsOK'
    BY <2>1, <2>2 DEF LedgerIInv, BetsOK
  <2> QED BY <2>1, <2>3 DEF LedgerIInv, RequestsOK, WalkOK
<1>2. ASSUME NEW want \in BetType \cup {None}, NEW stamped \in SUBSET {"settled_at"}, Owned(u, b),
             request' = [request EXCEPT ![u] =
               [id |-> b, base |-> bet[b], want |-> want, stamped |-> stamped]],
             UNCHANGED <<bet, walk, keeps>>, told' \subseteq told
      PROVE  LedgerIInv'
  <2> DEFINE r == [id |-> b, base |-> bet[b], want |-> want, stamped |-> stamped]
  <2>1. \A v \in Bettors : request'[v] = IF v = u THEN r ELSE request[v]
    BY <1>2 DEF LedgerIInv, RequestsOK
  <2>2. r.base \in BetType /\ r.want = want /\ r.stamped = stamped
    BY <1>2 DEF Owned, LedgerIInv, BetsOK
  <2>3. request' = [v \in Bettors |-> request'[v]]
    BY <1>2 DEF LedgerIInv, RequestsOK
  <2> HIDE DEF r
  <2>4. RequestsOK'
    BY <1>2, <2>1, <2>2, <2>3 DEF LedgerIInv, RequestsOK
  <2> QED BY <1>2, <2>4 DEF LedgerIInv, BetsOK, WalkOK
<1>3. ASSUME NEW body \in Bodies, UpdateBet(u, b, body) PROVE LedgerIInv'
  <2> DEFINE want == Edited(bet[b], body)
             stamped == IF body.status \notin {None, "open"} /\ body.settled_at = None
                        THEN {"settled_at"} ELSE {}
  <2>1. Owned(u, b) /\ told' = told
        /\ request' = [request EXCEPT ![u] =
             [id |-> b, base |-> bet[b], want |-> want, stamped |-> stamped]]
        /\ UNCHANGED <<bet, walk, keeps>>
    BY <1>3 DEF UpdateBet
  <2>2. want \in BetType /\ stamped \in SUBSET {"settled_at"}
    BY <2>1, EditedTyped DEF Owned, LedgerIInv, BetsOK
  <2> HIDE DEF want, stamped
  <2> QED BY <1>2, <2>1, <2>2
<1>4. CASE DeleteBet(u, b)
  <2>1. {} \in SUBSET {"settled_at"}
    OBVIOUS
  <2> QED BY <1>2, <1>4, <2>1 DEF DeleteBet
<1> QED BY <1>1, <1>3, <1>4

(* A request ends.                                                          *)
LEMMA CloseKeeps ==
  ASSUME LedgerIInv, NEW u \in Bettors, CloseRequest(u)
  PROVE  LedgerIInv'
<1> DEFINE r == request[u]
           w == Written(bet[r.id], r.base, r.want, r.stamped)
<1>1. /\ r # None /\ walk' = walk /\ keeps' = keeps /\ told' = told
      /\ r.base \in BetType /\ r.want \in BetType \cup {None}
      /\ r.stamped \in SUBSET {"settled_at"}
      /\ request' = [request EXCEPT ![u] = None]
      /\ bet' = IF ~keeps THEN bet
                ELSE IF r.want = None THEN [x \in DOMAIN bet \ {r.id} |-> bet[x]]
                ELSE IF r.id \notin DOMAIN bet THEN bet
                ELSE [bet EXCEPT ![r.id] = w]
  BY DEF CloseRequest, LedgerIInv, RequestsOK
<1>2. r.want # None /\ r.id \in DOMAIN bet => w \in BetType
  BY <1>1, WrittenRow DEF LedgerIInv, BetsOK
<1>3. RequestsOK'
  <2>1. \A v \in Bettors : request'[v] = IF v = u THEN None ELSE request[v]
    BY <1>1 DEF LedgerIInv, RequestsOK
  <2>2. request' = [v \in Bettors |-> request'[v]]
    BY <1>1 DEF LedgerIInv, RequestsOK
  <2> QED BY <2>1, <2>2 DEF LedgerIInv, RequestsOK
<1> HIDE DEF w, r
<1>4. BetsOK'
  BY <1>1, <1>2 DEF LedgerIInv, BetsOK
<1> QED BY <1>1, <1>3, <1>4 DEF LedgerIInv, WalkOK

(* The walk settles the open bets it has read, and the event may go.        *)
LEMMA SettledRow ==
  ASSUME NEW row \in BetType, NEW code \in Codes, Decision(row.type, code) # None
  PROVE  Settled(row, code) \in BetType /\ Sound(Settled(row, code))
         /\ Settled(row, code).status # "open"
<1>1. Decision(row.type, code) \in {"void", "won", "push", "lost"}
  BY DEF Decision
<1>2. PayoutFor(Decision(row.type, code)) \in Payouts
  BY <1>1 DEF PayoutFor, Payouts
<1>3. None \notin Payouts \cup Times
  BY LedgerAssumption
<1> QED BY <1>1, <1>2, <1>3 DEF Settled, BetType, BetStatuses, Times, Sound

(* A row that nobody else has written is settled as a whole.                *)
LEMMA WalkWrites ==
  ASSUME NEW now \in BetType, NEW base \in BetType, NEW want \in BetType,
         Sound(base), base.status = "open", Sound(want), want.status # "open"
  PROVE  Sound(Written(now, base, want, {"settled_at"}))
<1> DEFINE stamped == {"settled_at"}  w == Written(now, base, want, stamped)
<1>1. stamped \in SUBSET {"settled_at"} /\ "settled_at" \in stamped
  OBVIOUS
<1>2. want.status # base.status /\ want.payout # base.payout
  BY DEF Sound
<1> HIDE DEF stamped
<1>3. w.status = want.status /\ w.payout = want.payout /\ w.settled_at = want.settled_at
  BY <1>1, <1>2, WrittenRow
<1> HIDE DEF w
<1>4. Sound(w)
  BY <1>3 DEF Sound
<1> QED BY <1>4 DEF w, stamped

LEMMA WalkKeeps ==
  ASSUME LedgerIInv,
         (\E code \in Codes : AutoSettle(code)) \/ WalkCommits \/ WalkRollsBack \/ Detach
  PROVE  LedgerIInv'
<1>1. ASSUME NEW code \in Codes, AutoSettle(code) PROVE LedgerIInv'
  <2> DEFINE decided == {b \in DOMAIN bet : /\ bet[b].event /\ bet[b].status = "open"
                                            /\ Decision(bet[b].type, code) # None}
  <2>1. /\ UNCHANGED <<bet, request, keeps, told>>
        /\ walk' = [base |-> [b \in decided |-> bet[b]],
                    want |-> [b \in decided |-> Settled(bet[b], code)]]
    BY <1>1 DEF AutoSettle
  <2>2. WalkOK'
    BY <2>1, SettledRow DEF LedgerIInv, BetsOK, WalkOK
  <2> QED BY <2>1, <2>2 DEF LedgerIInv, BetsOK, RequestsOK
<1>2. CASE WalkCommits
  <2> DEFINE W == DOMAIN walk.want
             new(b) == Written(bet[b], walk.base[b], walk.want[b], {"settled_at"})
  <2>1. /\ walk # None /\ walk' = None /\ UNCHANGED <<request, keeps, told>>
        /\ bet' = [b \in DOMAIN bet |-> IF b \in W THEN new(b) ELSE bet[b]]
    BY <1>2 DEF WalkCommits
  <2>2. ASSUME NEW b \in DOMAIN bet, b \in W
        PROVE  new(b) \in BetType /\ (~keeps => Sound(new(b)))
    <3>1. /\ bet[b] \in BetType
          /\ walk.base[b] \in BetType /\ walk.base[b].status = "open"
          /\ ~keeps => Sound(walk.base[b])
          /\ walk.want[b] \in BetType /\ Sound(walk.want[b]) /\ walk.want[b].status # "open"
      BY <2>1, <2>2 DEF LedgerIInv, BetsOK, WalkOK
    <3>2. {"settled_at"} \in SUBSET {"settled_at"}
      OBVIOUS
    <3>3. new(b) \in BetType
      BY <3>1, <3>2, WrittenRow
    <3> QED BY <3>1, <3>3, WalkWrites
  <2> HIDE DEF new, W
  <2>3. BetsOK'
    BY <2>1, <2>2 DEF LedgerIInv, BetsOK
  <2> QED BY <2>1, <2>3 DEF LedgerIInv, RequestsOK, WalkOK
<1>3. CASE WalkRollsBack
  BY <1>3 DEF WalkRollsBack, LedgerIInv, BetsOK, RequestsOK, WalkOK
<1>4. CASE Detach
  <2>1. /\ UNCHANGED <<request, walk, keeps, told>>
        /\ bet' = [b \in DOMAIN bet |-> [bet[b] EXCEPT !.event = FALSE]]
    BY <1>4 DEF Detach
  <2>2. \A row \in BetType : LET new == [row EXCEPT !.event = FALSE] IN
          /\ new \in BetType /\ new.status = row.status
          /\ new.payout = row.payout /\ new.settled_at = row.settled_at
    BY DEF BetType
  <2>3. /\ bet' = [b \in DOMAIN bet' |-> bet'[b]] /\ DOMAIN bet' = DOMAIN bet
        /\ \A b \in DOMAIN bet :
             /\ bet'[b] \in BetType /\ bet'[b].status = bet[b].status
             /\ bet'[b].payout = bet[b].payout /\ bet'[b].settled_at = bet[b].settled_at
    BY <2>1, <2>2 DEF LedgerIInv, BetsOK
  <2>4. BetsOK'
    BY <2>1, <2>3 DEF LedgerIInv, BetsOK, Sound
  <2> QED BY <2>1, <2>4 DEF LedgerIInv, RequestsOK, WalkOK
<1> QED BY <1>1, <1>2, <1>3, <1>4

THEOREM LedgerInductive == LedgerSpec => []LedgerIInv
<1>1. LedgerInit => LedgerIInv
  <2> SUFFICES ASSUME LedgerInit PROVE LedgerIInv
    OBVIOUS
  <2>1. PICK B \in SUBSET Bets :
          bet \in [B -> [owner : Bettors, type : Types, event : BOOLEAN, status : {"open"},
                         settled_at : {None}, payout : {None}]]
    <3>1. CASE keeps
      <4>1. DOMAIN bet = {} /\ bet = [b \in {} |-> bet[b]]
        BY <3>1 DEF LedgerInit
      <4> QED BY <4>1
    <3>2. CASE ~keeps
      BY <3>2 DEF LedgerInit
    <3> QED BY <3>1, <3>2
  <2>2. BetsOK
    BY <2>1 DEF BetsOK, BetType, BetStatuses, Sound
  <2> QED BY <2>2 DEF LedgerInit, LedgerIInv, RequestsOK, WalkOK
<1>2. LedgerIInv /\ UNCHANGED ledgerVars => LedgerIInv'
  BY DEF ledgerVars, LedgerIInv, BetsOK, RequestsOK, WalkOK
<1>3. LedgerIInv /\ [LedgerNext]_ledgerVars => LedgerIInv'
  BY <1>2, RequestKeeps, CloseKeeps, WalkKeeps DEF LedgerNext
<1> QED BY <1>1, <1>3, PTL DEF LedgerSpec

(* What a bet, a request and a walk hold is of its type; and where only the  *)
(* walk writes, no money of a settled bet is lost from the summary, which    *)
(* counts a missing payout as nothing won (api/bets.py:181).                 *)
THEOREM LedgerTypeCorrect ==
  LedgerSpec => [](LedgerTypeOK /\ (~keeps => SettledHasPayout))
<1>1. LedgerIInv => LedgerTypeOK /\ (~keeps => SettledHasPayout)
  BY DEF LedgerIInv, BetsOK, RequestsOK, WalkOK, LedgerTypeOK, SettledHasPayout, Sound
<1> QED BY <1>1, LedgerInductive, PTL

(* A stake for each bet.                                                    *)
LEMMA SumOfStakes ==
  ASSUME NEW S, IsFiniteSet(S)
  PROVE  SumFunctionOnSet([b \in S |-> Stake], S) = Stake * Cardinality(S)
<1> DEFINE f == [b \in S |-> Stake]
           P == {A \in SUBSET S : SumFunctionOnSet(f, A) = Stake * Cardinality(A)}
<1>1. SumLaws(f, S)
  <2>1. f \in [S -> Int]
    BY DEF Stake
  <2> HIDE DEF f
  <2> QED BY <2>1, SumFacts
<1>2. ASSUME NEW A \in SUBSET S, \A x \in A : A \ {x} \in P
      PROVE  SumFunctionOnSet(f, A) = Stake * Cardinality(A)
  <2>1. CASE A = {}
    <3>1. SumFunctionOnSet(f, A) = 0
      BY <1>1, <2>1 DEF SumLaws
    <3>2. Cardinality(A) = 0
      BY <2>1, FS_EmptySet
    <3> QED BY <3>1, <3>2 DEF Stake
  <2>2. CASE A # {}
    <3>1. PICK x \in A : TRUE
      BY <2>2
    <3>2. f[x] = 2
      BY <3>1 DEF Stake
    <3> HIDE DEF f
    <3>3. SumFunctionOnSet(f, A) = 2 + SumFunctionOnSet(f, A \ {x})
      BY <1>1, <3>1, <3>2 DEF SumLaws, TakesAny
    <3>4. SumFunctionOnSet(f, A \ {x}) = 2 * Cardinality(A \ {x})
      BY <1>2, <3>1 DEF Stake
    <3>5. IsFiniteSet(A) /\ Cardinality(A) \in Nat
      BY FS_Subset, FS_CardinalityType
    <3>6. Cardinality(A \ {x}) = Cardinality(A) - 1
      BY <3>1, <3>5, FS_RemoveElement
    <3> QED BY <3>3, <3>4, <3>5, <3>6 DEF Stake
  <2> QED BY <2>1, <2>2
<1>3. SUBSET S \subseteq P
  <2>1. \A A \in SUBSET S : (\A x \in A : A \ {x} \in P) => A \in P
    BY <1>2
  <2> HIDE DEF P
  <2> QED BY <2>1, GrowsToAll
<1> QED BY <1>3

(* The settled bets of a user, by type and by status.                       *)
LEMMA SettledByType ==
  ASSUME LedgerTypeOK, NEW u \in Bettors
  PROVE  LET S == Listed(u, "settled") IN
         /\ IsFiniteSet(S) /\ S \subseteq DOMAIN bet
         /\ [b \in S |-> bet[b].type] \in [S -> Types]
         /\ \A t \in Types : Bucket(u, t) = {b \in S : bet[b].type = t}
<1>1. Listed(u, "settled") \subseteq DOMAIN bet
  BY DEF Listed, Mine
<1>2. IsFiniteSet(Listed(u, "settled"))
  BY <1>1, LedgerAssumption, FS_Subset DEF LedgerTypeOK
<1>3. \A b \in DOMAIN bet : bet[b].type \in Types
  BY DEF LedgerTypeOK, BetType
<1> QED BY <1>1, <1>2, <1>3 DEF Bucket

LEMMA CountsAddUp ==
  ASSUME LedgerTypeOK, NEW u \in Bettors
  PROVE  Summary(u).total = Summary(u).open + Summary(u).settled
<1> DEFINE settled == UNION {Listed(u, s) : s \in BetStatuses \ {"open"}}
           open == Listed(u, "open")
<1>1. \A s \in BetStatuses : Listed(u, s) = {b \in Mine(u) : bet[b].status = s}
  BY DEF BetStatuses, Listed
<1>2. \A b \in Mine(u) : bet[b].status \in BetStatuses
  BY DEF Mine, LedgerTypeOK, BetType
<1>3. Mine(u) = open \cup settled /\ open \cap settled = {}
  <2>1. open = {b \in Mine(u) : bet[b].status = "open"}
    BY <1>1 DEF BetStatuses
  <2>2. settled = {b \in Mine(u) : bet[b].status # "open"}
    BY <1>1, <1>2
  <2> QED BY <2>1, <2>2
<1>4. IsFiniteSet(Mine(u))
  BY LedgerAssumption, FS_Subset DEF Mine, LedgerTypeOK
<1> HIDE DEF open, settled
<1>5. IsFiniteSet(open) /\ IsFiniteSet(settled)
  BY <1>3, <1>4, FS_Subset
<1>6. Cardinality(open \cup settled)
        = Cardinality(open) + Cardinality(settled) - Cardinality(open \cap settled)
  BY <1>5, FS_Union
<1>7. Cardinality(open \cap settled) = 0
  BY <1>3, FS_EmptySet
<1>8. Cardinality(open) \in Nat /\ Cardinality(settled) \in Nat
  BY <1>5, FS_CardinalityType
<1>9. Cardinality(Mine(u)) = Cardinality(open) + Cardinality(settled)
  BY <1>3, <1>6, <1>7, <1>8
<1> QED BY <1>9 DEF Summary, open, settled

LEMMA PayoutsAddUp ==
  ASSUME LedgerTypeOK, NEW u \in Bettors
  PROVE  Summary(u).paid = SumFunction([t \in Types |-> Paid(Bucket(u, t))])
<1> DEFINE S == Listed(u, "settled")
           kind == [b \in S |-> bet[b].type]
           f == [b \in S |-> Amount(bet[b].payout)]
           part(t) == {b \in S : kind[b] = t}
<1>1. /\ IsFiniteSet(S) /\ kind \in [S -> Types]
      /\ \A t \in Types : Bucket(u, t) = part(t)
  BY SettledByType
<1>2. f \in [S -> Int]
  BY DEF Amount, Stake
<1>3. Summary(u).paid = SumFunctionOnSet(f, S)
  BY DEF Summary, Paid, SumFunction
<1>4. ASSUME NEW t \in Types PROVE Paid(Bucket(u, t)) = SumFunctionOnSet(f, part(t))
  <2> DEFINE B == part(t)  e == [b \in B |-> Amount(bet[b].payout)]
  <2>1. Bucket(u, t) = B /\ B \subseteq S
    BY <1>1
  <2>2. Paid(B) = SumFunctionOnSet(e, B)
    BY DEF Paid, SumFunction
  <2>3. \A b \in B : f[b] \in Int /\ e[b] = f[b]
    BY <1>2, <2>1
  <2>4. IsFiniteSet(B)
    BY <1>1, <2>1, FS_Subset
  <2> HIDE DEF B, e, f
  <2>5. SumFunctionOnSet(f, B) = SumFunctionOnSet(e, B)
    BY <2>3, <2>4, SumOfEquals
  <2> QED BY <2>1, <2>2, <2>5 DEF B
<1>5. [t \in Types |-> Paid(Bucket(u, t))] = [t \in Types |-> SumFunctionOnSet(f, part(t))]
  BY <1>4
<1>6. SumFunction([t \in Types |-> SumFunctionOnSet(f, part(t))]) = SumFunctionOnSet(f, S)
  <2>1. IsFiniteSet(Types)
    BY LedgerAssumption
  <2> HIDE DEF S, kind, f
  <2> QED BY <1>1, <1>2, <2>1, SumByKind
<1> QED BY <1>3, <1>5, <1>6

LEMMA StakesAddUp ==
  ASSUME LedgerTypeOK, NEW u \in Bettors
  PROVE  Summary(u).staked = SumFunction([t \in Types |-> Stake * Cardinality(Bucket(u, t))])
<1> DEFINE S == Listed(u, "settled")
           kind == [b \in S |-> bet[b].type]
           f == [b \in S |-> Stake]
           part(t) == {b \in S : kind[b] = t}
<1>1. /\ IsFiniteSet(S) /\ kind \in [S -> Types]
      /\ \A t \in Types : Bucket(u, t) = part(t)
  BY SettledByType
<1>2. f \in [S -> Int]
  BY DEF Stake
<1>3. Summary(u).staked = SumFunctionOnSet(f, S)
  <2>1. Summary(u).staked = Stake * Cardinality(S)
    BY DEF Summary
  <2> QED BY <1>1, <2>1, SumOfStakes
<1>4. ASSUME NEW t \in Types
      PROVE  Stake * Cardinality(Bucket(u, t)) = SumFunctionOnSet(f, part(t))
  <2> DEFINE B == part(t)  e == [b \in B |-> Stake]
  <2>1. Bucket(u, t) = B /\ B \subseteq S
    BY <1>1
  <2>2. IsFiniteSet(B)
    BY <1>1, <2>1, FS_Subset
  <2>3. \A b \in B : f[b] \in Int /\ e[b] = f[b]
    BY <1>2, <2>1
  <2>4. SumFunctionOnSet(e, B) = Stake * Cardinality(B)
    <3> HIDE DEF B
    <3> QED BY <2>2, SumOfStakes
  <2> HIDE DEF B, e, f
  <2>5. SumFunctionOnSet(f, B) = SumFunctionOnSet(e, B)
    BY <2>2, <2>3, SumOfEquals
  <2> QED BY <2>1, <2>4, <2>5 DEF B
<1>5. [t \in Types |-> Stake * Cardinality(Bucket(u, t))]
        = [t \in Types |-> SumFunctionOnSet(f, part(t))]
  BY <1>4
<1>6. SumFunction([t \in Types |-> SumFunctionOnSet(f, part(t))]) = SumFunctionOnSet(f, S)
  <2>1. IsFiniteSet(Types)
    BY LedgerAssumption
  <2> HIDE DEF S, kind, f
  <2> QED BY <1>1, <1>2, <2>1, SumByKind
<1> QED BY <1>3, <1>5, <1>6

(* The summary of a user leaves out no bet and no money, for any bets and    *)
(* any bodies the API takes (api/bets.py:149-275): its counts and its        *)
(* buckets add up; and under the session of db.py, where only the walk       *)
(* writes, every settled bet has its payout.                                 *)
THEOREM SummariesAddUp == LedgerSpec => []SummaryAddsUp
<1>1. LedgerTypeOK /\ (~keeps => SettledHasPayout) => SummaryAddsUp
  BY CountsAddUp, PayoutsAddUp, StakesAddUp DEF SummaryAddsUp
<1> QED BY <1>1, LedgerTypeCorrect, PTL
-----------------------------------------------------------------------------
(* League tables                                                            *)

(* What has been finished has a result.                                     *)
TablesTypeOK == result \in [Games -> Results \cup {None}]

LEMMA TablesTyped ==
  TablesSpec => []TablesTypeOK
<1>1. TablesInit => TablesTypeOK
  BY DEF TablesInit, TablesTypeOK
<1>2. TablesTypeOK /\ [TablesNext]_result => TablesTypeOK'
  BY DEF TablesTypeOK, TablesNext, FinalizeGame
<1> QED BY <1>1, <1>2, PTL DEF TablesSpec

(* What a game with a result is.                                            *)
LEMMA GameFacts ==
  ASSUME TablesTypeOK, NEW g \in Finished
  PROVE  /\ g \in Games /\ g \in Nat /\ Kickoff[g] \in Nat
         /\ Home[g] \in Teams /\ Away[g] \in Teams /\ Home[g] # Away[g]
         /\ WinnerCode(g) \in {1, 2, 3, None}
         /\ OrZero(result[g].home) \in Nat /\ OrZero(result[g].away) \in Nat
<1>1. result[g] \in Results /\ g \in Games
  BY DEF TablesTypeOK, Finished
<1>2. result[g].home \in Nat \cup {None} /\ result[g].away \in Nat \cup {None}
  BY <1>1, TablesAssumption
<1>3. OrZero(result[g].home) \in Nat /\ OrZero(result[g].away) \in Nat
  BY <1>2 DEF OrZero
<1>4. WinnerCode(g) \in {1, 2, 3, None}
  BY DEF WinnerCode
<1> QED BY <1>1, <1>3, <1>4, TablesAssumption

LEMMA PartsFinite ==
  ASSUME NEW G \in SUBSET Finished
  PROVE  IsFiniteSet(G) /\ G \subseteq Games
<1>1. G \subseteq Games
  BY DEF Finished
<1> QED BY <1>1, FS_Subset, TablesAssumption

(* A team's statistics, of two sets of games and of one game.               *)
IsRow(row) ==
  /\ row.played \in Nat /\ row.wins \in Nat /\ row.draws \in Nat /\ row.losses \in Nat
  /\ row.goals_for \in Int /\ row.goals_against \in Int
RowAdds(all, one, other) ==
  /\ all.played = one.played + other.played
  /\ all.wins = one.wins + other.wins
  /\ all.draws = one.draws + other.draws
  /\ all.losses = one.losses + other.losses
  /\ all.goals_for = one.goals_for + other.goals_for
  /\ all.goals_against = one.goals_against + other.goals_against

LEMMA GoalsAreInt ==
  ASSUME TablesTypeOK, NEW t, NEW G \in SUBSET Finished
  PROVE  /\ [g \in G |-> Scored(t, g)] \in [G -> Int]
         /\ [g \in G |-> Conceded(t, g)] \in [G -> Int]
<1>1. ASSUME NEW g \in G PROVE Scored(t, g) \in Int /\ Conceded(t, g) \in Int
  <2>1. OrZero(result[g].home) \in Nat /\ OrZero(result[g].away) \in Nat
    BY GameFacts
  <2> QED BY <2>1 DEF Scored, Conceded
<1> QED BY <1>1

LEMMA LettersAdd ==
  ASSUME NEW t, NEW A, NEW B, IsFiniteSet(A), IsFiniteSet(B), A \cap B = {}, NEW letter
  PROVE  /\ Letters(t, A \cup B, letter) = Letters(t, A, letter) + Letters(t, B, letter)
         /\ Letters(t, A, letter) \in Nat
<1> DEFINE In(G) == {g \in G : Letter(t, g) = letter}
<1>1. /\ In(A \cup B) = In(A) \cup In(B) /\ In(A) \cap In(B) = {}
      /\ In(A) \subseteq A /\ In(B) \subseteq B
  OBVIOUS
<1>2. IsFiniteSet(In(A)) /\ IsFiniteSet(In(B))
  BY <1>1, FS_Subset
<1>3. \A G : Letters(t, G, letter) = Cardinality(In(G))
  BY DEF Letters
<1> HIDE DEF In
<1>4. /\ Cardinality(In(A) \cup In(B)) = Cardinality(In(A)) + Cardinality(In(B))
      /\ Cardinality(In(A)) \in Nat
  BY <1>1, <1>2, CountApart
<1>5. Cardinality(In(A \cup B)) = Cardinality(In(A)) + Cardinality(In(B))
  BY <1>1, <1>4
<1> QED BY <1>3, <1>4, <1>5

LEMMA StatsAdd ==
  ASSUME TablesTypeOK, NEW t,
         NEW A \in SUBSET Finished, NEW B \in SUBSET Finished, A \cap B = {}
  PROVE  /\ RowAdds(SeasonStats(t, A \cup B), SeasonStats(t, A), SeasonStats(t, B))
         /\ IsRow(SeasonStats(t, A))
<1>1. IsFiniteSet(A) /\ IsFiniteSet(B) /\ A \cup B \in SUBSET Finished
  BY PartsFinite
<1>2. /\ Cardinality(A \cup B) = Cardinality(A) + Cardinality(B)
      /\ Cardinality(A) \in Nat
  BY <1>1, CountApart
<1>3. ASSUME NEW letter
      PROVE  /\ Letters(t, A \cup B, letter) = Letters(t, A, letter) + Letters(t, B, letter)
             /\ Letters(t, A, letter) \in Nat
  BY <1>1, LettersAdd
<1> DEFINE for(G) == [g \in G |-> Scored(t, g)]
           against(G) == [g \in G |-> Conceded(t, g)]
<1>4. /\ for(A) \in [A -> Int] /\ against(A) \in [A -> Int]
      /\ for(B) \in [B -> Int] /\ against(B) \in [B -> Int]
      /\ for(A \cup B) \in [A \cup B -> Int] /\ against(A \cup B) \in [A \cup B -> Int]
  BY <1>1, GoalsAreInt
<1>5. /\ \A g \in A : for(A \cup B)[g] = for(A)[g] /\ against(A \cup B)[g] = against(A)[g]
      /\ \A g \in B : for(A \cup B)[g] = for(B)[g] /\ against(A \cup B)[g] = against(B)[g]
  OBVIOUS
<1>6. \A G : /\ SeasonStats(t, G).played = Cardinality(G)
             /\ SeasonStats(t, G).wins = Letters(t, G, "W")
             /\ SeasonStats(t, G).draws = Letters(t, G, "D")
             /\ SeasonStats(t, G).losses = Letters(t, G, "L")
             /\ SeasonStats(t, G).goals_for = SumFunction(for(G))
             /\ SeasonStats(t, G).goals_against = SumFunction(against(G))
  BY DEF SeasonStats
<1> HIDE DEF for, against
<1>7. SumFunction(for(A \cup B)) = SumFunction(for(A)) + SumFunction(for(B))
  <2>1. Parted(A, B, for(A \cup B), for(A), for(B))
    BY <1>1, <1>4, <1>5 DEF Parted
  <2> QED BY <2>1, SumApart
<1>8. SumFunction(against(A \cup B)) = SumFunction(against(A)) + SumFunction(against(B))
  <2>1. Parted(A, B, against(A \cup B), against(A), against(B))
    BY <1>1, <1>4, <1>5 DEF Parted
  <2> QED BY <2>1, SumApart
<1>9. SumFunction(for(A)) \in Int /\ SumFunction(against(A)) \in Int
  BY <1>1, <1>4, SumIsInt
<1> QED BY <1>2, <1>3, <1>6, <1>7, <1>8, <1>9 DEF RowAdds, IsRow

(* A team's games are those it has at home and those it has away.           *)
LEMMA HomeAndAway ==
  ASSUME TablesTypeOK, NEW t, NEW G \in SUBSET Finished
  PROVE  /\ Of(t, G) = HomeGames(t, G) \cup AwayGames(t, G) /\ HomeGames(t, G) \cap AwayGames(t, G) = {}
         /\ Of(t, G) \in SUBSET Finished
         /\ HomeGames(t, G) \in SUBSET Finished /\ AwayGames(t, G) \in SUBSET Finished
         /\ IsFiniteSet(HomeGames(t, G)) /\ IsFiniteSet(AwayGames(t, G))
<1>1. HomeGames(t, G) \in SUBSET Finished /\ AwayGames(t, G) \in SUBSET Finished
  BY DEF HomeGames, AwayGames
<1>2. HomeGames(t, G) \cap AwayGames(t, G) = {}
  BY GameFacts DEF HomeGames, AwayGames
<1>3. IsFiniteSet(HomeGames(t, G)) /\ IsFiniteSet(AwayGames(t, G))
  BY <1>1, PartsFinite
<1> QED BY <1>1, <1>2, <1>3 DEF Of

LEMMA LetterOfWinner ==
  ASSUME TablesTypeOK, NEW t, NEW g \in Finished
  PROVE  /\ Letter(t, g) = "D" <=> WinnerCode(g) = 3
         /\ Home[g] = t => /\ Letter(t, g) = "W" <=> WinnerCode(g) = 1
                           /\ Letter(t, g) = "L" <=> WinnerCode(g) = 2
         /\ Away[g] = t => /\ Letter(t, g) = "W" <=> WinnerCode(g) = 2
                           /\ Letter(t, g) = "L" <=> WinnerCode(g) = 1
         /\ Letter(t, g) \in {"W", "D", "L", "-"}
         /\ Letter(t, g) = "-" <=> WinnerCode(g) = None
<1>1. WinnerCode(g) \in {1, 2, 3, None} /\ Home[g] # Away[g] /\ None \notin {1, 2, 3}
  BY GameFacts, TablesAssumption
<1> QED BY <1>1 DEF Letter

LEMMA LettersByVenue ==
  ASSUME TablesTypeOK, NEW t, NEW G \in SUBSET Finished,
         NEW letter, NEW home, NEW away,
         \A g \in HomeGames(t, G) : Letter(t, g) = letter <=> WinnerCode(g) = home,
         \A g \in AwayGames(t, G) : Letter(t, g) = letter <=> WinnerCode(g) = away
  PROVE  Letters(t, Of(t, G), letter) = Won(HomeGames(t, G), home) + Won(AwayGames(t, G), away)
<1> DEFINE A == {g \in HomeGames(t, G) : WinnerCode(g) = home}
           B == {g \in AwayGames(t, G) : WinnerCode(g) = away}
           C == {g \in Of(t, G) : Letter(t, g) = letter}
<1>1. C = A \cup B
  BY HomeAndAway
<1>2. A \cap B = {} /\ A \subseteq HomeGames(t, G) /\ B \subseteq AwayGames(t, G)
  BY HomeAndAway
<1>3. IsFiniteSet(A) /\ IsFiniteSet(B)
  BY <1>2, HomeAndAway, FS_Subset
<1>4. /\ Letters(t, Of(t, G), letter) = Cardinality(C)
      /\ Won(HomeGames(t, G), home) = Cardinality(A) /\ Won(AwayGames(t, G), away) = Cardinality(B)
  BY DEF Letters, Won
<1> HIDE DEF A, B, C
<1> QED BY <1>1, <1>2, <1>3, <1>4, CountApart

LEMMA StandingIsStats ==
  ASSUME TablesTypeOK, NEW t, NEW G \in SUBSET Finished
  PROVE  Standing(t, G) = SeasonStats(t, Of(t, G))
<1> DEFINE A == HomeGames(t, G)  B == AwayGames(t, G)  C == Of(t, G)
<1>0. /\ C = A \cup B /\ A \cap B = {} /\ IsFiniteSet(A) /\ IsFiniteSet(B)
      /\ A \in SUBSET Finished /\ B \in SUBSET Finished /\ C \in SUBSET Finished
  BY HomeAndAway
<1>1. /\ \A g \in A : g \in Finished /\ Home[g] = t
      /\ \A g \in B : g \in Finished /\ Away[g] = t /\ Home[g] # t
  BY GameFacts DEF HomeGames, AwayGames
<1>2. Cardinality(C) = Cardinality(A) + Cardinality(B)
  <2> HIDE DEF A, B, C
  <2> QED BY <1>0, CountApart
<1>3. Letters(t, C, "W") = Won(A, 1) + Won(B, 2)
  BY <1>1, LetterOfWinner, LettersByVenue
<1>4. Letters(t, C, "D") = Won(A, 3) + Won(B, 3)
  BY <1>1, LetterOfWinner, LettersByVenue
<1>5. Letters(t, C, "L") = Won(A, 2) + Won(B, 1)
  BY <1>1, LetterOfWinner, LettersByVenue
<1> DEFINE for == [g \in C |-> Scored(t, g)]  against == [g \in C |-> Conceded(t, g)]
           homeOf(G2) == [g \in G2 |-> OrZero(result[g].home)]
           awayOf(G2) == [g \in G2 |-> OrZero(result[g].away)]
<1>6. for \in [C -> Int] /\ against \in [C -> Int]
  BY <1>0, GoalsAreInt
<1>7. ASSUME NEW G2 \in SUBSET Finished
      PROVE  homeOf(G2) \in [G2 -> Int] /\ awayOf(G2) \in [G2 -> Int]
  BY GameFacts
<1>8. /\ \A g \in A : for[g] = homeOf(A)[g] /\ against[g] = awayOf(A)[g]
      /\ \A g \in B : for[g] = awayOf(B)[g] /\ against[g] = homeOf(B)[g]
  BY <1>0, <1>1 DEF Scored, Conceded
<1>9. Parted(A, B, for, homeOf(A), awayOf(B)) /\ Parted(A, B, against, awayOf(A), homeOf(B))
  <2> HIDE DEF A, B, C, for, against, homeOf, awayOf
  <2> QED BY <1>0, <1>6, <1>7, <1>8 DEF Parted
<1>10. /\ SumFunction(for) = HomeGoals(A) + AwayGoals(B)
       /\ SumFunction(against) = AwayGoals(A) + HomeGoals(B)
  BY <1>9, SumApart DEF HomeGoals, AwayGoals
<1> QED BY <1>2, <1>3, <1>4, <1>5, <1>10 DEF Standing, SeasonStats

(* The pages on one team count the same games.                              *)
LEMMA PagesCountTheSame ==
  ASSUME TablesTypeOK PROVE PagesAgree
<1> SUFFICES ASSUME NEW t \in Table(Finished)
             PROVE  LET mine == Of(t, Finished)
                        split == Split(t, mine)
                    IN /\ Standing(t, Finished) = SeasonStats(t, mine)
                       /\ \A c \in DOMAIN SeasonStats(t, mine) :
                            split.home[c] + split.away[c] = SeasonStats(t, mine)[c]
                       /\ \A c \in {"played", "goals_for", "goals_against"} :
                            Profile(t, mine)[c] = Standing(t, Finished)[c]
  BY DEF PagesAgree
<1> DEFINE mine == Of(t, Finished)  home == HomeGames(t, mine)  away == mine \ HomeGames(t, mine)
<1>1. Standing(t, Finished) = SeasonStats(t, mine)
  BY StandingIsStats
<1>2. /\ home \in SUBSET Finished /\ away \in SUBSET Finished
      /\ home \cap away = {} /\ home \cup away = mine
  BY HomeAndAway DEF HomeGames
<1>3. RowAdds(SeasonStats(t, mine), SeasonStats(t, home), SeasonStats(t, away))
  <2> HIDE DEF home, away, mine
  <2> QED BY <1>2, StatsAdd
<1>4. ASSUME NEW c \in DOMAIN SeasonStats(t, mine)
      PROVE  SeasonStats(t, home)[c] + SeasonStats(t, away)[c] = SeasonStats(t, mine)[c]
  <2>1. c \in {"played", "wins", "draws", "losses", "goals_for", "goals_against"}
    BY DEF SeasonStats
  <2> HIDE DEF home, away, mine
  <2> QED BY <1>3, <2>1 DEF RowAdds
<1>5. /\ Split(t, mine).home = SeasonStats(t, home)
      /\ Split(t, mine).away = SeasonStats(t, away)
  BY DEF Split
<1>6. \A c \in {"played", "goals_for", "goals_against"} :
        Profile(t, mine)[c] = SeasonStats(t, mine)[c]
  BY DEF Profile, SeasonStats
<1> QED BY <1>1, <1>4, <1>5, <1>6
-----------------------------------------------------------------------------
(* The places in a strict order of a finite set.                            *)
Orders(R, S) ==
  /\ \A x \in S : <<x, x>> \notin R
  /\ \A x, y \in S : x # y => <<x, y>> \in R \/ <<y, x>> \in R
  /\ \A x, y, z \in S : <<x, y>> \in R /\ <<y, z>> \in R => <<x, z>> \in R
AheadOf(R, S, x) == {y \in S : <<y, x>> \in R}
Place(R, S) == [x \in S |-> 1 + Cardinality(AheadOf(R, S, x))]

LEMMA PlacesGrow ==
  ASSUME NEW S, IsFiniteSet(S), NEW R, Orders(R, S), NEW x \in S
  PROVE  /\ Place(R, S)[x] \in 1 .. Cardinality(S)
         /\ \A y \in S : <<y, x>> \in R => Place(R, S)[y] < Place(R, S)[x]
<1> DEFINE before(z) == AheadOf(R, S, z)
<1>1. \A z \in S : IsFiniteSet(before(z)) /\ Cardinality(before(z)) \in Nat
  <2>1. \A z \in S : before(z) \in SUBSET S
    BY DEF AheadOf
  <2> QED BY <2>1, FS_Subset, FS_CardinalityType
<1>2. Cardinality(before(x)) <= Cardinality(S) - 1
  <2>1. before(x) \in SUBSET (S \ {x})
    BY DEF AheadOf, Orders
  <2>2. IsFiniteSet(S \ {x}) /\ Cardinality(S \ {x}) = Cardinality(S) - 1
    BY FS_RemoveElement
  <2> HIDE DEF before
  <2> QED BY <2>1, <2>2, FS_Subset
<1>3. ASSUME NEW y \in S, <<y, x>> \in R
      PROVE  Cardinality(before(y)) < Cardinality(before(x))
  <2>1. before(y) \cup {y} \in SUBSET before(x) /\ y \notin before(y)
    BY <1>3 DEF AheadOf, Orders
  <2> HIDE DEF before
  <2>2. Cardinality(before(y) \cup {y}) = Cardinality(before(y)) + 1
    BY <1>1, <2>1, FS_AddElement
  <2>3. Cardinality(before(y) \cup {y}) <= Cardinality(before(x))
    BY <1>1, <2>1, FS_Subset
  <2> QED BY <1>1, <2>2, <2>3
<1>4. \A z \in S : Place(R, S)[z] = 1 + Cardinality(before(z))
  BY DEF Place
<1>5. Cardinality(S) \in Nat
  BY FS_CardinalityType
<1> HIDE DEF before
<1> QED BY <1>1, <1>2, <1>3, <1>4, <1>5

LEMMA PlacesAreWhole ==
  ASSUME NEW S, IsFiniteSet(S), NEW R, Orders(R, S)
  PROVE  Place(R, S) \in Bijection(S, 1 .. Cardinality(S))
<1> DEFINE r == Place(R, S)  D == 1 .. Cardinality(S)
<1>1. r \in [S -> D]
  <2>1. r = [x \in S |-> r[x]]
    BY DEF Place
  <2> QED BY <2>1, PlacesGrow
<1>2. \A x, y \in S : x # y => r[x] # r[y]
  <2> SUFFICES ASSUME NEW x \in S, NEW y \in S, x # y PROVE r[x] # r[y]
    OBVIOUS
  <2>1. r[x] \in Int /\ r[y] \in Int
    BY <1>1
  <2>2. r[x] < r[y] \/ r[y] < r[x]
    BY PlacesGrow DEF Orders
  <2> QED BY <2>1, <2>2
<1>3. r \in Injection(S, D)
  BY <1>1, <1>2 DEF Injection, IsInjective
<1>4. IsFiniteSet(D) /\ Cardinality(D) = Cardinality(S)
  BY FS_CardinalityType, FS_Interval
<1> HIDE DEF r, D
<1>5. r \in Surjection(S, D)
  BY <1>3, <1>4, FS_Injection
<1> QED BY <1>3, <1>5 DEF Bijection, r, D

(* As many are among the first k as there are places.                       *)
LEMMA FirstPlaces ==
  ASSUME NEW S, IsFiniteSet(S), NEW R, Orders(R, S), NEW k \in 0 .. Cardinality(S)
  PROVE  Cardinality({x \in S : Place(R, S)[x] <= k}) = k
<1> DEFINE r == Place(R, S)  F == {x \in S : r[x] <= k}  f == [x \in F |-> r[x]]
<1>0. Cardinality(S) \in Nat /\ k \in Nat
  BY FS_CardinalityType
<1>1. r \in Bijection(S, 1 .. Cardinality(S))
  BY PlacesAreWhole
<1> HIDE DEF r
<1>2. f \in [F -> 1 .. k]
  BY <1>0, <1>1 DEF Bijection, Injection
<1>3. \A x, y \in F : f[x] = f[y] => x = y
  BY <1>1 DEF Bijection, Injection, IsInjective
<1>4. \A i \in 1 .. k : \E x \in F : f[x] = i
  BY <1>0, <1>1 DEF Bijection, Surjection
<1>5. f \in Bijection(F, 1 .. k)
  BY <1>2, <1>3, <1>4 DEF Bijection, Injection, Surjection, IsInjective
<1>6. IsFiniteSet(F)
  BY FS_Subset
<1>7. Cardinality(1 .. k) = k
  BY <1>0, FS_Interval
<1> HIDE DEF F, f
<1>8. Cardinality(1 .. k) = Cardinality(F)
  BY <1>5, <1>6, FS_Bijection DEF ExistsBijection
<1> QED BY <1>7, <1>8 DEF F, r

(* The table ranks by such an order.                                        *)
LEMMA StandingIsRow ==
  ASSUME TablesTypeOK, NEW t, NEW G \in SUBSET Finished
  PROVE  IsRow(Standing(t, G))
<1>1. Of(t, G) \in SUBSET Finished /\ {} \in SUBSET Finished
  BY HomeAndAway
<1>2. IsRow(SeasonStats(t, Of(t, G)))
  BY <1>1, StatsAdd
<1> QED BY <1>2, StandingIsStats

AheadIn(G) == {p \in Teams \X Teams : Ahead(p[1], p[2], G)}

LEMMA TableIsOrdered ==
  ASSUME TablesTypeOK, NEW G \in SUBSET Finished
  PROVE  Orders(AheadIn(G), Table(G)) /\ IsFiniteSet(Table(G))
<1> DEFINE p(t) == TablePoints(Standing(t, G))  d(t) == Difference(Standing(t, G))
           g(t) == Standing(t, G).goals_for
<1>1. \A t \in Teams : p(t) \in Int /\ d(t) \in Int /\ g(t) \in Int /\ t \in Int
  BY StandingIsRow, TablesAssumption DEF IsRow, TablePoints, Difference
<1>2. \A u, t \in Teams : <<u, t>> \in AheadIn(G) <=>
        \/ p(u) > p(t)
        \/ p(u) = p(t) /\ d(u) > d(t)
        \/ p(u) = p(t) /\ d(u) = d(t) /\ g(u) > g(t)
        \/ p(u) = p(t) /\ d(u) = d(t) /\ g(u) = g(t) /\ u < t
  BY DEF AheadIn, Ahead
<1>3. Table(G) \subseteq Teams
  BY DEF Table
<1> HIDE DEF p, d, g
<1>4. \A x \in Table(G) : <<x, x>> \notin AheadIn(G)
  BY <1>1, <1>2, <1>3
<1>5. \A x, y \in Table(G) : x # y => <<x, y>> \in AheadIn(G) \/ <<y, x>> \in AheadIn(G)
  BY <1>1, <1>2, <1>3
<1>6. \A x, y, z \in Table(G) :
        <<x, y>> \in AheadIn(G) /\ <<y, z>> \in AheadIn(G) => <<x, z>> \in AheadIn(G)
  <2> SUFFICES ASSUME NEW x \in Table(G), NEW y \in Table(G), NEW z \in Table(G),
                      <<x, y>> \in AheadIn(G), <<y, z>> \in AheadIn(G)
               PROVE  <<x, z>> \in AheadIn(G)
    OBVIOUS
  <2> QED BY <1>1, <1>2, <1>3
<1>7. IsFiniteSet(Table(G))
  BY <1>3, FS_Subset, TablesAssumption
<1> QED BY <1>4, <1>5, <1>6, <1>7 DEF Orders

LEMMA RanksAreWhole ==
  ASSUME TablesTypeOK
  PROVE  {TableRank(t, Finished) : t \in Table(Finished)} = 1 .. Cardinality(Table(Finished))
<1> DEFINE S == Table(Finished)  R == AheadIn(Finished)  r == Place(R, S)
<1>1. \A t \in S : TableRank(t, Finished) = r[t]
  <2>1. ASSUME NEW t \in S PROVE {u \in S : Ahead(u, t, Finished)} = AheadOf(R, S, t)
    BY DEF Table, AheadIn, AheadOf
  <2> QED BY <2>1 DEF TableRank, Place
<1>2. r \in Bijection(S, 1 .. Cardinality(S))
  BY TableIsOrdered, PlacesAreWhole
<1> HIDE DEF r, S
<1>3. {r[t] : t \in S} = 1 .. Cardinality(S)
  BY <1>2 DEF Bijection, Injection, Surjection
<1>4. {TableRank(t, Finished) : t \in S} = {r[t] : t \in S}
  BY <1>1
<1> QED BY <1>3, <1>4 DEF S
-----------------------------------------------------------------------------
(* What one game adds: the same to a team's row in every table it is in, to *)
(* no other team's.                                                         *)
(* What one game adds: the same to a team's row in every table it is in, to *)
(* no other team's.                                                        *)
LEMMA StatsOfOne ==
  ASSUME TablesTypeOK, NEW t, NEW g \in Finished
  PROVE  LET row == SeasonStats(t, {g}) IN
         /\ row.played = 1
         /\ row.wins = IF Letter(t, g) = "W" THEN 1 ELSE 0
         /\ row.draws = IF Letter(t, g) = "D" THEN 1 ELSE 0
         /\ row.losses = IF Letter(t, g) = "L" THEN 1 ELSE 0
         /\ row.goals_for = Scored(t, g) /\ row.goals_against = Conceded(t, g)
         /\ Scored(t, g) \in Int /\ Conceded(t, g) \in Int
<1>1. ASSUME NEW letter
      PROVE  Letters(t, {g}, letter) = IF Letter(t, g) = letter THEN 1 ELSE 0
  <2>1. {h \in {g} : Letter(t, h) = letter} = IF Letter(t, g) = letter THEN {g} ELSE {}
    OBVIOUS
  <2> QED BY <2>1, FS_Singleton, FS_EmptySet DEF Letters
<1> DEFINE for == [h \in {g} |-> Scored(t, h)]  against == [h \in {g} |-> Conceded(t, h)]
<1>2. for \in [{g} -> Int] /\ against \in [{g} -> Int]
  BY GoalsAreInt
<1>3. for[g] = Scored(t, g) /\ against[g] = Conceded(t, g)
  OBVIOUS
<1>4. /\ SeasonStats(t, {g}).goals_for = SumFunction(for)
      /\ SeasonStats(t, {g}).goals_against = SumFunction(against)
  BY DEF SeasonStats
<1> HIDE DEF for, against
<1>5. SumFunction(for) = for[g] /\ SumFunction(against) = against[g]
  BY <1>2, SumOfOne
<1>6. for[g] \in Int /\ against[g] \in Int
  BY <1>2
<1>7. Cardinality({g}) = 1
  BY FS_Singleton
<1> QED BY <1>1, <1>3, <1>4, <1>5, <1>6, <1>7 DEF SeasonStats

LEMMA StatsOfNone ==
  ASSUME TablesTypeOK, NEW t
  PROVE  LET row == SeasonStats(t, {}) IN
         /\ row.played = 0 /\ row.wins = 0 /\ row.draws = 0 /\ row.losses = 0
         /\ row.goals_for = 0 /\ row.goals_against = 0
<1> DEFINE none == {}
<1>1. none \in SUBSET Finished /\ none \cap none = {} /\ none \cup none = none
  OBVIOUS
<1> HIDE DEF none
<1>2. RowAdds(SeasonStats(t, none \cup none), SeasonStats(t, none), SeasonStats(t, none))
      /\ IsRow(SeasonStats(t, none))
  BY <1>1, StatsAdd
<1>3. RowAdds(SeasonStats(t, none), SeasonStats(t, none), SeasonStats(t, none))
  BY <1>1, <1>2
<1>4. LET row == SeasonStats(t, none) IN
      /\ row.played = 0 /\ row.wins = 0 /\ row.draws = 0 /\ row.losses = 0
      /\ row.goals_for = 0 /\ row.goals_against = 0
  <2>1. \A n : n \in Int /\ n = n + n => n = 0
    OBVIOUS
  <2> DEFINE row == SeasonStats(t, none)
  <2> HIDE DEF row
  <2>2. RowAdds(row, row, row) /\ IsRow(row)
    BY <1>2, <1>3 DEF row
  <2>3. /\ row.played = row.played + row.played /\ row.wins = row.wins + row.wins
        /\ row.draws = row.draws + row.draws /\ row.losses = row.losses + row.losses
        /\ row.goals_for = row.goals_for + row.goals_for
        /\ row.goals_against = row.goals_against + row.goals_against
    BY <2>2 DEF RowAdds
  <2>4. /\ row.played \in Int /\ row.wins \in Int /\ row.draws \in Int /\ row.losses \in Int
        /\ row.goals_for \in Int /\ row.goals_against \in Int
    BY <2>2 DEF IsRow
  <2>5. row.played = 0 /\ row.wins = 0
    BY <2>1, <2>3, <2>4, Zenon
  <2>6. row.draws = 0 /\ row.losses = 0
    BY <2>1, <2>3, <2>4, Zenon
  <2>7. row.goals_for = 0 /\ row.goals_against = 0
    BY <2>1, <2>3, <2>4, Zenon
  <2> QED BY <2>5, <2>6, <2>7 DEF row
<1> QED BY <1>4 DEF none

LEMMA GameAdds ==
  ASSUME TablesTypeOK, NEW G \in SUBSET Finished, NEW g \in Finished \ G, NEW t
  PROVE  /\ t \in {Home[g], Away[g]} =>
              /\ Of(t, G \cup {g}) = Of(t, G) \cup {g} /\ g \notin Of(t, G)
              /\ RowAdds(Standing(t, G \cup {g}), Standing(t, G), SeasonStats(t, {g}))
         /\ t \notin {Home[g], Away[g]} =>
              Of(t, G \cup {g}) = Of(t, G) /\ Standing(t, G \cup {g}) = Standing(t, G)
<1>1. /\ G \cup {g} \in SUBSET Finished /\ {g} \in SUBSET Finished
      /\ Of(t, G) \in SUBSET Finished /\ Of(t, G) \subseteq G
  BY HomeAndAway DEF Of, HomeGames, AwayGames
<1>2. /\ Standing(t, G) = SeasonStats(t, Of(t, G))
      /\ Standing(t, G \cup {g}) = SeasonStats(t, Of(t, G \cup {g}))
  BY <1>1, StandingIsStats
<1>3. CASE t \in {Home[g], Away[g]}
  <2>1. Of(t, G \cup {g}) = Of(t, G) \cup {g} /\ g \notin Of(t, G)
    BY <1>1, <1>3 DEF Of, HomeGames, AwayGames
  <2>2. Of(t, G) \cap {g} = {}
    BY <2>1
  <2>3. RowAdds(SeasonStats(t, Of(t, G) \cup {g}), SeasonStats(t, Of(t, G)), SeasonStats(t, {g}))
    BY <1>1, <2>2, StatsAdd
  <2> QED BY <1>2, <1>3, <2>1, <2>3
<1>4. CASE t \notin {Home[g], Away[g]}
  <2>1. Of(t, G \cup {g}) = Of(t, G)
    BY <1>4 DEF Of, HomeGames, AwayGames
  <2> QED BY <1>2, <1>4, <2>1
<1> QED BY <1>3, <1>4

(* What a game gives to one side it takes from the other.                   *)
LEMMA TablesCancel ==
  ASSUME TablesTypeOK, NEW G \in SUBSET Finished
  PROVE  /\ SumFunction([t \in Teams |-> Standing(t, G).wins - Standing(t, G).losses]) = 0
         /\ SumFunction([t \in Teams |-> Difference(Standing(t, G))]) = 0
<1> DEFINE won(H) == [t \in Teams |-> Standing(t, H).wins - Standing(t, H).losses]
           net(H) == [t \in Teams |-> Difference(Standing(t, H))]
           P == {H \in SUBSET G : SumFunction(won(H)) = 0 /\ SumFunction(net(H)) = 0}
<1>0. IsFiniteSet(Teams) /\ IsFiniteSet(G)
  BY PartsFinite, TablesAssumption
<1>1. ASSUME NEW H \in SUBSET G, \A g \in H : H \ {g} \in P
      PROVE  H \in P
  <2>1. CASE H = {}
    <3>1. ASSUME NEW t \in Teams
          PROVE  won(H)[t] = 0 /\ net(H)[t] = 0
      <4>1. Of(t, {}) = {}
        BY DEF Of, HomeGames, AwayGames
      <4>2. Standing(t, {}) = SeasonStats(t, {})
        BY <4>1, StandingIsStats
      <4> QED BY <2>1, <4>2, StatsOfNone DEF Difference
    <3>2. won(H) = [t \in Teams |-> 0] /\ net(H) = [t \in Teams |-> 0]
      BY <3>1
    <3> QED BY <1>0, <3>2, SumOfNothing
  <2>2. CASE H # {}
    <3>1. PICK g \in H : TRUE
      BY <2>2
    <3> DEFINE I == H \ {g}  a == Home[g]  b == Away[g]
    <3>2. /\ I \in SUBSET Finished /\ g \in Finished \ I /\ I \cup {g} = H
          /\ I \in P
      BY <1>1, <3>1
    <3>3. a \in Teams /\ b \in Teams /\ a # b
      BY <3>1, GameFacts
    <3> HIDE DEF I, a, b
    <3>4. ASSUME NEW t \in Teams
          PROVE  IsRow(Standing(t, H)) /\ IsRow(Standing(t, I))
      BY <3>2, StandingIsRow
    <3>5. /\ won(H) \in [Teams -> Int] /\ won(I) \in [Teams -> Int]
          /\ net(H) \in [Teams -> Int] /\ net(I) \in [Teams -> Int]
      BY <3>4 DEF IsRow, Difference
    <3>6. \A t \in Teams \ {a, b} : Standing(t, H) = Standing(t, I)
      BY <3>2, GameAdds DEF a, b
    <3>7. /\ RowAdds(Standing(a, H), Standing(a, I), SeasonStats(a, {g}))
          /\ RowAdds(Standing(b, H), Standing(b, I), SeasonStats(b, {g}))
      BY <3>2, GameAdds DEF a, b
    <3>8. LET x == SeasonStats(a, {g})
              y == SeasonStats(b, {g})
          IN /\ x.wins = y.losses /\ x.losses = y.wins
             /\ x.goals_for = y.goals_against /\ x.goals_against = y.goals_for
             /\ x.wins \in Int /\ x.losses \in Int
             /\ x.goals_for \in Int /\ x.goals_against \in Int
      <4>1. g \in Finished /\ Home[g] = a /\ Away[g] = b
        BY <3>2 DEF a, b
      <4>2. /\ Letter(a, g) = "W" <=> Letter(b, g) = "L"
            /\ Letter(a, g) = "L" <=> Letter(b, g) = "W"
        BY <4>1, LetterOfWinner
      <4>3. Scored(a, g) = Conceded(b, g) /\ Conceded(a, g) = Scored(b, g)
        BY <3>3, <4>1 DEF Scored, Conceded
      <4> QED BY <4>1, <4>2, <4>3, StatsOfOne
    <3> DEFINE d == SeasonStats(a, {g}).wins - SeasonStats(a, {g}).losses
               n == SeasonStats(a, {g}).goals_for - SeasonStats(a, {g}).goals_against
    <3>9. /\ d \in Int /\ n \in Int
          /\ won(H)[a] = won(I)[a] + d /\ won(H)[b] = won(I)[b] - d
          /\ net(H)[a] = net(I)[a] + n /\ net(H)[b] = net(I)[b] - n
          /\ \A t \in Teams \ {a, b} : won(H)[t] = won(I)[t] /\ net(H)[t] = net(I)[t]
      BY <3>3, <3>4, <3>6, <3>7, <3>8 DEF RowAdds, IsRow, Difference
    <3> HIDE DEF won, net, d, n
    <3>10. SumFunction(won(H)) = SumFunction(won(I))
      <4>1. Shifted(Teams, won(I), won(H), a, b, d)
        BY <1>0, <3>3, <3>5, <3>9 DEF Shifted
      <4> QED BY <4>1, SumShift
    <3>11. SumFunction(net(H)) = SumFunction(net(I))
      <4>1. Shifted(Teams, net(I), net(H), a, b, n)
        BY <1>0, <3>3, <3>5, <3>9 DEF Shifted
      <4> QED BY <4>1, SumShift
    <3> QED BY <3>2, <3>10, <3>11
  <2> QED BY <2>1, <2>2
<1>2. SUBSET G \subseteq P
  <2> HIDE DEF P
  <2> QED BY <1>0, <1>1, GrowsToAll
<1> QED BY <1>2
-----------------------------------------------------------------------------
(* The ratings, of any games with two sides.                                *)
ExpectedIsWhole == \A d \in Int : Expected(d) \in Int

Ratings ==
  {state \in [rating : [Teams -> Int], before : [Games -> (Int \X Int) \cup {None}]] :
     SumFunction(state.rating) = 0}

LEMMA EarlierOrders ==
  ASSUME NEW g \in Games, NEW h \in Games
  PROVE  /\ ~Earlier(g, g)
         /\ g # h => Earlier(g, h) \/ Earlier(h, g)
         /\ \A e \in Games : Earlier(g, h) /\ Earlier(h, e) => Earlier(g, e)
<1>1. \A e \in Games : Kickoff[e] \in Nat /\ e \in Nat
  BY TablesAssumption
<1> QED BY <1>1 DEF Earlier

(* There is a latest of any games.                                          *)
LEMMA LatestIsOne ==
  ASSUME NEW G \in SUBSET Games, G # {}
  PROVE  Latest(G) \in G /\ \A h \in G \ {Latest(G)} : Earlier(h, Latest(G))
<1> DEFINE P == {H \in SUBSET G : H # {} => \E g \in H : \A h \in H \ {g} : Earlier(h, g)}
<1>1. ASSUME NEW H \in SUBSET G, \A g \in H : H \ {g} \in P PROVE H \in P
  <2>1. CASE H = {}
    BY <2>1
  <2>2. CASE H # {}
    <3>1. PICK g \in H : TRUE
      BY <2>2
    <3>2. CASE H \ {g} = {}
      BY <3>1, <3>2
    <3>3. CASE H \ {g} # {}
      <4>1. PICK e \in H \ {g} : \A h \in (H \ {g}) \ {e} : Earlier(h, e)
        BY <1>1, <3>1, <3>3
      <4>2. CASE Earlier(g, e)
        BY <4>1, <4>2
      <4>3. CASE Earlier(e, g)
        <5>1. \A h \in H \ {g} : Earlier(h, g)
          BY <4>1, <4>3, EarlierOrders
        <5> QED BY <3>1, <5>1
      <4> QED BY <3>1, <4>1, <4>2, <4>3, EarlierOrders
    <3> QED BY <3>2, <3>3
  <2> QED BY <2>1, <2>2
<1>2. IsFiniteSet(G)
  BY FS_Subset, TablesAssumption
<1>3. SUBSET G \subseteq P
  <2> HIDE DEF P
  <2> QED BY <1>1, <1>2, GrowsToAll
<1>4. \E g \in G : \A h \in G \ {g} : Earlier(h, g)
  BY <1>3
<1> QED BY <1>4 DEF Latest

LEMMA UnratedIsZero == Unrated \in Ratings
<1>1. SumFunction([t \in Teams |-> 0]) = 0
  BY SumOfNothing, TablesAssumption
<1> QED BY <1>1 DEF Unrated, Ratings

LEMMA RatedStaysZero ==
  ASSUME ExpectedIsWhole, NEW g \in Games, NEW state \in Ratings
  PROVE  Rated(g, state) \in Ratings
<1> DEFINE a == Home[g]  b == Away[g]
           d == Actual(g) - Expected(state.rating[a] - state.rating[b])
           e == Rated(g, state).rating
<1>1. a \in Teams /\ b \in Teams /\ a # b /\ state.rating \in [Teams -> Int]
  BY TablesAssumption DEF Ratings
<1>2. Actual(g) \in Int
  BY TablesAssumption DEF Actual
<1>3. d \in Int
  BY <1>1, <1>2 DEF ExpectedIsWhole
<1>4. /\ Rated(g, state) =
           [rating |-> [state.rating EXCEPT ![a] = state.rating[a] + d, ![b] = state.rating[b] - d],
            before |-> [state.before EXCEPT ![g] = <<state.rating[a], state.rating[b]>>]]
  BY DEF Rated
<1> HIDE DEF d, a, b
<1>5. /\ e \in [Teams -> Int] /\ e[a] = state.rating[a] + d /\ e[b] = state.rating[b] - d
      /\ \A t \in Teams \ {a, b} : e[t] = state.rating[t]
  BY <1>1, <1>3, <1>4
<1>6. Shifted(Teams, state.rating, e, a, b, d)
  BY <1>1, <1>3, <1>5, TablesAssumption DEF Shifted
<1>7. SumFunction(e) = 0
  <2>1. SumFunction(state.rating) = 0
    BY DEF Ratings
  <2> HIDE DEF e
  <2> QED BY <1>6, <2>1, SumShift
<1>8. Rated(g, state).before \in [Games -> (Int \X Int) \cup {None}]
  BY <1>1, <1>4 DEF Ratings
<1>9. Rated(g, state) = [rating |-> e, before |-> Rated(g, state).before]
  BY <1>4
<1> HIDE DEF e
<1> QED BY <1>5, <1>7, <1>8, <1>9 DEF Ratings

(* The ratings after each part of the games: it has those of any part from  *)
(* those of the part without its latest game.                               *)
Rates(G, it) ==
  it = [s \in SUBSET G |-> IF s = {} THEN Unrated ELSE Rated(Latest(s), it[s \ {Latest(s)}])]

LEMMA EloIsFold ==
  ASSUME ExpectedIsWhole, NEW G \in SUBSET Games
  PROVE  \E it : Rates(G, it) /\ Elo(G) = it[G]
<1> DEFINE pick == [s \in SUBSET G |-> Latest(s)]
           step == [g \in G |-> [v \in Ratings |-> Rated(g, v)]]
           iter == CHOOSE it : Rates(G, it)
<1>0. IsFiniteSet(G) /\ \A s \in SUBSET G : s # {} => Latest(s) \in s
  BY LatestIsOne, FS_Subset, TablesAssumption
<1>1. IsFold(G, Ratings, Unrated, pick, step)
  BY <1>0, UnratedIsZero, RatedStaysZero DEF IsFold
<1>2. PICK g : g \in Folds(G, Ratings, Unrated, pick, step)
  <2> HIDE DEF pick, step
  <2> QED BY <1>1, FoldsExist
<1>3. g \in [SUBSET G -> Ratings]
  BY <1>2 DEF Folds
<1>4. ASSUME NEW s \in SUBSET G
      PROVE  g[s] = IF s = {} THEN Unrated ELSE Rated(Latest(s), g[s \ {Latest(s)}])
  <2>1. CASE s = {}
    BY <1>2, <2>1 DEF Folds
  <2>2. CASE s # {}
    <3>1. Latest(s) \in G /\ pick[s] = Latest(s) /\ g[s \ {Latest(s)}] \in Ratings
      BY <1>0, <1>3, <2>2
    <3>2. g[s] = step[Latest(s)][g[s \ {Latest(s)}]]
      BY <1>2, <2>2, <3>1 DEF Folds
    <3> QED BY <2>2, <3>1, <3>2
  <2> QED BY <2>1, <2>2
<1>5. Rates(G, g)
  BY <1>3, <1>4 DEF Rates
<1>6. Rates(G, iter)
  BY <1>5
<1>7. Elo(G) = iter[G]
  BY DEF Elo, MapThenFoldSet, Rates
<1> HIDE DEF iter
<1> QED BY <1>6, <1>7

LEMMA RatesAreOne ==
  ASSUME NEW G \in SUBSET Games, NEW H \in SUBSET G, NEW i, NEW j, Rates(G, i), Rates(H, j)
  PROVE  i[H] = j[H]
<1> DEFINE P == {s \in SUBSET H : i[s] = j[s]}
<1>0. IsFiniteSet(H) /\ \A s \in SUBSET H : s # {} => Latest(s) \in s
  BY LatestIsOne, FS_Subset, TablesAssumption
<1>1. ASSUME NEW s \in SUBSET H, \A x \in s : s \ {x} \in P PROVE s \in P
  <2>1. CASE s = {}
    <3>1. i[s] = Unrated /\ j[s] = Unrated
      BY <2>1 DEF Rates
    <3> QED BY <3>1
  <2>2. CASE s # {}
    <3>1. s \in SUBSET G /\ Latest(s) \in s
      BY <1>0, <2>2
    <3>2. i[s] = Rated(Latest(s), i[s \ {Latest(s)}])
      BY <2>2, <3>1 DEF Rates
    <3>3. j[s] = Rated(Latest(s), j[s \ {Latest(s)}])
      BY <2>2, <3>1 DEF Rates
    <3>4. i[s \ {Latest(s)}] = j[s \ {Latest(s)}]
      BY <1>1, <3>1
    <3> QED BY <3>2, <3>3, <3>4
  <2> QED BY <2>1, <2>2
<1>2. SUBSET H \subseteq P
  <2> HIDE DEF P
  <2> QED BY <1>0, <1>1, GrowsToAll
<1> QED BY <1>2

LEMMA EloUnfolds ==
  ASSUME ExpectedIsWhole, NEW G \in SUBSET Games
  PROVE  /\ G = {} => Elo(G) = Unrated
         /\ G # {} => Elo(G) = Rated(Latest(G), Elo(G \ {Latest(G)}))
<1>1. PICK i : Rates(G, i) /\ Elo(G) = i[G]
  BY EloIsFold
<1>2. CASE G = {}
  BY <1>1, <1>2 DEF Rates
<1>3. CASE G # {}
  <2> DEFINE H == G \ {Latest(G)}
  <2>1. H \in SUBSET G /\ H \in SUBSET Games
    OBVIOUS
  <2>2. i[G] = Rated(Latest(G), i[H])
    BY <1>1, <1>3 DEF Rates
  <2> HIDE DEF H
  <2>3. PICK j : Rates(H, j) /\ Elo(H) = j[H]
    BY <2>1, EloIsFold
  <2>4. i[H] = j[H]
    BY <1>1, <2>1, <2>3, RatesAreOne
  <2>5. Elo(G) = Rated(Latest(G), Elo(H))
    BY <1>1, <2>2, <2>3, <2>4
  <2> QED BY <1>3, <2>5 DEF H
<1> QED BY <1>2, <1>3

LEMMA RatingsCancel ==
  ASSUME ExpectedIsWhole, NEW G \in SUBSET Games
  PROVE  Elo(G) \in Ratings
<1> DEFINE P == {s \in SUBSET G : Elo(s) \in Ratings}
<1>0. IsFiniteSet(G) /\ \A s \in SUBSET G : s # {} => Latest(s) \in s
  BY LatestIsOne, FS_Subset, TablesAssumption
<1>1. ASSUME NEW s \in SUBSET G, \A x \in s : s \ {x} \in P PROVE s \in P
  <2>1. CASE s = {}
    BY <2>1, EloUnfolds, UnratedIsZero
  <2>2. CASE s # {}
    <3>1. Latest(s) \in s /\ Elo(s \ {Latest(s)}) \in Ratings
      BY <1>0, <1>1, <2>2
    <3>2. Elo(s) = Rated(Latest(s), Elo(s \ {Latest(s)}))
      BY <2>2, EloUnfolds
    <3>3. Rated(Latest(s), Elo(s \ {Latest(s)})) \in Ratings
      BY <3>1, RatedStaysZero
    <3> QED BY <3>2, <3>3
  <2> QED BY <2>1, <2>2
<1>2. SUBSET G \subseteq P
  <2> HIDE DEF P
  <2> QED BY <1>0, <1>1, GrowsToAll
<1> QED BY <1>2

(* What a game was begun with is remembered of it through the games after.  *)
AsOf(e, G) == <<Elo(G).rating[Home[e]], Elo(G).rating[Away[e]]>>
UpTo(e, G) == {g \in G : Earlier(g, e)}

LEMMA RatingsRemembered ==
  ASSUME ExpectedIsWhole, NEW G \in SUBSET Games, NEW e \in G
  PROVE  Elo(G).before[e] = AsOf(e, UpTo(e, G))
<1> DEFINE P == {s \in SUBSET G : \A g \in s : Elo(s).before[g] = AsOf(g, UpTo(g, s))}
<1>0. IsFiniteSet(G)
  BY FS_Subset, TablesAssumption
<1>1. ASSUME NEW s \in SUBSET G, \A x \in s : s \ {x} \in P, NEW g \in s
      PROVE  Elo(s).before[g] = AsOf(g, UpTo(g, s))
  <2> DEFINE x == Latest(s)  rest == s \ {x}  old == Elo(rest)
  <2>1. /\ x \in s /\ s # {} /\ s \in SUBSET Games /\ rest \in SUBSET Games /\ g \in Games
        /\ \A h \in rest : Earlier(h, x)
    <3>1. s # {} /\ s \in SUBSET Games /\ rest \in SUBSET Games /\ g \in Games
      OBVIOUS
    <3>2. Latest(s) \in s /\ \A h \in s \ {Latest(s)} : Earlier(h, Latest(s))
      BY <3>1, LatestIsOne
    <3> QED BY <3>1, <3>2
  <2>2. Elo(s) = Rated(x, old)
    BY <2>1, EloUnfolds
  <2>3. old \in Ratings
    <3> HIDE DEF rest
    <3> QED BY <2>1, RatingsCancel
  <2> HIDE DEF x, old
  <2>4. Elo(s).before = [old.before EXCEPT ![x] = <<old.rating[Home[x]], old.rating[Away[x]]>>]
    BY <2>2 DEF Rated
  <2>5. DOMAIN old.before = Games
    BY <2>3 DEF Ratings
  <2>6. CASE g = x
    <3>1. UpTo(g, s) = rest
      BY <2>1, <2>6, EarlierOrders DEF UpTo
    <3> QED BY <2>1, <2>4, <2>5, <2>6, <3>1 DEF AsOf, old
  <2>7. CASE g # x
    <3>1. UpTo(g, s) = UpTo(g, rest)
      <4>1. Earlier(g, x) /\ ~Earlier(x, g)
        BY <2>1, <2>7, EarlierOrders
      <4> QED BY <4>1 DEF UpTo
    <3>2. Elo(rest).before[g] = AsOf(g, UpTo(g, rest))
      BY <1>1, <2>1, <2>7
    <3>3. Elo(s).before[g] = old.before[g]
      BY <2>1, <2>4, <2>5, <2>7
    <3> QED BY <3>1, <3>2, <3>3 DEF old
  <2> QED BY <2>6, <2>7
<1>2. SUBSET G \subseteq P
  <2>1. \A s \in SUBSET G : (\A x \in s : s \ {x} \in P) => s \in P
    BY <1>1
  <2> HIDE DEF P
  <2> QED BY <1>0, <2>1, GrowsToAll
<1> QED BY <1>2

(* The table of a league and the page of a team count the same games in      *)
(* other ways (_compute_standings and _team_season_stats of api/analytics.py), *)
(* ratings are handed from game to game (compute_elo_for_league of             *)
(* analytics/soccer_model.py): for any games, finished and corrected in any   *)
(* order, the pages agree, the table's ranks are 1, 2, 3... of its teams, and *)
(* wins, goals and ratings cancel; and a game is shown with the ratings of    *)
(* its time, although those of all games are computed anew on each request    *)
(* (elo_snapshot_at). The expected result may be any function.                *)
THEOREM TablesAddUp ==
  ASSUME ExpectedIsWhole PROVE TablesSpec => []TablesAgree
<1>1. ASSUME TablesTypeOK PROVE TablesAgree
  <2>1. PagesAgree
    BY <1>1, PagesCountTheSame
  <2>2. Finished \in SUBSET Finished /\ Finished \in SUBSET Games
    BY DEF Finished
  <2>3. SumFunction(Elo(Finished).rating) = 0
    BY <2>2, RatingsCancel DEF Ratings
  <2>4. ZeroSum
    BY <1>1, <2>2, <2>3, TablesCancel, RanksAreWhole DEF ZeroSum
  <2>5. RatedBefore
    <3> SUFFICES ASSUME NEW e \in Finished PROVE Snapshot(e) = AsOf(e, GoingIn(e))
      BY DEF RatedBefore, AsOf
    <3>1. GoingIn(e) = UpTo(e, Finished)
      BY DEF GoingIn, UpTo
    <3>2. Elo(Finished).before[e] = AsOf(e, UpTo(e, Finished))
      BY <2>2, RatingsRemembered
    <3> QED BY <3>1, <3>2 DEF Snapshot
  <2> QED BY <2>1, <2>4, <2>5 DEF TablesAgree
<1> QED BY <1>1, TablesTyped, PTL
-----------------------------------------------------------------------------
(* The days before a game.                                                  *)
LEMMA ThroughAddsOne ==
  ASSUME NEW e \in Finished
  PROVE  /\ GoingIn(e) \in SUBSET Finished /\ e \notin GoingIn(e)
         /\ Through(e) = GoingIn(e) \cup {e}
<1>1. ~Earlier(e, e)
  BY EarlierOrders DEF Finished
<1> QED BY <1>1 DEF Through, GoingIn

LEMMA PagesAreChained ==
  ASSUME TablesTypeOK PROVE Chained
<1> SUFFICES ASSUME NEW t \in Teams, NEW e \in Games, NEW f \in Games, Follows(t, e, f)
             PROVE  Of(t, GoingIn(f)) = Of(t, Through(e))
  BY DEF Chained
<1>1. /\ e \in Finished /\ e \in Of(t, Finished) /\ Earlier(e, f)
      /\ \A g \in Of(t, Finished) : ~(Earlier(e, g) /\ Earlier(g, f))
  BY DEF Follows, Of, HomeGames, AwayGames
<1>2. \A G : Of(t, G) = {g \in G : Home[g] = t \/ Away[g] = t}
  BY DEF Of, HomeGames, AwayGames
<1>3. ASSUME NEW g \in Finished, Home[g] = t \/ Away[g] = t
      PROVE  Earlier(g, f) <=> Earlier(g, e) \/ g = e
  <2>1. g \in Games /\ g \in Of(t, Finished)
    BY <1>2, <1>3 DEF Finished
  <2>2. g = e \/ Earlier(g, e) \/ Earlier(e, g)
    BY <2>1, EarlierOrders
  <2>3. Earlier(g, e) => Earlier(g, f)
    BY <1>1, <2>1, EarlierOrders
  <2>4. Earlier(e, g) => ~Earlier(g, f)
    BY <1>1, <2>1
  <2>5. ~(Earlier(e, g) /\ (Earlier(g, e) \/ g = e))
    BY <2>1, EarlierOrders
  <2> QED BY <1>1, <2>2, <2>3, <2>4, <2>5
<1>4. /\ GoingIn(f) = {g \in Finished : Earlier(g, f)}
      /\ Through(e) = {g \in Finished : Earlier(g, e) \/ g = e}
  BY <1>1, ThroughAddsOne DEF GoingIn
<1> QED BY <1>2, <1>3, <1>4

LEMMA PointsAdd ==
  ASSUME TablesTypeOK, NEW e \in Finished, NEW t \in {Home[e], Away[e]}
  PROVE  LET before == TablePoints(Standing(t, GoingIn(e)))
         IN /\ TablePoints(Standing(t, Through(e))) =
                 before + (IF Letter(t, e) = "W" THEN 3 ELSE IF Letter(t, e) = "D" THEN 1 ELSE 0)
            /\ before \in Nat
<1> DEFINE old == Standing(t, GoingIn(e))  new == Standing(t, Through(e))
           one == SeasonStats(t, {e})
<1>1. IsRow(old) /\ RowAdds(new, old, one)
  BY ThroughAddsOne, GameAdds, StandingIsRow
<1>2. /\ one.wins = IF Letter(t, e) = "W" THEN 1 ELSE 0
      /\ one.draws = IF Letter(t, e) = "D" THEN 1 ELSE 0
  BY StatsOfOne
<1> HIDE DEF old, new, one
<1>3. TablePoints(old) \in Nat
  BY <1>1 DEF IsRow, TablePoints
<1>4. TablePoints(new) = TablePoints(old)
        + (IF Letter(t, e) = "W" THEN 3 ELSE IF Letter(t, e) = "D" THEN 1 ELSE 0)
  <2>1. /\ new.wins = old.wins + one.wins /\ new.draws = old.draws + one.draws
        /\ old.wins \in Nat /\ old.draws \in Nat
    BY <1>1 DEF IsRow, RowAdds
  <2> QED BY <1>2, <2>1 DEF TablePoints
<1> QED BY <1>3, <1>4 DEF old, new

LEMMA DeltaIsOneResult ==
  ASSUME TablesTypeOK PROVE OneResultApart
<1> SUFFICES ASSUME NEW e \in Finished
             PROVE  <<PointsDelta(Home[e], e), PointsDelta(Away[e], e)>> \in
                      IF WinnerCode(e) = None THEN {<<0, 0>>} ELSE {<<3, 0>>, <<1, 1>>, <<0, 3>>}
  BY DEF OneResultApart
<1>1. ASSUME NEW t \in {Home[e], Away[e]}
      PROVE  PointsDelta(t, e) =
               IF Letter(t, e) = "W" THEN 3 ELSE IF Letter(t, e) = "D" THEN 1 ELSE 0
  <2>1. GoingIn(e) \in SUBSET Finished /\ Through(e) \in SUBSET Finished
    BY ThroughAddsOne
  <2>2. PointsDelta(t, e) = TablePoints(Standing(t, Through(e))) - TablePoints(Standing(t, GoingIn(e)))
    BY <2>1, StandingIsStats DEF PointsDelta
  <2> QED BY <2>2, PointsAdd
<1>2. /\ WinnerCode(e) \in {1, 2, 3, None} /\ None \notin {1, 2, 3}
  BY GameFacts, TablesAssumption
<1>3. CASE WinnerCode(e) = 1
  <2>1. Letter(Home[e], e) = "W" /\ Letter(Away[e], e) = "L"
    BY <1>3, LetterOfWinner
  <2> QED BY <1>1, <1>2, <1>3, <2>1
<1>4. CASE WinnerCode(e) = 2
  <2>1. Letter(Home[e], e) = "L" /\ Letter(Away[e], e) = "W"
    BY <1>4, LetterOfWinner
  <2> QED BY <1>1, <1>2, <1>4, <2>1
<1>5. CASE WinnerCode(e) = 3
  <2>1. Letter(Home[e], e) = "D" /\ Letter(Away[e], e) = "D"
    BY <1>5, LetterOfWinner
  <2> QED BY <1>1, <1>2, <1>5, <2>1
<1>6. CASE WinnerCode(e) = None
  <2>1. Letter(Home[e], e) = "-" /\ Letter(Away[e], e) = "-"
    BY <1>6, LetterOfWinner
  <2> QED BY <1>1, <1>2, <1>6, <2>1
<1> QED BY <1>2, <1>3, <1>4, <1>5, <1>6

LEMMA NoGamesNoPoints ==
  ASSUME TablesTypeOK, NEW t, NEW G \in SUBSET Finished, Of(t, G) = {}
  PROVE  TablePoints(Standing(t, G)) = 0
<1>1. Standing(t, G) = SeasonStats(t, {})
  BY StandingIsStats
<1>2. SeasonStats(t, {}).wins = 0 /\ SeasonStats(t, {}).draws = 0
  BY StatsOfNone
<1> QED BY <1>1, <1>2 DEF TablePoints

LEMMA WinnersLoseNoPlace ==
  ASSUME TablesTypeOK PROVE WinnersRise
<1> SUFFICES ASSUME NEW e \in Finished, NEW t \in {Home[e], Away[e]} \cap Table(GoingIn(e)),
                    Letter(t, e) = "W"
             PROVE  RankDelta(t, e) >= 0
  BY DEF WinnersRise
<1> DEFINE G == GoingIn(e)  D == Through(e)
           A == {u \in Table(G) : Ahead(u, t, G)}  B == {u \in Table(D) : Ahead(u, t, D)}
<1>1. G \in SUBSET Finished /\ e \in Finished \ G /\ D = G \cup {e} /\ D \in SUBSET Finished
  BY ThroughAddsOne
<1>2. TablePoints(Standing(t, D)) = TablePoints(Standing(t, G)) + 3 /\ TablePoints(Standing(t, G)) \in Nat
  BY PointsAdd
<1>3. ASSUME NEW u \in B PROVE u \in A
  <2> HIDE DEF G, D
  <2>1. u \in Teams /\ u \in Table(D) /\ Ahead(u, t, D)
    BY DEF Table
  <2>2. IsRow(Standing(u, D)) /\ IsRow(Standing(u, G)) /\ IsRow(Standing(t, D))
    BY <1>1, StandingIsRow
  <2>3. TablePoints(Standing(u, D)) \in Nat /\ TablePoints(Standing(u, G)) \in Nat
    BY <2>2 DEF IsRow, TablePoints
  <2>4. TablePoints(Standing(u, D)) >= TablePoints(Standing(t, D))
    BY <1>2, <2>1, <2>3 DEF Ahead
  <2>5. TablePoints(Standing(u, D)) = TablePoints(Standing(u, G))
    <3>1. CASE u \notin {Home[e], Away[e]}
      BY <1>1, <3>1, GameAdds
    <3>2. CASE u \in {Home[e], Away[e]}
      <4>1. u # t
        <5>1. t \in Table(D)
          BY <1>1 DEF Table, Of, HomeGames, AwayGames, G
        <5>2. <<t, t>> \notin AheadIn(D)
          BY <1>1, <5>1, TableIsOrdered DEF Orders
        <5> QED BY <2>1, <5>2 DEF AheadIn
      <4>2. Letter(u, e) = "L"
        BY <3>2, <4>1, LetterOfWinner
      <4> QED BY <2>3, <3>2, <4>2, PointsAdd DEF G, D
    <3> QED BY <3>1, <3>2
  <2>6. TablePoints(Standing(u, G)) > TablePoints(Standing(t, G))
    BY <1>2, <2>3, <2>4, <2>5
  <2>7. Of(u, G) # {}
    BY <1>1, <1>2, <2>6, NoGamesNoPoints
  <2> QED BY <2>1, <2>6, <2>7 DEF Table, Ahead, G
<1>4. IsFiniteSet(A)
  <2>1. IsFiniteSet(Table(G)) /\ A \subseteq Table(G)
    BY <1>1, TableIsOrdered
  <2> HIDE DEF A, G
  <2> QED BY <2>1, FS_Subset
<1>5. B \subseteq A
  BY <1>3
<1>6. RankDelta(t, e) = (1 + Cardinality(A)) - (1 + Cardinality(B))
  BY DEF RankDelta, TableRank
<1> HIDE DEF A, B
<1>7. Cardinality(B) <= Cardinality(A) /\ Cardinality(A) \in Nat /\ Cardinality(B) \in Nat
  BY <1>4, <1>5, FS_Subset, FS_CardinalityType
<1> QED BY <1>6, <1>7

(* The meetings of a pairing, seen from either side.                        *)
LEMMA PairingsAreMirrored ==
  ASSUME TablesTypeOK PROVE Mirrored
<1> SUFFICES ASSUME NEW e \in Games
             PROVE  LET there == Balance(Home[e], Away[e], Meetings(e))
                        back == Balance(Away[e], Home[e], Meetings(e))
                    IN /\ there.home = back.away /\ there.away = back.home
                       /\ there.home = Letters(Home[e], Meetings(e), "W")
                       /\ there.away = Letters(Home[e], Meetings(e), "L")
  BY DEF Mirrored
<1> DEFINE G == Meetings(e)  home == Home[e]  away == Away[e]
<1>1. home # away
  BY TablesAssumption
<1>2. ASSUME NEW g \in G
      PROVE  /\ g \in Finished
             /\ \/ Home[g] = home /\ Away[g] = away
                \/ Home[g] = away /\ Away[g] = home
             /\ WinnerCode(g) \in {1, 2, 3, None}
  <2>1. g \in Finished /\ {Home[g], Away[g]} = {home, away}
    BY DEF Meetings
  <2> QED BY <1>1, <2>1, GameFacts
<1> HIDE DEF G, home, away
<1>3. ASSUME NEW g \in G
      PROVE  /\ (WinnerCode(g) = 1 /\ Home[g] = home) \/ (WinnerCode(g) = 2 /\ Home[g] = away)
                   <=> Letter(home, g) = "W"
             /\ (WinnerCode(g) = 1 /\ Home[g] = away) \/ (WinnerCode(g) = 2 /\ Home[g] = home)
                   <=> Letter(home, g) = "L"
  BY <1>1, <1>2, LetterOfWinner
<1>4. /\ Balance(home, away, G).home = Letters(home, G, "W")
      /\ Balance(home, away, G).away = Letters(home, G, "L")
  <2>1. {g \in G : (WinnerCode(g) = 1 /\ Home[g] = home) \/ (WinnerCode(g) = 2 /\ Home[g] = away)}
          = {g \in G : Letter(home, g) = "W"}
    BY <1>3
  <2>2. {g \in G : (WinnerCode(g) = 1 /\ Home[g] = away) \/ (WinnerCode(g) = 2 /\ Home[g] = home)}
          = {g \in G : Letter(home, g) = "L"}
    BY <1>3
  <2> QED BY <2>1, <2>2 DEF Balance, Letters
<1>5. /\ Balance(home, away, G).home = Balance(away, home, G).away
      /\ Balance(home, away, G).away = Balance(away, home, G).home
  BY DEF Balance
<1> QED BY <1>4, <1>5 DEF G, home, away

(* The form of a team: its points, its games, and how many they are.        *)
LEMMA FormPointsAreStats ==
  ASSUME TablesTypeOK, NEW t, NEW G \in SUBSET Finished
  PROVE  SumFunction([g \in G |-> OrZero(FormPoints(t, g))]) = TablePoints(SeasonStats(t, G))
<1> DEFINE f(H) == [g \in H |-> OrZero(FormPoints(t, g))]
           P == {H \in SUBSET G : SumFunction(f(H)) = TablePoints(SeasonStats(t, H))}
<1>0. ASSUME NEW H \in SUBSET G
      PROVE  H \in SUBSET Finished /\ IsFiniteSet(H)
  BY PartsFinite
<1>1. ASSUME NEW g \in Finished
      PROVE  /\ OrZero(FormPoints(t, g)) = TablePoints(SeasonStats(t, {g}))
             /\ OrZero(FormPoints(t, g)) \in Int
  <2>1. /\ SeasonStats(t, {g}).wins = IF Letter(t, g) = "W" THEN 1 ELSE 0
        /\ SeasonStats(t, {g}).draws = IF Letter(t, g) = "D" THEN 1 ELSE 0
    BY StatsOfOne
  <2>2. OrZero(FormPoints(t, g)) =
          IF Letter(t, g) = "W" THEN 3 ELSE IF Letter(t, g) = "D" THEN 1 ELSE 0
    <3>1. None \notin {1, 2, 3}
      BY TablesAssumption
    <3>2. Letter(t, g) \in {"W", "D", "L", "-"}
      BY LetterOfWinner
    <3> QED BY <3>1, <3>2 DEF OrZero, FormPoints
  <2> QED BY <2>1, <2>2 DEF TablePoints
<1>2. ASSUME NEW H \in SUBSET G, \A g \in H : H \ {g} \in P PROVE H \in P
  <2>1. CASE H = {}
    <3>1. f({}) \in [{} -> Int] /\ IsFiniteSet({}) /\ DOMAIN f({}) = {}
      BY FS_EmptySet
    <3> HIDE DEF f
    <3>2. SumFunction(f({})) = 0
      BY <3>1, SumFacts DEF SumLaws, SumFunction
    <3>3. SeasonStats(t, {}).wins = 0 /\ SeasonStats(t, {}).draws = 0
      BY StatsOfNone
    <3> QED BY <2>1, <3>2, <3>3 DEF TablePoints
  <2>2. CASE H # {}
    <3>1. PICK g \in H : TRUE
      BY <2>2
    <3> DEFINE I == H \ {g}
    <3>2. /\ I \in SUBSET Finished /\ g \in Finished /\ {g} \in SUBSET Finished
          /\ I \cap {g} = {} /\ I \cup {g} = H /\ I \in P /\ IsFiniteSet(I)
      BY <1>0, <1>2, <3>1
    <3> HIDE DEF I
    <3>3. /\ f(H) \in [I \cup {g} -> Int] /\ f(I) \in [I -> Int] /\ f({g}) \in [{g} -> Int]
          /\ \A x \in I : f(H)[x] = f(I)[x]
          /\ f(H)[g] = f({g})[g] /\ f({g})[g] = OrZero(FormPoints(t, g))
      BY <1>1, <3>2
    <3> HIDE DEF f
    <3>4. Parted(I, {g}, f(H), f(I), f({g}))
      BY <3>2, <3>3, FS_Singleton DEF Parted
    <3>5. SumFunction(f({g})) = TablePoints(SeasonStats(t, {g}))
      BY <1>1, <3>2, <3>3, SumOfOne
    <3>6. SumFunction(f(H)) = TablePoints(SeasonStats(t, I)) + TablePoints(SeasonStats(t, {g}))
      BY <3>2, <3>4, <3>5, SumApart
    <3>7. RowAdds(SeasonStats(t, I \cup {g}), SeasonStats(t, I), SeasonStats(t, {g}))
          /\ IsRow(SeasonStats(t, I))
      BY <3>2, StatsAdd
    <3>8. IsRow(SeasonStats(t, {g}))
      <4>1. {g} \cap {} = {} /\ {} \in SUBSET Finished
        OBVIOUS
      <4> QED BY <3>2, <4>1, StatsAdd
    <3> DEFINE new == SeasonStats(t, H)  old == SeasonStats(t, I)  one == SeasonStats(t, {g})
    <3>9. RowAdds(new, old, one) /\ IsRow(old) /\ IsRow(one)
      BY <3>2, <3>7, <3>8
    <3> HIDE DEF new, old, one
    <3>10. TablePoints(new) = TablePoints(old) + TablePoints(one)
      BY <3>9 DEF RowAdds, IsRow, TablePoints
    <3> QED BY <3>6, <3>10 DEF new, old, one
  <2> QED BY <2>1, <2>2
<1>3. SUBSET G \subseteq P
  <2> HIDE DEF P
  <2> QED BY <1>0, <1>2, GrowsToAll
<1> QED BY <1>3

LaterFirst(S) == {p \in S \X S : Kickoff[p[1]] > Kickoff[p[2]]}

LEMMA FormIsLastGames ==
  ASSUME TablesTypeOK,
         NEW e \in Games, NEW t \in {Home[e], Away[e]}, NEW n \in Nat
  PROVE  LET S == Of(t, GoingIn(e))
             F == Form(t, e, n)
         IN /\ F = {g \in S : Place(LaterFirst(S), S)[g] <= n}
            /\ Orders(LaterFirst(S), S)
            /\ IsFiniteSet(S) /\ S \in SUBSET Finished
<1> DEFINE S == Of(t, GoingIn(e))  R == LaterFirst(S)
<1>1. /\ S = {g \in Finished : Earlier(g, e) /\ t \in {Home[g], Away[g]}}
      /\ Before(t, e) = {g \in Finished : Kickoff[g] < Kickoff[e] /\ t \in {Home[g], Away[g]}}
  BY DEF GoingIn, Before, Of, HomeGames, AwayGames
<1>2. \A g \in Games : Kickoff[g] \in Int
  BY TablesAssumption
<1>3. \A g, h \in Games : g # h /\ t \in {Home[g], Away[g]} /\ t \in {Home[h], Away[h]}
        => Kickoff[g] # Kickoff[h]
  BY TablesAssumption
<1>4. Finished \subseteq Games
  BY DEF Finished
<1>5. Before(t, e) = S
  <2>1. ASSUME NEW g \in Finished, t \in {Home[g], Away[g]}
        PROVE  Earlier(g, e) <=> Kickoff[g] < Kickoff[e]
    <3>1. g # e => Kickoff[g] # Kickoff[e]
      BY <1>3, <1>4, <2>1
    <3>2. ~Earlier(e, e)
      BY EarlierOrders
    <3> QED BY <1>2, <1>4, <3>1, <3>2 DEF Earlier
  <2> QED BY <1>1, <2>1
<1>6. S \in SUBSET Finished /\ \A g \in S : t \in {Home[g], Away[g]}
  BY <1>1
<1> HIDE DEF S
<1>7. Orders(R, S)
  BY <1>2, <1>3, <1>4, <1>6 DEF Orders, LaterFirst
<1>8. IsFiniteSet(S)
  BY <1>6, PartsFinite
<1>9. ASSUME NEW g \in S
      PROVE  (Cardinality({h \in S : Kickoff[h] > Kickoff[g]}) < n) <=> (Place(R, S)[g] <= n)
  <2>1. {h \in S : Kickoff[h] > Kickoff[g]} = AheadOf(R, S, g)
    BY <1>9 DEF AheadOf, LaterFirst
  <2>2. AheadOf(R, S, g) \in SUBSET S
    BY DEF AheadOf
  <2>3. Cardinality(AheadOf(R, S, g)) \in Nat
    BY <1>8, <2>2, FS_Subset, FS_CardinalityType
  <2>4. Place(R, S)[g] = 1 + Cardinality(AheadOf(R, S, g))
    BY <1>9 DEF Place
  <2> DEFINE later == {h \in S : Kickoff[h] > Kickoff[g]}
  <2> HIDE DEF later
  <2>5. Cardinality(later) = Cardinality(AheadOf(R, S, g))
    BY <2>1 DEF later
  <2>6. Cardinality(later) < n <=> Place(R, S)[g] <= n
    BY <2>3, <2>4, <2>5
  <2> QED BY <2>6 DEF later
<1>10. Form(t, e, n) = {g \in S : Place(R, S)[g] <= n}
  BY <1>5, <1>9 DEF Form
<1> QED BY <1>6, <1>7, <1>8, <1>10 DEF S

LEMMA FormsAddUp ==
  ASSUME TablesTypeOK PROVE FormAddsUp
<1> SUFFICES ASSUME NEW e \in Games, NEW t \in {Home[e], Away[e]}, NEW n \in 0 .. Cardinality(Games)
             PROVE  LET form == Form(t, e, n)
                        older == Of(t, GoingIn(e)) \ form
                        table == Standing(t, GoingIn(e))
                    IN /\ Cardinality(form) = IF n < table.played THEN n ELSE table.played
                       /\ \A g \in form, h \in older : Earlier(h, g)
                       /\ SumFunction([g \in form |-> OrZero(FormPoints(t, g))])
                            + TablePoints(SeasonStats(t, older)) = TablePoints(table)
  BY DEF FormAddsUp
<1> DEFINE S == Of(t, GoingIn(e))  R == LaterFirst(S)  F == Form(t, e, n)  O == S \ F
           table == Standing(t, GoingIn(e))
<1>0. n \in Nat
  BY FS_CardinalityType, TablesAssumption
<1>1. /\ F = {g \in S : Place(R, S)[g] <= n} /\ Orders(R, S)
      /\ IsFiniteSet(S) /\ S \in SUBSET Finished
  BY <1>0, FormIsLastGames
<1>2. table = SeasonStats(t, S) /\ table.played = Cardinality(S)
  <2>1. GoingIn(e) \in SUBSET Finished
    BY DEF GoingIn
  <2> QED BY <2>1, StandingIsStats DEF SeasonStats
<1>3. R = {p \in S \X S : Kickoff[p[1]] > Kickoff[p[2]]}
  BY DEF LaterFirst
<1>4. /\ F \in SUBSET Finished /\ O \in SUBSET Finished /\ F \cap O = {} /\ F \cup O = S
  BY <1>1
<1> HIDE DEF S, R, F, table
<1>5. \A g \in S : /\ Place(R, S)[g] \in 1 .. Cardinality(S)
                   /\ \A h \in S : <<h, g>> \in R => Place(R, S)[h] < Place(R, S)[g]
  BY <1>1, PlacesGrow
<1>6. Cardinality(S) \in Nat
  BY <1>1, FS_CardinalityType
<1>7. Cardinality(F) = IF n < table.played THEN n ELSE table.played
  <2>1. CASE n < Cardinality(S)
    <3>1. n \in 0 .. Cardinality(S)
      BY <1>0, <1>6, <2>1
    <3>2. Cardinality({g \in S : Place(R, S)[g] <= n}) = n
      BY <1>1, <3>1, FirstPlaces
    <3> QED BY <1>1, <1>2, <2>1, <3>2
  <2>2. CASE ~(n < Cardinality(S))
    <3>1. F = S
      BY <1>0, <1>1, <1>5, <1>6, <2>2
    <3> QED BY <1>2, <2>2, <3>1
  <2> QED BY <2>1, <2>2
<1>8. ASSUME NEW g \in F, NEW h \in O PROVE Earlier(h, g)
  <2>1. g \in S /\ h \in S /\ Place(R, S)[g] <= n /\ ~(Place(R, S)[h] <= n)
    BY <1>1
  <2>2. <<h, g>> \notin R /\ h # g
    BY <1>0, <1>5, <2>1
  <2>3. <<g, h>> \in R
    BY <1>1, <2>1, <2>2 DEF Orders
  <2>4. Kickoff[g] > Kickoff[h] /\ Kickoff[g] \in Nat /\ Kickoff[h] \in Nat
    BY <1>1, <1>3, <2>1, <2>3, TablesAssumption DEF Finished
  <2> QED BY <2>4 DEF Earlier
<1>9. SumFunction([g \in F |-> OrZero(FormPoints(t, g))]) = TablePoints(SeasonStats(t, F))
  BY <1>4, FormPointsAreStats
<1>10. RowAdds(SeasonStats(t, F \cup O), SeasonStats(t, F), SeasonStats(t, O))
       /\ IsRow(SeasonStats(t, F))
  BY <1>4, StatsAdd
<1>11. IsRow(SeasonStats(t, O))
  <2>1. O \cap F = {}
    BY <1>4
  <2> HIDE DEF O
  <2> QED BY <1>4, <2>1, StatsAdd
<1>12. TablePoints(SeasonStats(t, F)) + TablePoints(SeasonStats(t, O)) = TablePoints(table)
  <2> DEFINE all == SeasonStats(t, S)  one == SeasonStats(t, F)  other == SeasonStats(t, O)
  <2>1. RowAdds(all, one, other) /\ IsRow(one) /\ IsRow(other)
    BY <1>4, <1>10, <1>11
  <2> HIDE DEF all, one, other
  <2>2. TablePoints(one) + TablePoints(other) = TablePoints(all)
    BY <2>1 DEF RowAdds, IsRow, TablePoints
  <2> QED BY <1>2, <2>2 DEF all, one, other
<1> QED BY <1>7, <1>8, <1>9, <1>12 DEF S, F, table

(* What the page of a game says of the days before it (api/analytics.py and  *)
(* analytics/soccer_model.py) continues the page of the game before: one      *)
(* result between them, no place lost by a win, a form that brings the points *)
(* the earlier games leave open, a balance that is the same from both sides.  *)
THEOREM HistoryAddsUp ==
  TablesSpec => []HistoryAgrees
<1>1. ASSUME TablesTypeOK PROVE HistoryAgrees
  BY <1>1, PagesAreChained, DeltaIsOneResult, WinnersLoseNoPlace, FormsAddUp, PairingsAreMirrored
     DEF HistoryAgrees
<1> QED BY <1>1, TablesTyped, PTL
-----------------------------------------------------------------------------
(* The price pages                                                          *)

BoardTypeOK ==
  \A m \in Moneylines, s \in Outcomes, b \in Books : board[m][s][b] \in (1..Whole) \cup {None}
BoardShape ==
  /\ DOMAIN board = Moneylines
  /\ \A m \in Moneylines : DOMAIN board[m] = Outcomes /\ \A s \in Outcomes : DOMAIN board[m][s] = Books

LEMMA BoardTyped == BoardSpec => [](BoardShape /\ BoardTypeOK)
<1>1. BoardInit => BoardShape /\ BoardTypeOK
  BY DEF BoardInit, BoardShape, BoardTypeOK
<1>2. ASSUME BoardShape, BoardTypeOK, [BoardNext]_boardVars
      PROVE  BoardShape' /\ BoardTypeOK'
  <2>1. ASSUME NEW b \in Books, NEW row \in Rows, Quote(b, row)
        PROVE  BoardShape' /\ BoardTypeOK'
    <3> DEFINE k == MarketOf(row)
               new == [s \in Outcomes |-> [o \in Books |->
                         IF o = b /\ row[s] # None THEN row[s] ELSE board[k][s][o]]]
    <3>1. k \in Moneylines /\ board' = [board EXCEPT ![k] = new]
      BY <2>1 DEF Quote, MarketOf, Moneylines
    <3>2. \A s \in Outcomes : row[s] \in (1..Whole) \cup {None}
      BY BoardAssumption
    <3>3. /\ DOMAIN new = Outcomes /\ \A s \in Outcomes : DOMAIN new[s] = Books
          /\ \A s \in Outcomes, o \in Books : new[s][o] \in (1..Whole) \cup {None}
      BY <1>2, <3>1, <3>2 DEF BoardShape, BoardTypeOK
    <3> HIDE DEF k, new
    <3> QED BY <1>2, <3>1, <3>3 DEF BoardShape, BoardTypeOK
  <2>2. CASE UNCHANGED board
    BY <1>2, <2>2 DEF BoardShape, BoardTypeOK
  <2> QED BY <1>2, <2>1, <2>2 DEF BoardNext, FinalizeEvent, Withdraw, boardVars
<1> QED BY <1>1, <1>2, PTL DEF BoardSpec

(* Prices that are there have a best and a worst.                           *)
LEMMA MaxOfPrices ==
  ASSUME NEW S \in SUBSET (1..Whole), S # {}
  PROVE  Max(S) \in S /\ \A x \in S : x <= Max(S)
<1> DEFINE T == {Whole - x : x \in S}
<1>1. T \subseteq Nat /\ T # {}
  <2>1. \A x \in S : Whole - x \in Nat
    BY BoardAssumption
  <2> QED BY <2>1
<1>2. PICK n \in T : \A k \in T : n <= k
  BY <1>1, LeastNumber
<1>3. PICK x \in S : n = Whole - x
  BY <1>2
<1>4. ASSUME NEW y \in S
      PROVE  y <= x
  <2>1. Whole - x <= Whole - y
    BY <1>2, <1>3
  <2> QED BY <2>1, BoardAssumption
<1> QED BY <1>4 DEF Max

LEMMA MinOfPrices ==
  ASSUME NEW S \in SUBSET (1..Whole), S # {}
  PROVE  Min(S) \in S /\ \A x \in S : Min(S) <= x
<1>1. \E n \in S : \A k \in S : n <= k
  BY LeastNumber, BoardAssumption
<1> QED BY <1>1 DEF Min

LEMMA QuotedAre ==
  ASSUME BoardTypeOK, NEW m \in Moneylines, NEW s \in Outcomes
  PROVE  /\ QuotedPrices(m, s) \subseteq 1..Whole
         /\ QuotedPrices(m, s) = {} <=> Quoted(m, s) = {}
<1>1. \A b \in Quoted(m, s) : board[m][s][b] \in 1..Whole
  BY DEF Quoted, BoardTypeOK
<1> QED BY <1>1 DEF QuotedPrices

(* A disagreement leaves a worse price.                                     *)
LEMMA WorseIsThere ==
  ASSUME BoardTypeOK, NEW m \in Moneylines, NEW s \in Outcomes, Quoted(m, s) # {},
         Disagree(m, s), Threshold > 0
  PROVE  \E b \in Quoted(m, s) : board[m][s][b] < Max(QuotedPrices(m, s))
<1> DEFINE P == QuotedPrices(m, s)
<1>1. P \subseteq 1..Whole /\ P # {}
  BY QuotedAre
<1>2. Max(P) \in 1..Whole /\ Min(P) \in P /\ Min(P) \in 1..Whole
  BY <1>1, MaxOfPrices, MinOfPrices
<1>3. 100 * (Max(P) - Min(P)) >= Threshold * Min(P)
  BY DEF Disagree
<1>4. \A a, b, t \in Int : a > 0 /\ t > 0 /\ 100 * (b - a) >= t * a => a < b
  <2> SUFFICES ASSUME NEW a \in Int, NEW b \in Int, NEW t \in Int,
                      a > 0, t > 0, 100 * (b - a) >= t * a
               PROVE  a < b
    OBVIOUS
  <2>1. t * a > 0
    OBVIOUS
  <2> QED BY <2>1
<1>5. Min(P) < Max(P)
  BY <1>2, <1>3, <1>4, BoardAssumption
<1>6. PICK b \in Quoted(m, s) : board[m][s][b] = Min(P)
  BY <1>2 DEF QuotedPrices
<1> QED BY <1>5, <1>6

LEMMA BestIsFlagged ==
  ASSUME BoardTypeOK, NEW m \in Moneylines, NEW s \in DOMAIN LiveOdds(m)
  PROVE  /\ s \in Outcomes /\ Quoted(m, s) # {} /\ LiveOdds(m)[s] = Max(QuotedPrices(m, s))
         /\ LiveOdds(m)[s] = board[m][s][IsBest(m, s)]
         /\ Implied(m, s) \in Int
<1>1. s \in Outcomes /\ Quoted(m, s) # {} /\ LiveOdds(m)[s] = Max(QuotedPrices(m, s))
  BY DEF LiveOdds
<1> DEFINE P == QuotedPrices(m, s)
<1>2. P \subseteq 1..Whole /\ P # {}
  BY <1>1, QuotedAre
<1>3. Max(P) \in P /\ \A x \in P : x <= Max(P)
  BY <1>2, MaxOfPrices
<1>4. PICK b \in Quoted(m, s) : board[m][s][b] = Max(P)
  BY <1>3 DEF QuotedPrices
<1>5. \A o \in Quoted(m, s) : board[m][s][o] \in P
  BY DEF QuotedPrices
<1>6. \A o \in Quoted(m, s) : board[m][s][o] <= board[m][s][b]
  BY <1>3, <1>4, <1>5
<1>7. /\ IsBest(m, s) \in Quoted(m, s)
      /\ \A o \in Quoted(m, s) : board[m][s][o] <= board[m][s][IsBest(m, s)]
  BY <1>6 DEF IsBest
<1>8. board[m][s][IsBest(m, s)] = Max(P)
  <2>1. board[m][s][IsBest(m, s)] \in P /\ Max(P) <= board[m][s][IsBest(m, s)]
    BY <1>4, <1>5, <1>7
  <2>2. board[m][s][IsBest(m, s)] <= Max(P)
    BY <1>3, <2>1
  <2> QED BY <1>2, <1>3, <2>1, <2>2
<1>9. Whole \div LiveOdds(m)[s] \in Int
  <2>1. LiveOdds(m)[s] \in Nat /\ LiveOdds(m)[s] > 0
    BY <1>1, <1>2, <1>3
  <2> QED BY <2>1, BoardAssumption
<1> QED BY <1>1, <1>8, <1>9 DEF Implied

(* Edges over a whole market add up to nothing, so one of them is no loss.   *)
LEMMA EdgesCancel ==
  ASSUME NEW x \in Int, NEW y \in Int, NEW z \in Int, NEW a \in Int, NEW b \in Int, NEW c \in Int
  PROVE  LET w == x + y + z
             t == a + b + c
         IN \/ x * t - a * w >= 0 \/ y * t - b * w >= 0 \/ z * t - c * w >= 0
OBVIOUS

LEMMA BestEdgeNoLoss ==
  ASSUME BoardTypeOK, NEW m \in Moneylines, DOMAIN LiveOdds(m) = Outcomes
  PROVE  BestEdge(m) >= 0
<1>1. Implied(m, "home") \in Int /\ Implied(m, "draw") \in Int /\ Implied(m, "away") \in Int
  BY BestIsFlagged DEF Outcomes
<1>2. Model["home"] \in Int /\ Model["draw"] \in Int /\ Model["away"] \in Int
        /\ Whole = Model["home"] + Model["draw"] + Model["away"]
  BY BoardAssumption DEF Outcomes
<1>3. Total(m) = Implied(m, "home") + Implied(m, "draw") + Implied(m, "away")
  BY DEF Total, ImpliedIfAny, Outcomes
<1>4. \/ Edge(m, "home") >= 0 \/ Edge(m, "draw") >= 0 \/ Edge(m, "away") >= 0
  BY <1>1, <1>2, <1>3, EdgesCancel DEF Edge
<1>5. Edge(m, "home") \in Int /\ Edge(m, "draw") \in Int /\ Edge(m, "away") \in Int
  BY <1>1, <1>2, <1>3 DEF Edge
<1> DEFINE E == {Edge(m, s) : s \in DOMAIN LiveOdds(m)}
<1>6. E = {Edge(m, "home"), Edge(m, "draw"), Edge(m, "away")}
  BY DEF Outcomes
<1> HIDE DEF E
<1>7. \E x \in E : \A y \in E : x >= y
  BY <1>5, <1>6
<1>8. Max(E) \in E /\ \A y \in E : Max(E) >= y
  BY <1>7 DEF Max
<1>9. Max(E) >= 0
  BY <1>4, <1>5, <1>6, <1>8
<1> QED BY <1>9 DEF BestEdge, E

(* Live odds, the flagged row, a disagreement and the best edge of the model *)
(* are computed by four handlers of api/analytics.py from the same rows:     *)
(* they agree for any books and quotes, before and after the end.           *)
THEOREM BoardsAgree == BoardSpec => []PricePagesAgree
<1>1. BoardTypeOK => PricePagesAgree
  BY BestIsFlagged, WorseIsThere, BestEdgeNoLoss DEF PricePagesAgree
<1> QED BY <1>1, BoardTyped, PTL
===============================================================================
