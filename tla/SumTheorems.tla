---------------------------- MODULE SumTheorems ----------------------------
(***************************************************************************)
(* Sums over finite sets: SumFunctionOnSet(f, S) of the community modules, *)
(* the sum of f[s] over the elements s of S.                               *)
(*                                                                         *)
(* The operator is a recursive function chosen by its equation, so what is *)
(* shown first is that such a function exists for every finite set, then   *)
(* that the order in which the definition takes elements out is of no      *)
(* consequence.  Induction is over a set of numbers, or of sets, instead   *)
(* of a predicate.                                                         *)
(***************************************************************************)
EXTENDS Functions, FiniteSetsExt, WellFoundedInduction, FiniteSetTheorems, TLAPS

-----------------------------------------------------------------------------
(***************************************************************************)
(* Induction.                                                              *)
(***************************************************************************)
Less == {ss \in Nat \X Nat : ss[1] < ss[2]}

LEMMA LeastNatural ==
  ASSUME NEW T \in SUBSET Nat, T # {}
  PROVE  \E n \in T : \A k \in T : n <= k
<1>1. IsWellFoundedOn(Less, Nat)
  BY NatLessThanWellFounded DEF OpToRel, Less
<1>2. PICK n \in T : \A k \in T : ~(<<k, n>> \in Less)
  BY <1>1, WFMin
<1>3. ASSUME NEW k \in T PROVE n <= k
  <2>1. <<k, n>> \notin Less /\ k \in Nat /\ n \in Nat
    BY <1>2
  <2>2. ~(k < n)
    BY <2>1 DEF Less
  <2> QED
    BY <2>1, <2>2
<1> QED
  BY <1>3

LEMMA NumberInduction ==
  ASSUME NEW G \in SUBSET Nat, 0 \in G, \A n \in G : n + 1 \in G
  PROVE  G = Nat
<1> SUFFICES ASSUME Nat \ G # {} PROVE FALSE
  OBVIOUS
<1>1. PICK n \in Nat \ G : \A k \in Nat \ G : n <= k
  BY LeastNatural
<1>2. n # 0 /\ n - 1 \in Nat /\ n - 1 \in G
  BY <1>1
<1>3. (n - 1) + 1 \in G /\ (n - 1) + 1 = n
  BY <1>2
<1> QED
  BY <1>3

(***************************************************************************)
(* A set of subsets of S, of which {} is one, and which has each subset    *)
(* for which it has the same subset without some element, has S.           *)
(***************************************************************************)
LEMMA SetInduction ==
  ASSUME NEW S, IsFiniteSet(S), NEW G \in SUBSET SUBSET S, {} \in G,
         \A s \in SUBSET S : s # {} /\ (\A x \in s : s \ {x} \in G) => s \in G
  PROVE  S \in G
<1> DEFINE Sizes == {n \in Nat : \A s \in SUBSET S : Cardinality(s) = n => s \in G}
<1>0. \A s \in SUBSET S : IsFiniteSet(s) /\ Cardinality(s) \in Nat
  BY FS_Subset, FS_CardinalityType
<1>1. 0 \in Sizes
  BY <1>0, FS_EmptySet
<1>2. ASSUME NEW n \in Sizes PROVE n + 1 \in Sizes
  <2> SUFFICES ASSUME NEW s \in SUBSET S, Cardinality(s) = n + 1 PROVE s \in G
    OBVIOUS
  <2>1. s # {}
    BY FS_EmptySet
  <2>2. ASSUME NEW x \in s PROVE s \ {x} \in G
    <3>1. Cardinality(s \ {x}) = (n + 1) - 1
      BY <1>0, FS_RemoveElement
    <3>2. (n + 1) - 1 = n
      OBVIOUS
    <3> QED
      BY <3>1, <3>2
  <2> QED
    BY <2>1, <2>2
<1> HIDE DEF Sizes
<1>3. Sizes = Nat
  BY <1>1, <1>2, NumberInduction DEF Sizes
<1>4. Cardinality(S) \in Sizes
  BY <1>0, <1>3
<1> QED
  BY <1>4 DEF Sizes

-----------------------------------------------------------------------------
(***************************************************************************)
(* The definition: a function g on the subsets of S that takes out, from   *)
(* each of them, the element it picks.                                     *)
(***************************************************************************)
Pick(s) == CHOOSE x \in s : TRUE
Step(g, f, s) == IF s = {} THEN 0 ELSE f[Pick(s)] + g[s \ {Pick(s)}]
IsSum(g, f, S) ==
  g = [s \in SUBSET S |-> IF s = {} THEN 0 ELSE f[Pick(s)] + g[s \ {Pick(s)}]]
SumsOn(f, S) == CHOOSE g : IsSum(g, f, S)

LEMMA SumIsChosen ==
  ASSUME NEW f, NEW S
  PROVE  SumFunctionOnSet(f, S) = SumsOn(f, S)[S]
  BY DEF SumFunctionOnSet, FoldFunctionOnSet, MapThenFoldSet, SumsOn, IsSum, Pick

LEMMA PickIn == ASSUME NEW s, s # {} PROVE Pick(s) \in s
BY DEF Pick

(***************************************************************************)
(* There is such a function for the subsets of at most n elements.         *)
(***************************************************************************)
Small(S, n) == {s \in SUBSET S : Cardinality(s) <= n}

LEMMA SmallSums ==
  ASSUME NEW f, NEW S, IsFiniteSet(S), NEW n \in Nat
  PROVE  \E g : g = [s \in Small(S, n) |-> Step(g, f, s)]
<1> DEFINE Sums(m) == \E g : g = [s \in Small(S, m) |-> Step(g, f, s)]
           Good == {m \in Nat : Sums(m)}
<1>0. \A s \in SUBSET S : IsFiniteSet(s) /\ Cardinality(s) \in Nat
  BY FS_Subset, FS_CardinalityType
<1>1. Sums(0)
  <2> DEFINE g == [s \in Small(S, 0) |-> 0]
  <2>1. ASSUME NEW s \in Small(S, 0) PROVE s = {}
    <3>1. IsFiniteSet(s) /\ Cardinality(s) = 0
      BY <1>0 DEF Small
    <3> QED
      BY <3>1, FS_EmptySet
  <2>2. g = [s \in Small(S, 0) |-> Step(g, f, s)]
    BY <2>1 DEF Step
  <2> QED
    BY <2>2
<1>2. ASSUME NEW m \in Nat, Sums(m) PROVE Sums(m + 1)
  <2>1. PICK g : g = [s \in Small(S, m) |-> Step(g, f, s)]
    BY <1>2
  <2> DEFINE h == [s \in Small(S, m + 1) |-> Step(g, f, s)]
  <2>2. Small(S, m) \subseteq Small(S, m + 1)
    BY <1>0 DEF Small
  <2>3. ASSUME NEW s \in Small(S, m) PROVE h[s] = g[s]
    <3>1. g[s] = Step(g, f, s)
      BY <2>1
    <3>2. h[s] = Step(g, f, s)
      BY <2>2
    <3> QED
      BY <3>1, <3>2
  <2>4. ASSUME NEW s \in Small(S, m + 1) PROVE Step(g, f, s) = Step(h, f, s)
    <3>1. CASE s = {}
      BY <3>1 DEF Step
    <3>2. CASE s # {}
      <4>1. Pick(s) \in s
        BY <3>2, PickIn
      <4>2. IsFiniteSet(s) /\ s \subseteq S /\ Cardinality(s) <= m + 1 /\ Cardinality(s) \in Nat
        BY <1>0 DEF Small
      <4>3. Cardinality(s \ {Pick(s)}) = Cardinality(s) - 1
        BY <4>1, <4>2, FS_RemoveElement
      <4>4. s \ {Pick(s)} \in Small(S, m)
        BY <4>2, <4>3 DEF Small
      <4> QED
        BY <3>2, <4>4, <2>3 DEF Step
    <3> QED
      BY <3>1, <3>2
  <2>5. h = [s \in Small(S, m + 1) |-> Step(h, f, s)]
    BY <2>4
  <2> HIDE DEF h
  <2> QED
    BY <2>5
<1>3. Good = Nat
  <2>1. 0 \in Good
    BY <1>1
  <2>2. \A m \in Good : m + 1 \in Good
    BY <1>2
  <2> HIDE DEF Good
  <2>3. Good \in SUBSET Nat
    BY DEF Good
  <2> QED
    BY <2>1, <2>2, <2>3, NumberInduction
<1> QED
  BY <1>3

LEMMA SumsOnStep ==
  ASSUME NEW f, NEW S, IsFiniteSet(S), NEW s \in SUBSET S
  PROVE  SumsOn(f, S)[s] = Step(SumsOn(f, S), f, s)
<1> DEFINE n == Cardinality(S)
           h == SumsOn(f, S)
<1>0. n \in Nat
  BY FS_CardinalityType
<1>1. Small(S, n) = SUBSET S
  BY FS_Subset DEF Small
<1> HIDE DEF n, h
<1>2. PICK g : g = [r \in Small(S, n) |-> Step(g, f, r)]
  BY <1>0, SmallSums
<1>3. IsSum(g, f, S)
  BY <1>1, <1>2 DEF IsSum, Step
<1>4. IsSum(h, f, S)
  BY <1>3 DEF SumsOn, h
<1>5. h = [r \in SUBSET S |-> Step(h, f, r)]
  BY <1>4 DEF IsSum, Step
<1>6. h[s] = Step(h, f, s)
  BY <1>5
<1> QED
  BY <1>6 DEF h

(***************************************************************************)
(* The functions for a set and for a part of it agree.                     *)
(***************************************************************************)
LEMMA SumsAgree ==
  ASSUME NEW f, NEW S, IsFiniteSet(S), NEW T \in SUBSET S
  PROVE  SumsOn(f, T)[T] = SumsOn(f, S)[T]
<1> DEFINE Good == {s \in SUBSET T : SumsOn(f, T)[s] = SumsOn(f, S)[s]}
<1>1. IsFiniteSet(T)
  BY FS_Subset
<1>2. ASSUME NEW s \in SUBSET T, s = {} \/ s \ {Pick(s)} \in Good PROVE s \in Good
  <2>1. SumsOn(f, T)[s] = Step(SumsOn(f, T), f, s) /\ SumsOn(f, S)[s] = Step(SumsOn(f, S), f, s)
    BY <1>1, SumsOnStep
  <2> QED
    BY <1>2, <2>1 DEF Step
<1>3. {} \in Good
  BY <1>2
<1>4. \A s \in SUBSET T : s # {} /\ (\A x \in s : s \ {x} \in Good) => s \in Good
  BY <1>2, PickIn
<1>5. Good \in SUBSET SUBSET T
  OBVIOUS
<1> HIDE DEF Good
<1>6. T \in Good
  BY <1>1, <1>3, <1>4, <1>5, SetInduction
<1> QED
  BY <1>6 DEF Good

-----------------------------------------------------------------------------
(***************************************************************************)
(* A sum over no index; a sum without the element that the definition      *)
(* picks; the type of a sum; a sum without any of its elements.            *)
(***************************************************************************)
LEMMA SumEmpty == ASSUME NEW f PROVE SumFunctionOnSet(f, {}) = 0
<1>1. SumsOn(f, {})[{}] = Step(SumsOn(f, {}), f, {})
  BY SumsOnStep, FS_EmptySet
<1> QED
  BY <1>1, SumIsChosen DEF Step

LEMMA SumPick ==
  ASSUME NEW f, NEW S, IsFiniteSet(S), S # {}
  PROVE  SumFunctionOnSet(f, S) = f[Pick(S)] + SumFunctionOnSet(f, S \ {Pick(S)})
<1> DEFINE T == S \ {Pick(S)}
<1>1. SumsOn(f, S)[S] = f[Pick(S)] + SumsOn(f, S)[T]
  BY SumsOnStep DEF Step
<1>2. SumsOn(f, T)[T] = SumsOn(f, S)[T]
  BY SumsAgree
<1> QED
  BY <1>1, <1>2, SumIsChosen

LEMMA SumInt ==
  ASSUME NEW f, NEW S, IsFiniteSet(S), \A s \in S : f[s] \in Int
  PROVE  SumFunctionOnSet(f, S) \in Int
<1> DEFINE Good == {s \in SUBSET S : SumFunctionOnSet(f, s) \in Int}
<1>1. {} \in Good /\ Good \in SUBSET SUBSET S
  BY SumEmpty
<1>2. ASSUME NEW s \in SUBSET S, s # {}, \A x \in s : s \ {x} \in Good PROVE s \in Good
  <2>1. IsFiniteSet(s) /\ Pick(s) \in s
    BY <1>2, PickIn, FS_Subset
  <2>2. SumFunctionOnSet(f, s) = f[Pick(s)] + SumFunctionOnSet(f, s \ {Pick(s)})
    BY <1>2, <2>1, SumPick
  <2> QED
    BY <1>2, <2>1, <2>2
<1> HIDE DEF Good
<1>3. S \in Good
  BY <1>1, <1>2, SetInduction
<1> QED
  BY <1>3 DEF Good

LEMMA SumRemove ==
  ASSUME NEW f, NEW S, IsFiniteSet(S), \A s \in S : f[s] \in Int, NEW x \in S
  PROVE  SumFunctionOnSet(f, S) = f[x] + SumFunctionOnSet(f, S \ {x})
<1> DEFINE Sum(s) == SumFunctionOnSet(f, s)
           Good == {s \in SUBSET S : \A y \in s : Sum(s) = f[y] + Sum(s \ {y})}
<1>1. {} \in Good /\ Good \in SUBSET SUBSET S
  OBVIOUS
<1>2. ASSUME NEW s \in SUBSET S, s # {}, \A y \in s : s \ {y} \in Good PROVE s \in Good
  <2> SUFFICES ASSUME NEW y \in s PROVE Sum(s) = f[y] + Sum(s \ {y})
    OBVIOUS
  <2> DEFINE z == Pick(s)
             rest == (s \ {y}) \ {z}
  <2>1. IsFiniteSet(s) /\ z \in s
    BY <1>2, PickIn, FS_Subset
  <2>2. Sum(s) = f[z] + Sum(s \ {z})
    BY <2>1, SumPick
  <2>3. CASE y # z
    <3>1. s \ {z} \in Good /\ s \ {y} \in Good
      BY <1>2, <2>1
    <3>2. Sum(s \ {z}) = f[y] + Sum((s \ {z}) \ {y}) /\ Sum(s \ {y}) = f[z] + Sum(rest)
      BY <2>1, <2>3, <3>1
    <3>3. (s \ {z}) \ {y} = rest /\ rest \in SUBSET S
      OBVIOUS
    <3>4. Sum(rest) \in Int /\ f[y] \in Int /\ f[z] \in Int
      BY <2>1, <3>3, FS_Subset, SumInt
    <3>5. Sum(s \ {z}) = f[y] + Sum(rest)
      BY <3>2, <3>3
    <3> HIDE DEF Sum, z, rest, Good
    <3> QED
      BY <2>2, <3>2, <3>4, <3>5
  <2> QED
    BY <2>2, <2>3
<1> HIDE DEF Good
<1>3. S \in Good
  BY <1>1, <1>2, SetInduction
<1> QED
  BY <1>3 DEF Good

-----------------------------------------------------------------------------
(***************************************************************************)
(* What follows from these four.                                           *)
(***************************************************************************)
LEMMA SumAdd ==
  ASSUME NEW f, NEW S, IsFiniteSet(S), \A s \in S : f[s] \in Int, NEW x, x \notin S, f[x] \in Int
  PROVE  SumFunctionOnSet(f, S \cup {x}) = f[x] + SumFunctionOnSet(f, S)
<1>1. IsFiniteSet(S \cup {x}) /\ (S \cup {x}) \ {x} = S
  BY FS_AddElement
<1> QED
  BY <1>1, SumRemove

LEMMA SumOne ==
  ASSUME NEW f, NEW x, f[x] \in Int
  PROVE  SumFunctionOnSet(f, {x}) = f[x]
<1>1. {} \cup {x} = {x}
  OBVIOUS
<1>2. SumFunctionOnSet(f, {} \cup {x}) = f[x] + SumFunctionOnSet(f, {})
  BY SumAdd, FS_EmptySet
<1> QED
  BY <1>1, <1>2, SumEmpty

LEMMA SumSame ==
  ASSUME NEW f, NEW g, NEW S, IsFiniteSet(S), \A s \in S : f[s] = g[s]
  PROVE  SumFunctionOnSet(f, S) = SumFunctionOnSet(g, S)
<1> DEFINE Good == {s \in SUBSET S : SumFunctionOnSet(f, s) = SumFunctionOnSet(g, s)}
<1>1. {} \in Good /\ Good \in SUBSET SUBSET S
  BY SumEmpty
<1>2. ASSUME NEW s \in SUBSET S, s # {}, \A x \in s : s \ {x} \in Good PROVE s \in Good
  <2>1. IsFiniteSet(s) /\ Pick(s) \in s
    BY <1>2, PickIn, FS_Subset
  <2>2. /\ SumFunctionOnSet(f, s) = f[Pick(s)] + SumFunctionOnSet(f, s \ {Pick(s)})
        /\ SumFunctionOnSet(g, s) = g[Pick(s)] + SumFunctionOnSet(g, s \ {Pick(s)})
    BY <1>2, <2>1, SumPick
  <2> QED
    BY <1>2, <2>1, <2>2
<1> HIDE DEF Good
<1>3. S \in Good
  BY <1>1, <1>2, SetInduction
<1> QED
  BY <1>3 DEF Good

(***************************************************************************)
(* A sum of sums, and a sum of multiples.                                  *)
(***************************************************************************)
LEMMA SumPlus ==
  ASSUME NEW f, NEW g, NEW h, NEW S, IsFiniteSet(S),
         \A s \in S : f[s] \in Int /\ g[s] \in Int /\ h[s] = f[s] + g[s]
  PROVE  SumFunctionOnSet(h, S) = SumFunctionOnSet(f, S) + SumFunctionOnSet(g, S)
<1> DEFINE Good == {s \in SUBSET S :
                      SumFunctionOnSet(h, s) = SumFunctionOnSet(f, s) + SumFunctionOnSet(g, s)}
<1>1. {} \in Good /\ Good \in SUBSET SUBSET S
  BY SumEmpty
<1>2. ASSUME NEW s \in SUBSET S, s # {}, \A x \in s : s \ {x} \in Good PROVE s \in Good
  <2> DEFINE x == Pick(s)
             t == s \ {x}
  <2>1. IsFiniteSet(s) /\ IsFiniteSet(t) /\ x \in s /\ x \in S /\ t \in Good
    BY <1>2, PickIn, FS_Subset
  <2>2. /\ SumFunctionOnSet(f, s) = f[x] + SumFunctionOnSet(f, t)
        /\ SumFunctionOnSet(g, s) = g[x] + SumFunctionOnSet(g, t)
        /\ SumFunctionOnSet(h, s) = h[x] + SumFunctionOnSet(h, t)
    BY <1>2, <2>1, SumPick
  <2>3. SumFunctionOnSet(f, t) \in Int /\ SumFunctionOnSet(g, t) \in Int
    BY <2>1, SumInt
  <2>4. SumFunctionOnSet(h, t) = SumFunctionOnSet(f, t) + SumFunctionOnSet(g, t)
    BY <2>1
  <2>5. f[x] \in Int /\ g[x] \in Int /\ h[x] = f[x] + g[x]
    BY <2>1
  <2> HIDE DEF x, t
  <2> QED
    BY <2>2, <2>3, <2>4, <2>5
<1> HIDE DEF Good
<1>3. S \in Good
  BY <1>1, <1>2, SetInduction
<1> QED
  BY <1>3 DEF Good

LEMMA SumTimes ==
  ASSUME NEW f, NEW h, NEW k \in Int, NEW S, IsFiniteSet(S),
         \A s \in S : f[s] \in Int /\ h[s] = k * f[s]
  PROVE  SumFunctionOnSet(h, S) = k * SumFunctionOnSet(f, S)
<1> DEFINE Good == {s \in SUBSET S : SumFunctionOnSet(h, s) = k * SumFunctionOnSet(f, s)}
<1>1. {} \in Good /\ Good \in SUBSET SUBSET S
  BY SumEmpty
<1>2. ASSUME NEW s \in SUBSET S, s # {}, \A x \in s : s \ {x} \in Good PROVE s \in Good
  <2> DEFINE x == Pick(s)
             t == s \ {x}
             a == f[x]
             b == SumFunctionOnSet(f, t)
  <2>1. IsFiniteSet(s) /\ IsFiniteSet(t) /\ x \in s /\ x \in S /\ t \in Good
    BY <1>2, PickIn, FS_Subset
  <2>2. /\ SumFunctionOnSet(f, s) = a + b
        /\ SumFunctionOnSet(h, s) = h[x] + SumFunctionOnSet(h, t)
    BY <1>2, <2>1, SumPick
  <2>3. b \in Int
    BY <2>1, SumInt
  <2>4. SumFunctionOnSet(h, t) = k * b
    BY <2>1
  <2>5. a \in Int /\ h[x] = k * a
    BY <2>1
  <2> HIDE DEF x, t, a, b
  <2>6. k * (a + b) = k * a + k * b
    BY <2>3, <2>5
  <2> QED
    BY <2>2, <2>4, <2>5, <2>6
<1> HIDE DEF Good
<1>3. S \in Good
  BY <1>1, <1>2, SetInduction
<1> QED
  BY <1>3 DEF Good

(***************************************************************************)
(* Sums of numbers that are not negative; comparing sums; parts of sums.   *)
(***************************************************************************)
LEMMA SumNat ==
  ASSUME NEW f, NEW S, IsFiniteSet(S), \A s \in S : f[s] \in Nat
  PROVE  SumFunctionOnSet(f, S) \in Nat
<1> DEFINE Good == {s \in SUBSET S : SumFunctionOnSet(f, s) \in Nat}
<1>1. {} \in Good /\ Good \in SUBSET SUBSET S
  BY SumEmpty
<1>2. ASSUME NEW s \in SUBSET S, s # {}, \A x \in s : s \ {x} \in Good PROVE s \in Good
  <2>1. IsFiniteSet(s) /\ Pick(s) \in s
    BY <1>2, PickIn, FS_Subset
  <2>2. SumFunctionOnSet(f, s) = f[Pick(s)] + SumFunctionOnSet(f, s \ {Pick(s)})
    BY <1>2, <2>1, SumPick
  <2> QED
    BY <1>2, <2>1, <2>2
<1> HIDE DEF Good
<1>3. S \in Good
  BY <1>1, <1>2, SetInduction
<1> QED
  BY <1>3 DEF Good

LEMMA SumAtMost ==
  ASSUME NEW f, NEW g, NEW S, IsFiniteSet(S),
         \A s \in S : f[s] \in Int /\ g[s] \in Int /\ f[s] <= g[s]
  PROVE  SumFunctionOnSet(f, S) <= SumFunctionOnSet(g, S)
<1> DEFINE d == [s \in S |-> g[s] - f[s]]
<1>1. SumFunctionOnSet(d, S) \in Nat
  BY SumNat
<1>2. SumFunctionOnSet(g, S) = SumFunctionOnSet(f, S) + SumFunctionOnSet(d, S)
  BY SumPlus
<1>3. SumFunctionOnSet(f, S) \in Int
  BY SumInt
<1> QED
  BY <1>1, <1>2, <1>3

LEMMA SumUnion ==
  ASSUME NEW f, NEW S, NEW T, IsFiniteSet(S), IsFiniteSet(T), S \cap T = {},
         \A s \in S \cup T : f[s] \in Int
  PROVE  SumFunctionOnSet(f, S \cup T) = SumFunctionOnSet(f, S) + SumFunctionOnSet(f, T)
<1> DEFINE Good == {s \in SUBSET T :
                      SumFunctionOnSet(f, S \cup s) = SumFunctionOnSet(f, S) + SumFunctionOnSet(f, s)}
<1>0. SumFunctionOnSet(f, S) \in Int
  BY SumInt
<1>1. {} \in Good /\ Good \in SUBSET SUBSET T
  <2>1. S \cup {} = S
    OBVIOUS
  <2> QED
    BY <1>0, <2>1, SumEmpty
<1>2. ASSUME NEW s \in SUBSET T, s # {}, \A x \in s : s \ {x} \in Good PROVE s \in Good
  <2> DEFINE x == Pick(s)
             t == s \ {x}
  <2>1. IsFiniteSet(s) /\ IsFiniteSet(t) /\ x \in s /\ t \in Good /\ IsFiniteSet(S \cup s)
    BY <1>2, PickIn, FS_Subset, FS_Union
  <2>2. (S \cup s) \ {x} = S \cup t
    BY <2>1
  <2>3. SumFunctionOnSet(f, S \cup s) = f[x] + SumFunctionOnSet(f, S \cup t)
    BY <2>1, <2>2, SumRemove
  <2>4. SumFunctionOnSet(f, s) = f[x] + SumFunctionOnSet(f, t)
    BY <2>1, SumRemove
  <2>5. SumFunctionOnSet(f, S \cup t) = SumFunctionOnSet(f, S) + SumFunctionOnSet(f, t)
    BY <2>1
  <2>6. SumFunctionOnSet(f, t) \in Int /\ f[x] \in Int
    BY <2>1, SumInt
  <2> HIDE DEF x, t
  <2> QED
    BY <1>0, <2>3, <2>4, <2>5, <2>6
<1> HIDE DEF Good
<1>3. T \in Good
  BY <1>1, <1>2, SetInduction
<1> QED
  BY <1>3 DEF Good

LEMMA SumPart ==
  ASSUME NEW f, NEW S, IsFiniteSet(S), \A s \in S : f[s] \in Nat, NEW T \in SUBSET S
  PROVE  SumFunctionOnSet(f, T) <= SumFunctionOnSet(f, S)
<1> DEFINE R == S \ T
<1>1. T \cup R = S /\ T \cap R = {} /\ IsFiniteSet(T) /\ IsFiniteSet(R)
  BY FS_Subset
<1>2. SumFunctionOnSet(f, T \cup R) = SumFunctionOnSet(f, T) + SumFunctionOnSet(f, R)
  BY <1>1, SumUnion
<1>3. SumFunctionOnSet(f, T) \in Nat /\ SumFunctionOnSet(f, R) \in Nat
  BY <1>1, SumNat
<1>4. SumFunctionOnSet(f, S) = SumFunctionOnSet(f, T) + SumFunctionOnSet(f, R)
  BY <1>1, <1>2
<1> HIDE DEF R
<1> QED
  BY <1>3, <1>4

(***************************************************************************)
(* A sum of ones counts; each summand is at most the sum.                  *)
(***************************************************************************)
LEMMA SumOnes ==
  ASSUME NEW f, NEW S, IsFiniteSet(S), \A s \in S : f[s] = 1
  PROVE  SumFunctionOnSet(f, S) = Cardinality(S)
<1> DEFINE Good == {s \in SUBSET S : SumFunctionOnSet(f, s) = Cardinality(s)}
<1>1. {} \in Good /\ Good \in SUBSET SUBSET S
  BY SumEmpty, FS_EmptySet
<1>2. ASSUME NEW s \in SUBSET S, s # {}, \A x \in s : s \ {x} \in Good PROVE s \in Good
  <2> DEFINE t == s \ {Pick(s)}
  <2>1. IsFiniteSet(s) /\ Pick(s) \in s /\ t \in Good
    BY <1>2, PickIn, FS_Subset
  <2>2. SumFunctionOnSet(f, s) = 1 + SumFunctionOnSet(f, t)
    BY <1>2, <2>1, SumPick
  <2>3. Cardinality(t) = Cardinality(s) - 1 /\ Cardinality(s) \in Nat
    BY <2>1, FS_RemoveElement, FS_CardinalityType
  <2> HIDE DEF t
  <2>4. SumFunctionOnSet(f, t) = Cardinality(t)
    BY <2>1
  <2> QED
    BY <2>2, <2>3, <2>4
<1> HIDE DEF Good
<1>3. S \in Good
  BY <1>1, <1>2, SetInduction
<1> QED
  BY <1>3 DEF Good

LEMMA SumHolds ==
  ASSUME NEW f, NEW S, IsFiniteSet(S), \A s \in S : f[s] \in Nat, NEW x \in S
  PROVE  f[x] <= SumFunctionOnSet(f, S)
<1>1. f[x] \in Int
  OBVIOUS
<1>2. SumFunctionOnSet(f, {x}) = f[x]
  BY <1>1, SumOne
<1>3. {x} \in SUBSET S
  OBVIOUS
<1>4. SumFunctionOnSet(f, {x}) <= SumFunctionOnSet(f, S)
  BY <1>3, SumPart
<1> QED
  BY <1>2, <1>4

(***************************************************************************)
(* What is 0 may be left out.                                              *)
(***************************************************************************)
LEMMA SumZeros ==
  ASSUME NEW f, NEW S, IsFiniteSet(S), NEW T \in SUBSET S, \A s \in S : f[s] \in Int,
         \A s \in S \ T : f[s] = 0
  PROVE  SumFunctionOnSet(f, S) = SumFunctionOnSet(f, T)
<1> DEFINE R == S \ T
           g == [s \in R |-> 0]
<1>1. T \cup R = S /\ T \cap R = {} /\ IsFiniteSet(T) /\ IsFiniteSet(R)
  BY FS_Subset
<1>2. SumFunctionOnSet(f, T \cup R) = SumFunctionOnSet(f, T) + SumFunctionOnSet(f, R)
  BY <1>1, SumUnion
<1>3. SumFunctionOnSet(f, R) = SumFunctionOnSet(g, R)
  BY <1>1, SumSame
<1>4. SumFunctionOnSet(g, R) = 0 * SumFunctionOnSet(g, R) /\ SumFunctionOnSet(g, R) \in Int
  BY <1>1, SumTimes, SumInt
<1>5. SumFunctionOnSet(f, T) \in Int
  BY <1>1, SumInt
<1>6. SumFunctionOnSet(g, R) = 0
  BY <1>4
<1>7. SumFunctionOnSet(f, S) = SumFunctionOnSet(f, T) + SumFunctionOnSet(f, R)
  BY <1>1, <1>2
<1> HIDE DEF R, g
<1> QED
  BY <1>3, <1>5, <1>6, <1>7

(***************************************************************************)
(* Elements may be renamed.                                                *)
(***************************************************************************)
LEMMA SumRenamed ==
  ASSUME NEW S, IsFiniteSet(S), NEW f, NEW r, NEW g,
         \A s \in S : g[s] \in Int /\ f[r[s]] = g[s],
         \A s, t \in S : r[s] = r[t] => s = t
  PROVE  /\ SumFunctionOnSet(f, {r[s] : s \in S}) = SumFunctionOnSet(g, S)
         /\ IsFiniteSet({r[s] : s \in S})
<1> DEFINE Image(s) == {r[x] : x \in s}
           Good == {s \in SUBSET S : /\ IsFiniteSet(Image(s))
                                     /\ SumFunctionOnSet(f, Image(s)) = SumFunctionOnSet(g, s)}
<1>1. {} \in Good /\ Good \in SUBSET SUBSET S
  <2>1. Image({}) = {}
    OBVIOUS
  <2> QED
    BY <2>1, SumEmpty, FS_EmptySet
<1>2. ASSUME NEW s \in SUBSET S, s # {}, \A x \in s : s \ {x} \in Good PROVE s \in Good
  <2>1. PICK x \in s : TRUE
    BY <1>2
  <2> DEFINE t == s \ {x}
  <2>2. t \in Good /\ IsFiniteSet(s) /\ x \in S
    BY <1>2, <2>1, FS_Subset
  <2>3. Image(s) = Image(t) \cup {r[x]} /\ r[x] \notin Image(t)
    BY <2>1
  <2>4. \A y \in Image(t) \cup {r[x]} : f[y] \in Int
    BY <2>2
  <2>5. IsFiniteSet(Image(t)) /\ SumFunctionOnSet(f, Image(t)) = SumFunctionOnSet(g, t)
    BY <2>2
  <2> HIDE DEF Image
  <2>6. /\ SumFunctionOnSet(f, Image(t) \cup {r[x]}) = f[r[x]] + SumFunctionOnSet(f, Image(t))
        /\ IsFiniteSet(Image(t) \cup {r[x]})
    BY <2>3, <2>4, <2>5, SumAdd, FS_AddElement
  <2>7. SumFunctionOnSet(g, s) = g[x] + SumFunctionOnSet(g, t)
    BY <2>1, <2>2, SumRemove
  <2>8. f[r[x]] = g[x]
    BY <2>2
  <2> QED
    BY <2>3, <2>5, <2>6, <2>7, <2>8
<1> HIDE DEF Good
<1>3. S \in Good
  BY <1>1, <1>2, SetInduction
<1> QED
  BY <1>3 DEF Good

LEMMA FiniteImage ==
  ASSUME NEW S, IsFiniteSet(S), NEW r
  PROVE  IsFiniteSet({r[s] : s \in S})
<1> DEFINE T == {r[s] : s \in S}
           f == [s \in S |-> r[s]]
<1>1. f \in Surjection(S, T)
  BY DEF Surjection
<1> HIDE DEF T, f
<1>2. IsFiniteSet(T)
  BY <1>1, FS_Surjection
<1> QED
  BY <1>2 DEF T

-----------------------------------------------------------------------------
(***************************************************************************)
(* The largest of a finite set of numbers.                                 *)
(***************************************************************************)
LEMMA MaxIsLargest ==
  ASSUME NEW S \in SUBSET Int, IsFiniteSet(S), S # {}
  PROVE  Max(S) \in S /\ \A x \in S : x <= Max(S)
<1> DEFINE Good == {s \in SUBSET S : s # {} => \E m \in s : \A x \in s : x <= m}
<1>1. {} \in Good /\ Good \in SUBSET SUBSET S
  OBVIOUS
<1>2. ASSUME NEW s \in SUBSET S, s # {}, \A x \in s : s \ {x} \in Good PROVE s \in Good
  <2>1. PICK y \in s : TRUE
    BY <1>2
  <2> SUFFICES \E m \in s : \A x \in s : x <= m
    OBVIOUS
  <2>2. CASE s \ {y} = {}
    BY <2>1, <2>2
  <2>3. CASE s \ {y} # {}
    <3>1. PICK m \in s \ {y} : \A x \in s \ {y} : x <= m
      BY <1>2, <2>1, <2>3
    <3>2. y \in Int /\ m \in Int
      OBVIOUS
    <3>3. CASE y <= m
      BY <3>1, <3>3
    <3>4. CASE ~(y <= m)
      <4>1. \A x \in s : x <= y
        BY <3>1, <3>2, <3>4
      <4> QED
        BY <4>1
    <3> QED
      BY <3>3, <3>4
  <2> QED
    BY <2>2, <2>3
<1> HIDE DEF Good
<1>3. S \in Good
  BY <1>1, <1>2, SetInduction
<1>4. \E m \in S : \A x \in S : m >= x
  BY <1>3 DEF Good
<1> QED
  BY <1>4 DEF Max

LEMMA MaxIs ==
  ASSUME NEW S \in SUBSET Int, NEW m \in S, \A x \in S : x <= m
  PROVE  Max(S) = m
<1>1. \A n \in S : (\A x \in S : n >= x) => n = m
  OBVIOUS
<1> QED
  BY <1>1 DEF Max
=============================================================================
