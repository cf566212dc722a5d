---------------------------- MODULE Ledger_proofs ----------------------------
(***************************************************************************)
(* Credit is kept: while nothing stops the enclave every account has what  *)
(* it is due; over stops no lot has more than it was sold for and none     *)
(* loses what was not used; a payment is one lot.  For any accounts,       *)
(* amounts and bounds, and with any number of records on their way to the  *)
(* disk.                                                                   *)
(*                                                                         *)
(* What a handler writes down is a run of statements.  For each handler    *)
(* `Handled` says where its run leads: to a book that fits the open        *)
(* requests, keeps the accounts balanced, and is reached through books     *)
(* whose lots were all sold.  So the disk, wherever in a run it is, holds  *)
(* such a book, and `Chain` says how the rest of the records lead from it  *)
(* to the book in memory.                                                  *)
(***************************************************************************)
EXTENDS Ledger, TLAPS, FiniteSetTheorems, WellFoundedInduction

-----------------------------------------------------------------------------
(* Sums over finite sets.                                                  *)

\* A set that holds 0 and with each number the next holds them all.
LEMMA InductionOnNumbers ==
  ASSUME NEW T, 0 \in T, \A n \in Nat : n \in T => n + 1 \in T
  PROVE  Nat \subseteq T
<1> SUFFICES ASSUME Nat \ T # {}
             PROVE  FALSE
  OBVIOUS
<1> DEFINE R == OpToRel(<, Nat)
           N == Nat \ T
<1>1. IsWellFoundedOn(R, Nat)
  BY NatLessThanWellFounded
<1>2. \A x, y \in Nat : y < x => <<y, x>> \in R
  BY DEF OpToRel
<1> HIDE DEF R
<1>3. N \subseteq Nat /\ N # {}
  OBVIOUS
<1>4. PICK n \in N : \A k \in N : ~(<<k, n>> \in R)
  <2> HIDE DEF N
  <2> QED BY <1>1, <1>3, WFMin
<1>5. n # 0 /\ n \in Nat
  OBVIOUS
<1>6. n - 1 \in Nat /\ n - 1 < n
  BY <1>5
<1>7. n - 1 \in T
  BY <1>2, <1>4, <1>5, <1>6
<1> QED BY <1>6, <1>7

-----------------------------------------------------------------------------
Sum(f, S) == SumFunctionOnSet(f, S)
AnyOf(S) == CHOOSE x \in S : TRUE
Sized(S, n) == {s \in SUBSET S : Cardinality(s) <= n}
SumStep(iter, f, s) == IF s = {} THEN 0 ELSE f[AnyOf(s)] + iter[s \ {AnyOf(s)}]
SumsBy(iter, f, D) == iter = [s \in D |-> SumStep(iter, f, s)]
SumIter(f, S) == CHOOSE iter : SumsBy(iter, f, SUBSET S)

\* A sum is the last of its partial sums.
LEMMA SumIs ==
  ASSUME NEW f, NEW S
  PROVE  Sum(f, S) = SumIter(f, S)[S]
BY DEF Sum, SumFunctionOnSet, FoldFunctionOnSet, MapThenFoldSet, SumIter, SumsBy, SumStep, AnyOf

SmallSet(s) ==
  /\ IsFiniteSet(s)
  /\ Cardinality(s) \in Nat
  /\ (s = {}) <=> (Cardinality(s) = 0)
  /\ s # {} => /\ AnyOf(s) \in s
              /\ IsFiniteSet(s \ {AnyOf(s)})
              /\ Cardinality(s \ {AnyOf(s)}) = Cardinality(s) - 1

\* What is used of finite sets: their size, and that taking one out makes it one less.
LEMMA SmallSets ==
  ASSUME NEW s, IsFiniteSet(s)
  PROVE  SmallSet(s)
<1>1. s # {} => AnyOf(s) \in s
  BY DEF AnyOf
<1>2. Cardinality(s) \in Nat
  BY FS_CardinalityType
<1>3. (s = {}) <=> (Cardinality(s) = 0)
  BY FS_EmptySet
<1>4. /\ IsFiniteSet(s \ {AnyOf(s)})
      /\ AnyOf(s) \in s => Cardinality(s \ {AnyOf(s)}) = Cardinality(s) - 1
  BY FS_RemoveElement
<1> QED BY <1>1, <1>2, <1>3, <1>4 DEF SmallSet

\* The partial sums over subsets of some size at most are there.
LEMMA SumsBySize ==
  ASSUME NEW f, NEW S, IsFiniteSet(S)
  PROVE  \A n \in Nat : \E iter : SumsBy(iter, f, Sized(S, n))
<1> DEFINE T == {n \in Nat : \E iter : SumsBy(iter, f, Sized(S, n))}
<1>0. \A s \in SUBSET S : SmallSet(s)
  BY FS_Subset, SmallSets
<1>1. 0 \in T
  <2> DEFINE g == [s \in Sized(S, 0) |-> 0]
  <2>1. \A s \in Sized(S, 0) : s = {}
    <3> SUFFICES ASSUME NEW s \in Sized(S, 0)
                 PROVE  s = {}
      OBVIOUS
    <3>1. s \in SUBSET S /\ Cardinality(s) <= 0
      BY DEF Sized
    <3>2. SmallSet(s)
      BY <1>0, <3>1
    <3>3. Cardinality(s) = 0
      BY <3>1, <3>2 DEF SmallSet
    <3> QED BY <3>2, <3>3 DEF SmallSet
  <2>2. SumsBy(g, f, Sized(S, 0))
    BY <2>1 DEF SumsBy, SumStep
  <2> QED BY <2>2
<1>2. ASSUME NEW n \in Nat, n \in T
      PROVE  n + 1 \in T
  <2>1. PICK g : SumsBy(g, f, Sized(S, n))
    BY <1>2
  <2> DEFINE h == [s \in Sized(S, n + 1) |-> SumStep(g, f, s)]
  <2>2. ASSUME NEW s \in Sized(S, n + 1)
        PROVE  h[s] = SumStep(h, f, s)
    <3>1. CASE s = {}
      BY <3>1 DEF SumStep
    <3>2. CASE s # {}
      <4> DEFINE t == s \ {AnyOf(s)}
      <4>1. t \in SUBSET S /\ Cardinality(t) = Cardinality(s) - 1
        <5>1. s \in SUBSET S
          BY DEF Sized
        <5>2. SmallSet(s)
          BY <1>0, <5>1
        <5> QED BY <3>2, <5>1, <5>2 DEF SmallSet
      <4>2. t \in Sized(S, n) /\ t \in Sized(S, n + 1)
        <5>1. s \in SUBSET S /\ Cardinality(s) <= n + 1
          BY DEF Sized
        <5>2. SmallSet(s)
          BY <1>0, <5>1
        <5>3. Cardinality(s) \in Nat
          BY <5>2 DEF SmallSet
        <5>4. Cardinality(t) <= n /\ Cardinality(t) <= n + 1
          BY <4>1, <5>1, <5>3
        <5> HIDE DEF t
        <5> QED BY <4>1, <5>4 DEF Sized
      <4>3. h[t] = SumStep(g, f, t)
        BY <4>2
      <4>4. g[t] = SumStep(g, f, t)
        BY <2>1, <4>2 DEF SumsBy
      <4>5. h[t] = g[t]
        BY <4>3, <4>4
      <4>6. h[s] = SumStep(g, f, s)
        OBVIOUS
      <4> HIDE DEF h
      <4> QED BY <3>2, <4>5, <4>6 DEF SumStep
    <3> QED BY <3>1, <3>2
  <2>3. h = [s \in Sized(S, n + 1) |-> h[s]]
    OBVIOUS
  <2> HIDE DEF h
  <2>4. SumsBy(h, f, Sized(S, n + 1))
    BY <2>2, <2>3 DEF SumsBy
  <2> QED BY <2>4
<1> HIDE DEF T
<1>3. Nat \subseteq T
  BY <1>1, <1>2, InductionOnNumbers
<1> QED BY <1>3 DEF T

\* The iteration behind a sum over a finite set is there, and obeys its equation.
LEMMA SumIterIs ==
  ASSUME NEW f, NEW S, IsFiniteSet(S), NEW s \in SUBSET S
  PROVE  SumIter(f, S)[s] = SumStep(SumIter(f, S), f, s)
<1>1. Cardinality(S) \in Nat
  BY FS_CardinalityType
<1>2. Sized(S, Cardinality(S)) = SUBSET S
  BY FS_Subset DEF Sized
<1>3. \E iter : SumsBy(iter, f, SUBSET S)
  <2>1. \E iter : SumsBy(iter, f, Sized(S, Cardinality(S)))
    BY <1>1, SumsBySize
  <2> QED BY <1>2, <2>1
<1>4. SumsBy(SumIter(f, S), f, SUBSET S)
  BY <1>3 DEF SumIter
<1> DEFINE g == SumIter(f, S)
<1>5. g = [r \in SUBSET S |-> SumStep(g, f, r)]
  BY <1>4 DEF SumsBy
<1> HIDE DEF g
<1>6. g[s] = SumStep(g, f, s)
  BY <1>5
<1> QED BY <1>6 DEF g

\* A partial sum does not depend on the set it is a part of.
LEMMA SumInside ==
  ASSUME NEW f, NEW S, IsFiniteSet(S)
  PROVE  \A s \in SUBSET S : SumIter(f, S)[s] = Sum(f, s)
<1> DEFINE Agree(A, s) == SumIter(f, A)[s] = SumIter(f, s)[s]
           T == {n \in Nat : \A A \in SUBSET S : \A s \in SUBSET A :
                               Cardinality(s) = n => Agree(A, s)}
<1>0. \A s \in SUBSET S : SmallSet(s)
  BY FS_Subset, SmallSets
<1>1. 0 \in T
  <2>1. ASSUME NEW A \in SUBSET S, NEW s \in SUBSET A, Cardinality(s) = 0
        PROVE  Agree(A, s)
    <3>1. s = {} /\ s \in SUBSET s /\ IsFiniteSet(s) /\ IsFiniteSet(A)
      BY <1>0, <2>1 DEF SmallSet
    <3>2. SumIter(f, A)[s] = 0 /\ SumIter(f, s)[s] = 0
      BY <3>1, SumIterIs DEF SumStep
    <3> QED BY <3>2
  <2> QED BY <2>1
<1>2. ASSUME NEW n \in Nat, n \in T
      PROVE  n + 1 \in T
  <2>1. ASSUME NEW A \in SUBSET S, NEW s \in SUBSET A, Cardinality(s) = n + 1
        PROVE  Agree(A, s)
    <3> DEFINE t == s \ {AnyOf(s)}
    <3>1. SmallSet(s) /\ s # {} /\ IsFiniteSet(A) /\ IsFiniteSet(s)
      <4>1. SmallSet(s) /\ SmallSet(A)
        BY <1>0
      <4> QED BY <2>1, <4>1 DEF SmallSet
    <3>2. t \in SUBSET A /\ t \in SUBSET s /\ s \in SUBSET s /\ Cardinality(t) = n
      BY <2>1, <3>1 DEF SmallSet
    <3>3. /\ SumIter(f, A)[s] = SumStep(SumIter(f, A), f, s)
          /\ SumIter(f, s)[s] = SumStep(SumIter(f, s), f, s)
      BY <3>1, <3>2, SumIterIs
    <3>4. /\ SumIter(f, A)[s] = f[AnyOf(s)] + SumIter(f, A)[t]
          /\ SumIter(f, s)[s] = f[AnyOf(s)] + SumIter(f, s)[t]
      BY <3>1, <3>3 DEF SumStep
    <3>5. Agree(A, t) /\ Agree(s, t)
      <4> HIDE DEF Agree
      <4> QED BY <1>2, <3>2
    <3> QED BY <3>4, <3>5
  <2> QED BY <2>1
<1> HIDE DEF T
<1>3. Nat \subseteq T
  BY <1>1, <1>2, InductionOnNumbers
<1>4. ASSUME NEW s \in SUBSET S
      PROVE  SumIter(f, S)[s] = Sum(f, s)
  <2>1. Cardinality(s) \in T
    BY <1>0, <1>3 DEF SmallSet
  <2>2. Agree(S, s)
    <3> HIDE DEF Agree
    <3> QED BY <2>1 DEF T
  <2> QED BY <2>2, SumIs
<1> QED BY <1>4

-----------------------------------------------------------------------------
\* What holds of every set whose sets with one element less it holds of, holds of
\* every finite set.
LEMMA InductionOnSubsets ==
  ASSUME NEW S, IsFiniteSet(S), NEW T,
         \A s \in SUBSET S : (\A x \in s : s \ {x} \in T) => s \in T
  PROVE  SUBSET S \subseteq T
<1> DEFINE N == {n \in Nat : \A s \in SUBSET S : Cardinality(s) = n => s \in T}
<1>0. \A s \in SUBSET S : SmallSet(s)
  BY FS_Subset, SmallSets
<1>1. 0 \in N
  <2>1. ASSUME NEW s \in SUBSET S, Cardinality(s) = 0
        PROVE  s \in T
    <3>1. SmallSet(s)
      BY <1>0
    <3>2. s = {}
      BY <2>1, <3>1 DEF SmallSet
    <3> QED BY <3>2
  <2> QED BY <2>1
<1>2. ASSUME NEW n \in Nat, n \in N
      PROVE  n + 1 \in N
  <2>1. ASSUME NEW s \in SUBSET S, Cardinality(s) = n + 1
        PROVE  s \in T
    <3>1. ASSUME NEW x \in s
          PROVE  s \ {x} \in T
      <4>1. IsFiniteSet(s)
        BY <1>0 DEF SmallSet
      <4>2. Cardinality(s \ {x}) = Cardinality(s) - 1
        BY <4>1, FS_RemoveElement
      <4>3. Cardinality(s \ {x}) = n /\ s \ {x} \in SUBSET S
        BY <2>1, <4>2
      <4> QED BY <1>2, <4>3
    <3> QED BY <3>1
  <2> QED BY <2>1
<1> HIDE DEF N
<1>3. Nat \subseteq N
  BY <1>1, <1>2, InductionOnNumbers
<1>4. ASSUME NEW s \in SUBSET S
      PROVE  s \in T
  <2>1. Cardinality(s) \in N
    BY <1>0, <1>3 DEF SmallSet
  <2> QED BY <2>1 DEF N
<1> QED BY <1>4

\* A sum is one of its summands and the sum of the others.
LEMMA SumUnfolds ==
  ASSUME NEW f, NEW S, IsFiniteSet(S)
  PROVE  /\ S = {} => Sum(f, S) = 0
         /\ S # {} => Sum(f, S) = f[AnyOf(S)] + Sum(f, S \ {AnyOf(S)})
<1>1. Sum(f, S) = SumStep(SumIter(f, S), f, S)
  BY SumIs, SumIterIs
<1>2. SumIter(f, S)[S \ {AnyOf(S)}] = Sum(f, S \ {AnyOf(S)})
  BY SumInside
<1> QED BY <1>1, <1>2 DEF SumStep

\* A sum is a number, and any element's part can be split off.
LEMMA SumRemove ==
  ASSUME NEW f, NEW S, IsFiniteSet(S), \A x \in S : f[x] \in Int
  PROVE  \A s \in SUBSET S :
           /\ Sum(f, s) \in Int
           /\ \A x \in s : Sum(f, s) = f[x] + Sum(f, s \ {x})
<1> DEFINE T == {s \in SUBSET S : /\ Sum(f, s) \in Int
                                 /\ \A x \in s : /\ Sum(f, s \ {x}) \in Int
                                                 /\ Sum(f, s) = f[x] + Sum(f, s \ {x})}
<1>1. ASSUME NEW s \in SUBSET S, \A x \in s : s \ {x} \in T
      PROVE  s \in T
  <2>1. IsFiniteSet(s)
    BY FS_Subset
  <2>2. CASE s = {}
    <3>1. Sum(f, s) = 0
      BY <2>1, <2>2, SumUnfolds
    <3> QED BY <2>2, <3>1
  <2>3. CASE s # {}
    <3> DEFINE c == AnyOf(s)
    <3>1. c \in s
      BY <2>3 DEF AnyOf
    <3>2. Sum(f, s) = f[c] + Sum(f, s \ {c})
      BY <2>1, <2>3, SumUnfolds
    <3>3. s \ {c} \in T
      BY <1>1, <3>1
    <3> HIDE DEF c
    <3>4. Sum(f, s) \in Int
      BY <3>1, <3>2, <3>3
    <3>5. ASSUME NEW x \in s, x # c
          PROVE  Sum(f, s) = f[x] + Sum(f, s \ {x})
      <4> DEFINE r == (s \ {c}) \ {x}
      <4>1. r = (s \ {x}) \ {c} /\ x \in s \ {c} /\ c \in s \ {x}
        BY <3>1, <3>5
      <4>2. s \ {x} \in T
        BY <1>1
      <4>3. Sum(f, s \ {c}) = f[x] + Sum(f, r)
        BY <3>3, <4>1
      <4>4. Sum(f, s \ {x}) = f[c] + Sum(f, r)
        BY <4>1, <4>2
      <4>5. Sum(f, r) \in Int
        BY <3>3, <4>1
      <4>6. f[x] \in Int /\ f[c] \in Int
        BY <3>1
      <4> HIDE DEF r
      <4> QED BY <3>2, <4>3, <4>4, <4>5, <4>6
    <3>6. \A x \in s : Sum(f, s \ {x}) \in Int
      BY <1>1
    <3> QED BY <3>2, <3>4, <3>5, <3>6
  <2> QED BY <2>2, <2>3
<1>2. SUBSET S \subseteq T
  <2> HIDE DEF T
  <2> QED BY <1>1, InductionOnSubsets
<1> QED BY <1>2

\* Functions that agree on a set have the same sum there.
LEMMA SumSame ==
  ASSUME NEW f, NEW g, NEW S, IsFiniteSet(S), \A x \in S : f[x] = g[x]
  PROVE  Sum(f, S) = Sum(g, S)
<1> DEFINE T == {s \in SUBSET S : Sum(f, s) = Sum(g, s)}
<1>1. ASSUME NEW s \in SUBSET S, \A x \in s : s \ {x} \in T
      PROVE  s \in T
  <2>1. IsFiniteSet(s)
    BY FS_Subset
  <2>2. CASE s = {}
    BY <2>1, <2>2, SumUnfolds
  <2>3. CASE s # {}
    <3>1. AnyOf(s) \in s
      BY <2>3 DEF AnyOf
    <3>2. Sum(f, s) = f[AnyOf(s)] + Sum(f, s \ {AnyOf(s)})
      BY <2>1, <2>3, SumUnfolds
    <3>3. Sum(g, s) = g[AnyOf(s)] + Sum(g, s \ {AnyOf(s)})
      BY <2>1, <2>3, SumUnfolds
    <3>4. Sum(f, s \ {AnyOf(s)}) = Sum(g, s \ {AnyOf(s)}) /\ f[AnyOf(s)] = g[AnyOf(s)]
      BY <1>1, <3>1
    <3> QED BY <3>2, <3>3, <3>4
  <2> QED BY <2>2, <2>3
<1>2. SUBSET S \subseteq T
  <2> HIDE DEF T
  <2> QED BY <1>1, InductionOnSubsets
<1> QED BY <1>2

\* A sum of naturals is a natural.
LEMMA SumNat ==
  ASSUME NEW f, NEW S, IsFiniteSet(S), \A x \in S : f[x] \in Nat
  PROVE  Sum(f, S) \in Nat
<1> DEFINE T == {s \in SUBSET S : Sum(f, s) \in Nat}
<1>1. ASSUME NEW s \in SUBSET S, \A x \in s : s \ {x} \in T
      PROVE  s \in T
  <2>1. IsFiniteSet(s)
    BY FS_Subset
  <2>2. CASE s = {}
    <3>1. Sum(f, s) = 0
      BY <2>1, <2>2, SumUnfolds
    <3> QED BY <3>1
  <2>3. CASE s # {}
    <3>1. AnyOf(s) \in s
      BY <2>3 DEF AnyOf
    <3>2. Sum(f, s) = f[AnyOf(s)] + Sum(f, s \ {AnyOf(s)})
      BY <2>1, <2>3, SumUnfolds
    <3> QED BY <1>1, <3>1, <3>2
  <2> QED BY <2>2, <2>3
<1>2. SUBSET S \subseteq T
  <2> HIDE DEF T
  <2> QED BY <1>1, InductionOnSubsets
<1> QED BY <1>2

\* What one more summand, one less, and one changed do to the sum of a function.
LEMMA SumEmpty == \A f : DOMAIN f = {} => SumFunction(f) = 0
BY SumUnfolds, FS_EmptySet DEF SumFunction, Sum

\* One more in the domain adds what it is given.
LEMMA SumAdded ==
  ASSUME NEW f, NEW g, NEW x, IsFiniteSet(DOMAIN f), x \notin DOMAIN f,
         DOMAIN g = DOMAIN f \cup {x}, \A y \in DOMAIN g : g[y] \in Int,
         \A y \in DOMAIN f : g[y] = f[y]
  PROVE  SumFunction(f) \in Int /\ SumFunction(g) = SumFunction(f) + g[x]
<1>1. IsFiniteSet(DOMAIN g) /\ x \in DOMAIN g /\ DOMAIN g \ {x} = DOMAIN f
  BY FS_AddElement
<1>2. Sum(g, DOMAIN g) = g[x] + Sum(g, DOMAIN f)
  BY <1>1, SumRemove
<1>3. Sum(g, DOMAIN f) = Sum(f, DOMAIN f)
  BY SumSame
<1>4. Sum(g, DOMAIN f) \in Int /\ g[x] \in Int
  BY <1>1, SumRemove
<1> QED BY <1>2, <1>3, <1>4 DEF SumFunction, Sum

\* Changing one value changes the sum by as much.
LEMMA SumChanged ==
  ASSUME NEW f, NEW g, NEW x, IsFiniteSet(DOMAIN f), x \in DOMAIN f,
         DOMAIN g = DOMAIN f, \A y \in DOMAIN f : f[y] \in Int /\ g[y] \in Int,
         \A y \in DOMAIN f : y # x => g[y] = f[y]
  PROVE  SumFunction(f) \in Int /\ SumFunction(g) = SumFunction(f) - f[x] + g[x]
<1> DEFINE R == DOMAIN f \ {x}
<1>1. Sum(f, DOMAIN f) = f[x] + Sum(f, R) /\ Sum(g, DOMAIN f) = g[x] + Sum(g, R)
  BY SumRemove
<1>2. Sum(g, R) = Sum(f, R)
  <2>1. IsFiniteSet(R)
    BY FS_Subset
  <2> QED BY <2>1, SumSame
<1>3. Sum(f, R) \in Int /\ Sum(f, DOMAIN f) \in Int
  BY SumRemove
<1>4. f[x] \in Int /\ g[x] \in Int
  OBVIOUS
<1> HIDE DEF R
<1> QED BY <1>1, <1>2, <1>3, <1>4 DEF SumFunction, Sum

-----------------------------------------------------------------------------
(* Folds over sequences, statement by statement and part by part.          *)

\* The greatest of some numbers up to k + 1 with k + 1 among them.
LEMMA MaxOfInterval ==
  ASSUME NEW k \in Nat, NEW s \in SUBSET (1..(k + 1)), k + 1 \in s
  PROVE  Max(s) = k + 1
<1>1. \A y \in s : y \in Int /\ k + 1 >= y
  OBVIOUS
<1>2. \A x \in s : (\A y \in s : x >= y) <=> x = k + 1
  BY <1>1
<1> QED BY <1>2 DEF Max

RunStep(b, q, iter, s) == IF s = {} THEN b ELSE Execute(iter[s \ {Max(s)}], q[Max(s)])
RunsBy(iter, b, q, n) == iter = [s \in SUBSET (1..n) |-> RunStep(b, q, iter, s)]

\* The partial runs of a sequence of statements are there.
LEMMA RunsThere ==
  ASSUME NEW b, NEW q
  PROVE  \A n \in Nat : \E iter : RunsBy(iter, b, q, n)
<1> DEFINE T == {n \in Nat : \E iter : RunsBy(iter, b, q, n)}
<1>1. 0 \in T
  <2> DEFINE g == [s \in SUBSET (1..0) |-> b]
  <2>1. \A s \in SUBSET (1..0) : s = {}
    OBVIOUS
  <2>2. RunsBy(g, b, q, 0)
    BY <2>1 DEF RunsBy, RunStep
  <2> QED BY <2>2
<1>2. ASSUME NEW n \in Nat, n \in T
      PROVE  n + 1 \in T
  <2>1. PICK g : RunsBy(g, b, q, n)
    BY <1>2
  <2> DEFINE h == [s \in SUBSET (1..(n + 1)) |->
                     IF s \subseteq 1..n THEN g[s] ELSE Execute(g[s \ {n + 1}], q[n + 1])]
  <2>2. ASSUME NEW s \in SUBSET (1..(n + 1))
        PROVE  h[s] = RunStep(b, q, h, s)
    <3>1. CASE s \subseteq 1..n
      <4>1. h[s] = RunStep(b, q, g, s)
        BY <2>1, <3>1 DEF RunsBy
      <4>2. s \ {Max(s)} \subseteq 1..n /\ s \ {Max(s)} \in SUBSET (1..(n + 1))
        BY <3>1
      <4>3. h[s \ {Max(s)}] = g[s \ {Max(s)}]
        BY <4>2
      <4> QED BY <4>1, <4>3 DEF RunStep
    <3>2. CASE ~(s \subseteq 1..n)
      <4>1. n + 1 \in s
        BY <3>2
      <4>2. Max(s) = n + 1
        BY <4>1, MaxOfInterval
      <4>3. s \ {n + 1} \subseteq 1..n /\ s \ {n + 1} \in SUBSET (1..(n + 1))
        OBVIOUS
      <4>4. h[s \ {n + 1}] = g[s \ {n + 1}]
        BY <4>3
      <4>5. h[s] = Execute(g[s \ {n + 1}], q[n + 1])
        BY <3>2
      <4> QED BY <4>1, <4>2, <4>4, <4>5 DEF RunStep
    <3> QED BY <3>1, <3>2
  <2>3. h = [s \in SUBSET (1..(n + 1)) |-> h[s]]
    OBVIOUS
  <2> HIDE DEF h
  <2>4. RunsBy(h, b, q, n + 1)
    BY <2>2, <2>3 DEF RunsBy
  <2> QED BY <2>4
<1> HIDE DEF T
<1>3. Nat \subseteq T
  BY <1>1, <1>2, InductionOnNumbers
<1> QED BY <1>3 DEF T

\* The book before a run of statements and after each of them.
Course(st, b, q, n) ==
  /\ st[0] = b /\ st[n] = Run(b, q)
  /\ \A k \in 1..n : st[k] = Execute(st[k - 1], q[k])

\* A run of statements is that of one after another.
LEMMA RunSteps ==
  ASSUME NEW b, NEW q, NEW n \in Nat, DOMAIN q = 1..n
  PROVE  \E st : Course(st, b, q, n)
<1> DEFINE iter == CHOOSE i : RunsBy(i, b, q, n)
           st == [k \in 0..n |-> iter[1..k]]
<1>1. RunsBy(iter, b, q, n)
  BY RunsThere
<1>2. Run(b, q) = iter[1..n]
  BY DEF Run, FoldLeft, MapThenFoldSet, RunsBy, RunStep
<1> HIDE DEF iter
<1>3. \A s \in SUBSET (1..n) : iter[s] = RunStep(b, q, iter, s)
  BY <1>1 DEF RunsBy
<1>4. st[0] = b
  <2>1. 1..0 = {} /\ st[0] = iter[1..0] /\ 1..0 \in SUBSET (1..n)
    OBVIOUS
  <2> QED BY <1>3, <2>1 DEF RunStep
<1>5. ASSUME NEW k \in 1..n
      PROVE  st[k] = Execute(st[k - 1], q[k])
  <2>1. 1..k \in SUBSET (1..n) /\ k \in 1..k /\ (1..k) \ {k} = 1..(k - 1) /\ k - 1 \in 0..n
    OBVIOUS
  <2>2. Max(1..k) = k
    <3>1. k - 1 \in Nat /\ k = (k - 1) + 1
      OBVIOUS
    <3> QED BY <2>1, <3>1, MaxOfInterval
  <2>3. iter[1..k] = Execute(iter[1..(k - 1)], q[k])
    <3>1. iter[1..k] = RunStep(b, q, iter, 1..k)
      BY <1>3, <2>1
    <3>2. 1..k # {}
      BY <2>1
    <3> QED BY <2>1, <2>2, <3>1, <3>2 DEF RunStep
  <2> QED BY <2>1, <2>3
<1>6. st[n] = Run(b, q)
  BY <1>2
<1> HIDE DEF st
<1> QED BY <1>4, <1>5, <1>6 DEF Course

DrawStep(b, q, iter, s) == IF s = {} THEN b ELSE Draw(iter[s \ {Max(s)}], q[Max(s)])
DrawsBy(iter, b, q, n) == iter = [s \in SUBSET (1..n) |-> DrawStep(b, q, iter, s)]

\* The partial draws on a sequence of parts are there.
LEMMA DrawsThere ==
  ASSUME NEW b, NEW q
  PROVE  \A n \in Nat : \E iter : DrawsBy(iter, b, q, n)
<1> DEFINE T == {n \in Nat : \E iter : DrawsBy(iter, b, q, n)}
<1>1. 0 \in T
  <2> DEFINE g == [s \in SUBSET (1..0) |-> b]
  <2>1. \A s \in SUBSET (1..0) : s = {}
    OBVIOUS
  <2>2. DrawsBy(g, b, q, 0)
    BY <2>1 DEF DrawsBy, DrawStep
  <2> QED BY <2>2
<1>2. ASSUME NEW n \in Nat, n \in T
      PROVE  n + 1 \in T
  <2>1. PICK g : DrawsBy(g, b, q, n)
    BY <1>2
  <2> DEFINE h == [s \in SUBSET (1..(n + 1)) |->
                     IF s \subseteq 1..n THEN g[s] ELSE Draw(g[s \ {n + 1}], q[n + 1])]
  <2>2. ASSUME NEW s \in SUBSET (1..(n + 1))
        PROVE  h[s] = DrawStep(b, q, h, s)
    <3>1. CASE s \subseteq 1..n
      <4>1. h[s] = DrawStep(b, q, g, s)
        BY <2>1, <3>1 DEF DrawsBy
      <4>2. s \ {Max(s)} \subseteq 1..n /\ s \ {Max(s)} \in SUBSET (1..(n + 1))
        BY <3>1
      <4>3. h[s \ {Max(s)}] = g[s \ {Max(s)}]
        BY <4>2
      <4> QED BY <4>1, <4>3 DEF DrawStep
    <3>2. CASE ~(s \subseteq 1..n)
      <4>1. n + 1 \in s
        BY <3>2
      <4>2. Max(s) = n + 1
        BY <4>1, MaxOfInterval
      <4>3. s \ {n + 1} \subseteq 1..n /\ s \ {n + 1} \in SUBSET (1..(n + 1))
        OBVIOUS
      <4>4. h[s \ {n + 1}] = g[s \ {n + 1}]
        BY <4>3
      <4>5. h[s] = Draw(g[s \ {n + 1}], q[n + 1])
        BY <3>2
      <4> QED BY <4>1, <4>2, <4>4, <4>5 DEF DrawStep
    <3> QED BY <3>1, <3>2
  <2>3. h = [s \in SUBSET (1..(n + 1)) |-> h[s]]
    OBVIOUS
  <2> HIDE DEF h
  <2>4. DrawsBy(h, b, q, n + 1)
    BY <2>2, <2>3 DEF DrawsBy
  <2> QED BY <2>4
<1> HIDE DEF T
<1>3. Nat \subseteq T
  BY <1>1, <1>2, InductionOnNumbers
<1> QED BY <1>3 DEF T

DrawCourse(st, q, amount, n) ==
  /\ st[0] = [need |-> amount, parts |-> <<>>]
  /\ st[n] = Taken(q, amount)
  /\ \A k \in 1..n : st[k] = Draw(st[k - 1], q[k])

\* So does drawing on one part after the other.
LEMMA DrawSteps ==
  ASSUME NEW q, NEW amount, NEW n \in Nat, DOMAIN q = 1..n
  PROVE  \E st : DrawCourse(st, q, amount, n)
<1> DEFINE b == [need |-> amount, parts |-> <<>>]
           iter == CHOOSE i : DrawsBy(i, b, q, n)
           st == [k \in 0..n |-> iter[1..k]]
<1>1. DrawsBy(iter, b, q, n)
  BY DrawsThere
<1>2. Taken(q, amount) = iter[1..n]
  BY DEF Taken, FoldLeft, MapThenFoldSet, DrawsBy, DrawStep
<1> HIDE DEF iter
<1>3. \A s \in SUBSET (1..n) : iter[s] = DrawStep(b, q, iter, s)
  BY <1>1 DEF DrawsBy
<1>4. st[0] = b
  <2>1. 1..0 = {} /\ st[0] = iter[1..0] /\ 1..0 \in SUBSET (1..n)
    OBVIOUS
  <2> QED BY <1>3, <2>1 DEF DrawStep
<1>5. ASSUME NEW k \in 1..n
      PROVE  st[k] = Draw(st[k - 1], q[k])
  <2>1. 1..k \in SUBSET (1..n) /\ k \in 1..k /\ (1..k) \ {k} = 1..(k - 1) /\ k - 1 \in 0..n
    OBVIOUS
  <2>2. Max(1..k) = k
    <3>1. k - 1 \in Nat /\ k = (k - 1) + 1
      OBVIOUS
    <3> QED BY <2>1, <3>1, MaxOfInterval
  <2>3. iter[1..k] = Draw(iter[1..(k - 1)], q[k])
    <3>1. iter[1..k] = DrawStep(b, q, iter, 1..k)
      BY <1>3, <2>1
    <3>2. 1..k # {}
      BY <2>1
    <3> QED BY <2>1, <2>2, <3>1, <3>2 DEF DrawStep
  <2> QED BY <2>1, <2>3
<1>6. st[n] = Taken(q, amount)
  BY <1>2
<1> HIDE DEF st
<1>7. DrawCourse(st, q, amount, n)
  BY <1>4, <1>5, <1>6 DEF DrawCourse
<1> QED BY <1>7

\* A sum of nothing but 0 is 0.
LEMMA SumZero ==
  ASSUME NEW f, NEW S, IsFiniteSet(S), \A x \in S : f[x] = 0
  PROVE  Sum(f, S) = 0
<1> DEFINE T == {s \in SUBSET S : Sum(f, s) = 0}
<1>1. ASSUME NEW s \in SUBSET S, \A x \in s : s \ {x} \in T
      PROVE  s \in T
  <2>1. IsFiniteSet(s)
    BY FS_Subset
  <2>2. CASE s = {}
    <3>1. Sum(f, s) = 0
      BY <2>1, <2>2, SumUnfolds
    <3> QED BY <3>1
  <2>3. CASE s # {}
    <3>1. AnyOf(s) \in s
      BY <2>3 DEF AnyOf
    <3>2. Sum(f, s) = f[AnyOf(s)] + Sum(f, s \ {AnyOf(s)})
      BY <2>1, <2>3, SumUnfolds
    <3>3. f[AnyOf(s)] = 0 /\ Sum(f, s \ {AnyOf(s)}) = 0
      BY <1>1, <3>1
    <3>4. Sum(f, s) = 0
      BY <3>2, <3>3
    <3> QED BY <3>4
  <2> QED BY <2>2, <2>3
<1>2. SUBSET S \subseteq T
  <2> HIDE DEF T
  <2> QED BY <1>1, InductionOnSubsets
<1> QED BY <1>2

\* A sum of 0 but for one summand is that one.
LEMMA SumOne ==
  ASSUME NEW f, NEW S, IsFiniteSet(S), NEW x \in S, f[x] \in Int,
         \A y \in S : y # x => f[y] = 0
  PROVE  Sum(f, S) = f[x]
<1>1. \A y \in S : f[y] \in Int
  OBVIOUS
<1>2. Sum(f, S) = f[x] + Sum(f, S \ {x})
  BY <1>1, SumRemove
<1>3. Sum(f, S \ {x}) = 0
  <2>1. IsFiniteSet(S \ {x})
    BY FS_Subset
  <2> QED BY <2>1, SumZero
<1> QED BY <1>2, <1>3

\* Sums of opposites are opposite.
LEMMA SumOpposite ==
  ASSUME NEW f, NEW g, NEW S, IsFiniteSet(S), \A x \in S : f[x] \in Int /\ g[x] \in Int /\ f[x] + g[x] = 0
  PROVE  Sum(f, S) + Sum(g, S) = 0
<1> DEFINE T == {s \in SUBSET S : Sum(f, s) \in Int /\ Sum(g, s) \in Int /\ Sum(f, s) + Sum(g, s) = 0}
<1>1. ASSUME NEW s \in SUBSET S, \A x \in s : s \ {x} \in T
      PROVE  s \in T
  <2>1. IsFiniteSet(s)
    BY FS_Subset
  <2>2. CASE s = {}
    <3>1. Sum(f, s) = 0 /\ Sum(g, s) = 0
      BY <2>1, <2>2, SumUnfolds
    <3> QED BY <3>1
  <2>3. CASE s # {}
    <3>1. AnyOf(s) \in s
      BY <2>3 DEF AnyOf
    <3>2. Sum(f, s) = f[AnyOf(s)] + Sum(f, s \ {AnyOf(s)})
      BY <2>1, <2>3, SumUnfolds
    <3>3. Sum(g, s) = g[AnyOf(s)] + Sum(g, s \ {AnyOf(s)})
      BY <2>1, <2>3, SumUnfolds
    <3> DEFINE r == s \ {AnyOf(s)}
    <3>4. Sum(f, r) \in Int /\ Sum(g, r) \in Int /\ Sum(f, r) + Sum(g, r) = 0
      BY <1>1, <3>1
    <3>6. f[AnyOf(s)] \in Int /\ g[AnyOf(s)] \in Int /\ f[AnyOf(s)] + g[AnyOf(s)] = 0
      BY <3>1
    <3> HIDE DEF r
    <3>5. Sum(f, s) \in Int /\ Sum(g, s) \in Int /\ Sum(f, s) + Sum(g, s) = 0
      BY <3>2, <3>3, <3>4, <3>6 DEF r
    <3> QED BY <3>5
  <2> QED BY <2>2, <2>3
<1>2. SUBSET S \subseteq T
  <2> HIDE DEF T
  <2> QED BY <1>1, InductionOnSubsets
<1> QED BY <1>2

\* A sum does not depend on how the summands are numbered.
LEMMA SumRenumbered ==
  ASSUME NEW f, NEW g, NEW m, NEW S, IsFiniteSet(S), NEW R, R = {m[x] : x \in S},
         \A x \in S : g[x] = f[m[x]] /\ f[m[x]] \in Int,
         \A x, y \in S : m[x] = m[y] => x = y
  PROVE  Sum(g, S) = Sum(f, R)
<1> DEFINE Onto(s) == {m[x] : x \in s}
           T == {s \in SUBSET S : Sum(g, s) = Sum(f, Onto(s))}
<1>0. IsFiniteSet(Onto(S)) /\ \A y \in Onto(S) : f[y] \in Int
  <2>1. [x \in S |-> m[x]] \in Surjection(S, Onto(S))
    BY DEF Surjection
  <2>2. IsFiniteSet(Onto(S))
    BY <2>1, FS_Surjection
  <2> QED BY <2>2
<1>1. ASSUME NEW s \in SUBSET S, \A x \in s : s \ {x} \in T
      PROVE  s \in T
  <2>1. IsFiniteSet(s) /\ Onto(s) \in SUBSET Onto(S)
    BY FS_Subset
  <2>2. CASE s = {}
    <3>1. Onto(s) = {}
      BY <2>2
    <3>2. Sum(g, s) = 0 /\ Sum(f, Onto(s)) = 0
      BY <2>1, <2>2, <3>1, SumUnfolds
    <3> QED BY <3>2
  <2>3. CASE s # {}
    <3>1. PICK x \in s : x = AnyOf(s)
      BY <2>3 DEF AnyOf
    <3>2. Sum(g, s) = g[x] + Sum(g, s \ {x})
      BY <2>1, <2>3, <3>1, SumUnfolds
    <3>3. Sum(f, Onto(s)) = f[m[x]] + Sum(f, Onto(s) \ {m[x]})
      BY <1>0, <2>1, SumRemove
    <3>4. Onto(s) \ {m[x]} = Onto(s \ {x})
      OBVIOUS
    <3>5. Sum(g, s \ {x}) = Sum(f, Onto(s \ {x}))
      BY <1>1
    <3> QED BY <3>2, <3>3, <3>4, <3>5
  <2> QED BY <2>2, <2>3
<1>2. SUBSET S \subseteq T
  <2> HIDE DEF T
  <2> QED BY <1>1, InductionOnSubsets
<1> QED BY <1>2

\* A sum over the first k numbers grows by the next summand.
LEMMA SumUpTo ==
  ASSUME NEW n \in Nat, NEW f, \A i \in 1..n : f[i] \in Int
  PROVE  /\ Sum(f, 1..0) = 0
         /\ \A k \in 0..n : Sum(f, 1..k) \in Int
         /\ \A k \in 1..n : Sum(f, 1..k) = Sum(f, 1..(k - 1)) + f[k]
<1>1. ASSUME NEW k \in 0..n
      PROVE  IsFiniteSet(1..k) /\ 1..k \in SUBSET (1..n)
  <2>1. 1 \in Int /\ k \in Int
    OBVIOUS
  <2>2. IsFiniteSet(1..k)
    BY <2>1, FS_Interval
  <2>3. 1..k \in SUBSET (1..n)
    OBVIOUS
  <2> QED BY <2>2, <2>3
<1>2. Sum(f, 1..0) = 0
  <2>1. 1..0 = {}
    OBVIOUS
  <2> QED BY <2>1, FS_EmptySet, SumUnfolds
<1>3. IsFiniteSet(1..n)
  BY <1>1
<1>4. ASSUME NEW s \in SUBSET (1..n)
      PROVE  Sum(f, s) \in Int /\ \A x \in s : Sum(f, s) = f[x] + Sum(f, s \ {x})
  <2>1. \A t \in SUBSET (1..n) :
          Sum(f, t) \in Int /\ \A x \in t : Sum(f, t) = f[x] + Sum(f, t \ {x})
    BY <1>3, SumRemove, ZenonT(60)
  <2> QED BY <2>1
<1>5. ASSUME NEW k \in 1..n
      PROVE  Sum(f, 1..k) = Sum(f, 1..(k - 1)) + f[k]
  <2>1. (1..k) \ {k} = 1..(k - 1) /\ k \in 1..k /\ k - 1 \in 0..n /\ k \in 0..n
    OBVIOUS
  <2> DEFINE s == 1..k
             t == 1..(k - 1)
  <2>2. s \in SUBSET (1..n) /\ t \in SUBSET (1..n) /\ s \ {k} = t /\ k \in s
    BY <2>1
  <2> HIDE DEF s, t
  <2>3. Sum(f, s) = f[k] + Sum(f, s \ {k}) /\ Sum(f, t) \in Int
    BY <1>4, <2>2
  <2>4. Sum(f, s) = Sum(f, t) + f[k]
    BY <2>2, <2>3
  <2> QED BY <2>4 DEF s, t
<1> QED BY <1>1, <1>2, <1>4, <1>5

-----------------------------------------------------------------------------
(* Parts of holds and refunds.                                             *)

APart == [pocket : Nat, toku : Nat]
Parts == Seq(APart)
Tokus(parts) == [i \in DOMAIN parts |-> parts[i].toku]
Tokens(parts, p) == [i \in DOMAIN parts |-> IF parts[i].pocket = p THEN parts[i].toku ELSE 0]

\* What is used of parts: how many they are, their kind, and their sums.
LEMMA PartsSum ==
  ASSUME NEW parts \in Parts, NEW p
  PROVE  /\ DOMAIN parts = 1..Len(parts) /\ Len(parts) \in Nat /\ IsFiniteSet(DOMAIN parts)
         /\ \A i \in DOMAIN parts : parts[i] \in APart
         /\ Amount(parts) = Sum(Tokus(parts), DOMAIN parts) /\ Amount(parts) \in Nat
         /\ OfPocket(parts, p) = Sum(Tokens(parts, p), DOMAIN parts)
         /\ OfPocket(parts, p) \in Nat
<1>1. DOMAIN parts = 1..Len(parts) /\ Len(parts) \in Nat /\ \A i \in DOMAIN parts : parts[i] \in APart
  BY DEF Parts
<1>2. IsFiniteSet(DOMAIN parts)
  BY <1>1, FS_Interval
<1>3. Amount(parts) = Sum(Tokus(parts), DOMAIN parts)
  BY DEF Amount, Tokus, SumFunction, Sum
<1>4. OfPocket(parts, p) = Sum(Tokens(parts, p), DOMAIN parts)
  BY DEF OfPocket, Tokens, SumFunction, Sum
<1>5. Amount(parts) \in Nat
  BY <1>1, <1>2, <1>3, SumNat DEF Tokus, APart
<1>6. OfPocket(parts, p) \in Nat
  BY <1>1, <1>2, <1>4, SumNat DEF Tokens, APart
<1> QED BY <1>1, <1>2, <1>3, <1>4, <1>5, <1>6

\* What the first parts are is at least nothing and at most what all of them are.
LEMMA FirstParts ==
  ASSUME NEW parts \in Parts, NEW p, NEW k \in 0..Len(parts)
  PROVE  Sum(Tokens(parts, p), 1..k) \in Nat /\ Sum(Tokens(parts, p), 1..k) <= OfPocket(parts, p)
<1> DEFINE n == Len(parts)
           f == Tokens(parts, p)
           S == [j \in 0..n |-> Sum(f, 1..j)]
           T == {j \in Nat : j <= n => S[n - j] <= S[n]}
<1>1. n \in Nat /\ DOMAIN parts = 1..n /\ \A i \in 1..n : parts[i].toku \in Nat
  BY PartsSum DEF APart
<1>2. \A i \in 1..n : f[i] \in Nat
  BY <1>1 DEF Tokens
<1>3. OfPocket(parts, p) = S[n]
  <2>1. OfPocket(parts, p) = Sum(f, 1..n)
    BY <1>1, PartsSum
  <2> QED BY <1>1, <2>1
<1> HIDE DEF n, f
<1>4. \A j \in 0..n : S[j] \in Nat
  <2>1. ASSUME NEW j \in 0..n
        PROVE  IsFiniteSet(1..j) /\ \A i \in 1..j : i \in 1..n
    <3>1. IsFiniteSet(1..j)
      BY <1>1, FS_Interval
    <3>2. \A i \in 1..j : i \in 1..n
      BY <1>1
    <3> QED BY <3>1, <3>2
  <2>2. \A j \in 0..n : Sum(f, 1..j) \in Nat
    BY <1>2, <2>1, SumNat
  <2> QED BY <2>2
<1>5. \A j \in 1..n : S[j] = S[j - 1] + f[j]
  <2>0. n \in Nat /\ \A i \in 1..n : f[i] \in Int
    BY <1>1, <1>2
  <2>1. \A j \in 1..n : Sum(f, 1..j) = Sum(f, 1..(j - 1)) + f[j]
    BY <2>0, SumUpTo
  <2>2. \A j \in 1..n : j \in 0..n /\ j - 1 \in 0..n
    BY <1>1
  <2> QED BY <2>1, <2>2
<1> HIDE DEF S
<1>6. 0 \in T
  BY <1>1, <1>4
<1>7. ASSUME NEW j \in Nat, j \in T
      PROVE  j + 1 \in T
  <2> SUFFICES ASSUME j + 1 <= n
               PROVE  S[n - (j + 1)] <= S[n]
    OBVIOUS
  <2>1. n - j \in 1..n /\ n - (j + 1) \in 0..n /\ (n - j) - 1 = n - (j + 1) /\ n \in 0..n
    BY <1>1
  <2>2. S[n - j] = S[n - (j + 1)] + f[n - j] /\ f[n - j] \in Nat
    BY <1>2, <1>5, <2>1
  <2>3. S[n - j] <= S[n]
    BY <1>1, <1>7
  <2>4. S[n - j] \in Nat /\ S[n - (j + 1)] \in Nat /\ S[n] \in Nat
    BY <1>4, <2>1
  <2> QED BY <2>2, <2>3, <2>4
<1> HIDE DEF T
<1>8. Nat \subseteq T
  BY <1>6, <1>7, InductionOnNumbers
<1>9. k \in 0..n /\ n - k \in Nat /\ n - k <= n /\ n - (n - k) = k
  BY <1>1 DEF n
<1>10. S[k] <= S[n]
  BY <1>8, <1>9 DEF T
<1>11. S[k] = Sum(f, 1..k) /\ S[k] \in Nat
  BY <1>4, <1>9 DEF S
<1> QED BY <1>3, <1>10, <1>11 DEF f

\* No parts come to nothing.
LEMMA NoParts == /\ <<>> \in Parts /\ Amount(<<>>) = 0
                 /\ \A p : OfPocket(<<>>, p) = 0
<1>1. <<>> \in Parts /\ DOMAIN <<>> = {}
  BY DEF Parts
<1>2. Amount(<<>>) = 0
  BY <1>1, SumEmpty DEF Amount
<1>3. \A p : OfPocket(<<>>, p) = 0
  BY <1>1, SumEmpty DEF OfPocket
<1> QED BY <1>1, <1>2, <1>3

\* One more part adds its amount, to its pocket only.
LEMMA PartAppended ==
  ASSUME NEW parts \in Parts, NEW x \in APart, NEW p
  PROVE  /\ Append(parts, x) \in Parts
         /\ Amount(Append(parts, x)) = Amount(parts) + x.toku
         /\ OfPocket(Append(parts, x), p) =
              OfPocket(parts, p) + (IF x.pocket = p THEN x.toku ELSE 0)
<1> DEFINE more == Append(parts, x)
<1>1. more \in Parts
  BY DEF Parts
<1>2. /\ DOMAIN more = DOMAIN parts \cup {Len(parts) + 1}
      /\ Len(parts) + 1 \notin DOMAIN parts
      /\ more[Len(parts) + 1] = x
      /\ \A i \in DOMAIN parts : more[i] = parts[i]
  BY DEF Parts
<1> HIDE DEF more
<1>3. IsFiniteSet(DOMAIN parts) /\ \A i \in DOMAIN more : more[i] \in APart
  BY <1>1, PartsSum
<1>4. SumFunction(Tokus(more)) = SumFunction(Tokus(parts)) + Tokus(more)[Len(parts) + 1]
  BY <1>2, <1>3, SumAdded DEF Tokus, APart
<1>5. SumFunction(Tokens(more, p)) = SumFunction(Tokens(parts, p)) + Tokens(more, p)[Len(parts) + 1]
  <2> DEFINE f == Tokens(parts, p)
             g == Tokens(more, p)
  <2>1. /\ DOMAIN f = DOMAIN parts /\ DOMAIN g = DOMAIN more
        /\ \A i \in DOMAIN g : g[i] \in Int
        /\ \A i \in DOMAIN f : g[i] = f[i]
    BY <1>2, <1>3 DEF Tokens, APart
  <2> HIDE DEF f, g
  <2>2. SumFunction(g) = SumFunction(f) + g[Len(parts) + 1]
    BY <1>2, <1>3, <2>1, SumAdded
  <2> QED BY <2>2 DEF f, g
<1> QED BY <1>1, <1>2, <1>4, <1>5 DEF more, Tokus, Tokens, Amount, OfPocket

\* Parts in reverse are the same parts, and come to the same.
LEMMA PartsReversed ==
  ASSUME NEW parts \in Parts, NEW p
  PROVE  /\ Reverse(parts) \in Parts
         /\ Amount(Reverse(parts)) = Amount(parts)
         /\ OfPocket(Reverse(parts), p) = OfPocket(parts, p)
         /\ \A i \in DOMAIN Reverse(parts) : \E j \in DOMAIN parts : Reverse(parts)[i] = parts[j]
<1> DEFINE n == Len(parts)
           r == Reverse(parts)
           m == [i \in 1..n |-> n - i + 1]
<1>1. n \in Nat /\ DOMAIN parts = 1..n /\ \A i \in 1..n : parts[i] \in APart
  BY PartsSum
<1>2. r = [i \in 1..n |-> parts[n - i + 1]]
  BY DEF Reverse
<1> HIDE DEF n, r
<1>3. \A i \in 1..n : m[i] \in 1..n /\ r[i] = parts[m[i]]
  BY <1>1, <1>2
<1>4. r \in Parts /\ DOMAIN r = 1..n
  <2>1. r \in [1..n -> APart]
    BY <1>1, <1>2, <1>3
  <2> QED BY <1>1, <2>1 DEF Parts
<1>5. {m[i] : i \in 1..n} = 1..n
  <2>1. ASSUME NEW j \in 1..n
        PROVE  \E i \in 1..n : m[i] = j
    <3>1. n - j + 1 \in 1..n /\ m[n - j + 1] = j
      BY <1>1
    <3> QED BY <3>1
  <2> QED BY <1>3, <2>1
<1>6. \A i, j \in 1..n : m[i] = m[j] => i = j
  BY <1>1
<1>7. IsFiniteSet(1..n)
  BY <1>1, FS_Interval
<1>8. \A i \in 1..n : Tokus(r)[i] = Tokus(parts)[m[i]] /\ Tokus(parts)[m[i]] \in Int
  BY <1>1, <1>3, <1>4 DEF Tokus, APart
<1>9. \A i \in 1..n : Tokens(r, p)[i] = Tokens(parts, p)[m[i]] /\ Tokens(parts, p)[m[i]] \in Int
  BY <1>1, <1>3, <1>4 DEF Tokens, APart
<1>10. \A i \in DOMAIN r : \E j \in DOMAIN parts : r[i] = parts[j]
  BY <1>1, <1>3, <1>4
<1> HIDE DEF m
<1> DEFINE N == 1..n
           f == Tokus(parts)
           g == Tokus(r)
           f2 == Tokens(parts, p)
           g2 == Tokens(r, p)
<1>n. /\ IsFiniteSet(N) /\ N = {m[i] : i \in N}
      /\ \A i, j \in N : m[i] = m[j] => i = j
      /\ \A i \in N : g[i] = f[m[i]] /\ f[m[i]] \in Int
      /\ \A i \in N : g2[i] = f2[m[i]] /\ f2[m[i]] \in Int
  BY <1>5, <1>6, <1>7, <1>8, <1>9
<1> HIDE DEF N, f, g, f2, g2
<1>11. Sum(g, N) = Sum(f, N)
  BY <1>n, SumRenumbered
<1>12. Sum(g2, N) = Sum(f2, N)
  BY <1>n, SumRenumbered
<1>13. Amount(r) = Amount(parts) /\ OfPocket(r, p) = OfPocket(parts, p)
  BY <1>1, <1>4, <1>11, <1>12, PartsSum DEF N, f, g, f2, g2
<1> QED BY <1>4, <1>10, <1>13 DEF r

-----------------------------------------------------------------------------
(* A finite set can be put in order.                                       *)

Orders(R, S) ==
  /\ \A x \in S : <<x, x>> \notin R
  /\ \A x, y \in S : x # y => <<x, y>> \in R \/ <<y, x>> \in R
  /\ \A x, y, z \in S : <<x, y>> \in R /\ <<y, z>> \in R => <<x, z>> \in R
InLine(R, S, q) ==
  /\ q \in [1..Cardinality(S) -> S]
  /\ \A i, j \in 1..Cardinality(S) : i < j => <<q[i], q[j]>> \in R

\* Every finite set in an order has a last.
LEMMA LastOfAll ==
  ASSUME NEW R, NEW S, IsFiniteSet(S), Orders(R, S)
  PROVE  \A s \in SUBSET S : s # {} => \E x \in s : \A y \in s \ {x} : <<y, x>> \in R
<1> DEFINE T == {s \in SUBSET S : s # {} => \E x \in s : \A y \in s \ {x} : <<y, x>> \in R}
<1>1. ASSUME NEW s \in SUBSET S, \A x \in s : s \ {x} \in T
      PROVE  s \in T
  <2>1. CASE s = {}
    BY <2>1
  <2>2. CASE s # {}
    <3>1. PICK x \in s : TRUE
      BY <2>2
    <3>2. CASE s \ {x} = {}
      BY <3>1, <3>2
    <3>3. CASE s \ {x} # {}
      <4>1. PICK m \in s \ {x} : \A y \in (s \ {x}) \ {m} : <<y, m>> \in R
        BY <1>1, <3>1, <3>3
      <4>2. CASE <<m, x>> \in R
        <5>1. ASSUME NEW y \in s \ {x}
              PROVE  <<y, x>> \in R
          <6>1. y = m \/ <<y, m>> \in R
            BY <4>1
          <6> QED BY <4>1, <4>2, <6>1 DEF Orders
        <5> QED BY <5>1
      <4>3. CASE <<x, m>> \in R
        BY <4>1, <4>3
      <4>4. <<m, x>> \in R \/ <<x, m>> \in R
        BY <4>1 DEF Orders
      <4> QED BY <4>2, <4>3, <4>4
    <3> QED BY <3>2, <3>3
  <2> QED BY <2>1, <2>2
<1>2. SUBSET S \subseteq T
  <2> HIDE DEF T
  <2> QED BY <1>1, InductionOnSubsets
<1> QED BY <1>2

\* Every finite set in an order can be put in line.
LEMMA OrderThere ==
  ASSUME NEW R, NEW S, IsFiniteSet(S), Orders(R, S)
  PROVE  \E q : InLine(R, S, q)
<1> DEFINE T == {s \in SUBSET S : \E q : InLine(R, s, q)}
<1>1. ASSUME NEW s \in SUBSET S, \A x \in s : s \ {x} \in T
      PROVE  s \in T
  <2>0. SmallSet(s)
    BY FS_Subset, SmallSets
  <2>1. CASE s = {}
    <3>1. Cardinality(s) = 0
      BY <2>0, <2>1 DEF SmallSet
    <3>2. InLine(R, s, [i \in 1..0 |-> i])
      BY <3>1 DEF InLine
    <3> QED BY <3>2
  <2>2. CASE s # {}
    <3>1. PICK x \in s : \A y \in s \ {x} : <<y, x>> \in R
      BY <2>2, LastOfAll
    <3>2. PICK q : InLine(R, s \ {x}, q)
      BY <1>1, <3>1
    <3> DEFINE n == Cardinality(s)
               r == [i \in 1..n |-> IF i = n THEN x ELSE q[i]]
    <3>3. IsFiniteSet(s) /\ n \in Nat
      BY <2>0 DEF SmallSet
    <3>4. Cardinality(s \ {x}) = n - 1
      BY <3>3, FS_RemoveElement
    <3> HIDE DEF n
    <3>5. q \in [1..(n - 1) -> s \ {x}] /\ \A i, j \in 1..(n - 1) : i < j => <<q[i], q[j]>> \in R
      BY <3>2, <3>4 DEF InLine
    <3>6. \A i \in 1..n : i # n => i \in 1..(n - 1)
      BY <3>3
    <3>7. \A i \in 1..n : r[i] \in s
      BY <3>5, <3>6
    <3>8. ASSUME NEW i \in 1..n, NEW j \in 1..n, i < j
          PROVE  <<r[i], r[j]>> \in R
      <4>1. i # n /\ i \in 1..(n - 1)
        BY <3>3, <3>8
      <4>2. CASE j = n
        BY <3>1, <3>5, <4>1, <4>2
      <4>3. CASE j # n
        BY <3>5, <3>6, <3>8, <4>1, <4>3
      <4> QED BY <4>2, <4>3
    <3>9. r \in [1..n -> s]
      BY <3>7
    <3> HIDE DEF r
    <3>10. InLine(R, s, r)
      BY <3>8, <3>9 DEF InLine, n
    <3> QED BY <3>10
  <2> QED BY <2>1, <2>2
<1>2. SUBSET S \subseteq T
  <2> HIDE DEF T
  <2> QED BY <1>1, InductionOnSubsets
<1> QED BY <1>2

\* A set of lots put in order holds each of them once.
LEMMA LotsInOrder ==
  ASSUME NEW S, IsFiniteSet(S),
         \A l \in S : l \in Nat /\ bk.lots[l].expires \in Nat
  PROVE  /\ InOrder(S) \in [1..Cardinality(S) -> S]
         /\ \A i, j \in 1..Cardinality(S) : i # j => InOrder(S)[i] # InOrder(S)[j]
<1> DEFINE R == {p \in S \X S : SoonestFirst(p[1], p[2])}
           Good(s) == \A i, j \in 1..Cardinality(S) : i < j => SoonestFirst(s[i], s[j])
<1>1. \A x, y \in S : <<x, y>> \in R <=> SoonestFirst(x, y)
  OBVIOUS
<1>2. Orders(R, S)
  <2> HIDE DEF R
  <2>1. \A x \in S : <<x, x>> \notin R
    BY <1>1 DEF SoonestFirst
  <2>2. \A x, y \in S : x # y => <<x, y>> \in R \/ <<y, x>> \in R
    BY <1>1 DEF SoonestFirst
  <2>3. \A x, y, z \in S : <<x, y>> \in R /\ <<y, z>> \in R => <<x, z>> \in R
    BY <1>1 DEF SoonestFirst
  <2> QED BY <2>1, <2>2, <2>3 DEF Orders
<1>3. PICK q : InLine(R, S, q)
  BY <1>2, OrderThere
<1>4. q \in [1..Cardinality(S) -> S] /\ Good(q)
  <2> HIDE DEF R
  <2> QED BY <1>1, <1>3 DEF InLine
<1>5. InOrder(S) = CHOOSE s \in [1..Cardinality(S) -> S] : Good(s)
  BY DEF InOrder
<1>6. InOrder(S) \in [1..Cardinality(S) -> S] /\ Good(InOrder(S))
  <2> HIDE DEF Good
  <2> QED BY <1>4, <1>5
<1>7. ASSUME NEW i \in 1..Cardinality(S), NEW j \in 1..Cardinality(S), i # j
      PROVE  InOrder(S)[i] # InOrder(S)[j]
  <2>1. Cardinality(S) \in Nat
    BY FS_CardinalityType
  <2>2. i < j \/ j < i
    BY <1>7, <2>1
  <2>3. \A l \in S : ~SoonestFirst(l, l)
    BY DEF SoonestFirst
  <2> QED BY <1>6, <2>2, <2>3
<1> QED BY <1>6, <1>7

-----------------------------------------------------------------------------
(* Drawing on parts.                                                       *)

Acc == [need : Nat, parts : Parts]

Drew(acc, part, r, take) ==
  /\ r \in Acc
  /\ r.need = acc.need - take
  /\ r.need = 0 \/ take = part.toku
  /\ Amount(r.parts) = Amount(acc.parts) + take
  /\ \A p : OfPocket(r.parts, p) =
              OfPocket(acc.parts, p) + (IF part.pocket = p THEN take ELSE 0)
  /\ \A x \in DOMAIN r.parts :
       \/ x \in DOMAIN acc.parts /\ r.parts[x] = acc.parts[x]
       \/ r.parts[x].pocket = part.pocket

\* What a draw takes from a part: no more than there is, and all of it if need is left.
LEMMA DrawOne ==
  ASSUME NEW acc \in Acc, NEW part \in APart
  PROVE  \E take \in 0..part.toku : Drew(acc, part, Draw(acc, part), take)
<1> DEFINE take == Lesser(acc.need, part.toku)
           r == Draw(acc, part)
<1>1. /\ acc.need \in Nat /\ acc.parts \in Parts
      /\ part.pocket \in Nat /\ part.toku \in Nat
  BY DEF Acc, APart
<1>2. /\ take \in 0..part.toku /\ take <= acc.need
      /\ take = acc.need \/ take = part.toku
  BY <1>1 DEF Lesser
<1>3. r = IF take = 0 THEN acc
          ELSE [need |-> acc.need - take, parts |-> Append(acc.parts, Part(part.pocket, take))]
  BY DEF Draw
<1> HIDE DEF take, r
<1>4. \A p : OfPocket(acc.parts, p) \in Nat /\ Amount(acc.parts) \in Nat
  BY <1>1, PartsSum
<1>5. CASE take = 0
  <2>1. r = acc
    BY <1>3, <1>5
  <2>2. Drew(acc, part, acc, take)
    BY <1>1, <1>2, <1>4, <1>5 DEF Drew
  <2> QED BY <1>2, <2>1, <2>2 DEF r
<1>6. CASE take # 0
  <2> DEFINE new == Part(part.pocket, take)
  <2>1. new \in APart /\ new.toku = take /\ new.pocket = part.pocket
    BY <1>1, <1>2 DEF Part, APart
  <2> HIDE DEF new
  <2>2. r = [need |-> acc.need - take, parts |-> Append(acc.parts, new)]
    BY <1>3, <1>6 DEF new
  <2>3. r.need = acc.need - take /\ r.parts = Append(acc.parts, new)
    BY <2>2
  <2>4. \A p : /\ Append(acc.parts, new) \in Parts
               /\ Amount(Append(acc.parts, new)) = Amount(acc.parts) + take
               /\ OfPocket(Append(acc.parts, new), p) =
                    OfPocket(acc.parts, p) + (IF part.pocket = p THEN take ELSE 0)
    BY <1>1, <2>1, PartAppended
  <2>5. r \in Acc
    BY <1>1, <1>2, <2>2, <2>4 DEF Acc
  <2>6. \A x \in DOMAIN Append(acc.parts, new) :
          \/ x \in DOMAIN acc.parts /\ Append(acc.parts, new)[x] = acc.parts[x]
          \/ Append(acc.parts, new)[x].pocket = part.pocket
    BY <1>1, <2>1 DEF Parts
  <2>7. r.need = 0 \/ take = part.toku
    BY <1>1, <1>2, <2>3
  <2>8. Drew(acc, part, r, take)
    BY <2>3, <2>4, <2>5, <2>6, <2>7 DEF Drew
  <2> QED BY <1>2, <2>8 DEF r
<1> QED BY <1>5, <1>6

PocketIn(parts, P) == \A i \in DOMAIN parts : parts[i].pocket \in P

Took(r, parts, amount, P) ==
  /\ r \in Acc
  /\ r.need + Amount(r.parts) = amount
  /\ Amount(parts) >= amount => r.need = 0
  /\ \A p : OfPocket(r.parts, p) <= OfPocket(parts, p)
  /\ PocketIn(r.parts, P)

\* Drawing takes all that is needed if there is as much, never more of a pocket than it
\* has, and nothing from a pocket that was not offered.
LEMMA TakenIs ==
  ASSUME NEW parts \in Parts, NEW amount \in Nat, NEW P, PocketIn(parts, P)
  PROVE  Took(Taken(parts, amount), parts, amount, P)
<1> DEFINE n == Len(parts)
           start == [need |-> amount, parts |-> <<>>]
           Fine(acc, k) ==
             /\ acc \in Acc
             /\ acc.need + Amount(acc.parts) = amount
             /\ acc.need = 0 \/ Amount(acc.parts) = Sum(Tokus(parts), 1..k)
             /\ \A p : OfPocket(acc.parts, p) <= Sum(Tokens(parts, p), 1..k)
             /\ PocketIn(acc.parts, P)
<1>1. n \in Nat /\ DOMAIN parts = 1..n /\ \A i \in 1..n : parts[i] \in APart
  BY PartsSum
<1> HIDE DEF n
<1>0. PICK st : DrawCourse(st, parts, amount, n)
  BY <1>1, DrawSteps
<1>2. /\ st[0] = start /\ st[n] = Taken(parts, amount)
      /\ \A k \in 1..n : st[k] = Draw(st[k - 1], parts[k])
  BY <1>0 DEF DrawCourse
<1>3. \A i \in 1..n : Tokus(parts)[i] = parts[i].toku /\ Tokus(parts)[i] \in Int
  BY <1>1 DEF Tokus, APart
<1>4. \A p : \A i \in 1..n : /\ Tokens(parts, p)[i] = IF parts[i].pocket = p THEN parts[i].toku ELSE 0
                             /\ Tokens(parts, p)[i] \in Int
  BY <1>1 DEF Tokens, APart
<1>5. /\ Sum(Tokus(parts), 1..0) = 0
      /\ \A k \in 0..n : Sum(Tokus(parts), 1..k) \in Int
      /\ \A k \in 1..n : Sum(Tokus(parts), 1..k) = Sum(Tokus(parts), 1..(k - 1)) + Tokus(parts)[k]
  BY <1>1, <1>3, SumUpTo
<1>6. ASSUME NEW p
      PROVE  /\ Sum(Tokens(parts, p), 1..0) = 0
             /\ \A k \in 0..n : Sum(Tokens(parts, p), 1..k) \in Int
             /\ \A k \in 1..n : Sum(Tokens(parts, p), 1..k) =
                  Sum(Tokens(parts, p), 1..(k - 1)) + Tokens(parts, p)[k]
  BY <1>1, <1>4, SumUpTo
<1> DEFINE T == {k \in Nat : k <= n => Fine(st[k], k)}
<1>7. 0 \in T
  <2>1. start \in Acc /\ start.need = amount /\ start.parts = <<>>
    BY NoParts DEF Acc
  <2>2. DOMAIN <<>> = {} /\ Amount(<<>>) = 0 /\ \A p : OfPocket(<<>>, p) = 0
    BY NoParts
  <2> HIDE DEF start
  <2>3. Fine(start, 0)
    BY <1>5, <1>6, <2>1, <2>2 DEF PocketIn
  <2> HIDE DEF Fine
  <2> QED BY <1>2, <2>3
<1>8. ASSUME NEW k \in Nat, k \in T
      PROVE  k + 1 \in T
  <2> SUFFICES ASSUME k + 1 <= n
               PROVE  Fine(st[k + 1], k + 1)
    BY DEF Fine
  <2>1. k + 1 \in 1..n /\ (k + 1) - 1 = k /\ k \in 0..n /\ k + 1 \in 0..n
    BY <1>1
  <2> DEFINE acc == st[k]
             part == parts[k + 1]
             r == st[k + 1]
  <2>2. Fine(acc, k)
    <3> HIDE DEF Fine
    <3> QED BY <1>1, <1>8, <2>1
  <2>3. part \in APart /\ part.toku \in Nat /\ part.pocket \in P
    BY <1>1, <2>1 DEF PocketIn, APart
  <2>4. r = Draw(acc, part)
    BY <1>2, <2>1
  <2>5. /\ Sum(Tokus(parts), 1..(k + 1)) = Sum(Tokus(parts), 1..k) + part.toku
        /\ Sum(Tokus(parts), 1..k) \in Int
        /\ \A p : /\ Sum(Tokens(parts, p), 1..(k + 1)) =
                       Sum(Tokens(parts, p), 1..k) + (IF part.pocket = p THEN part.toku ELSE 0)
                  /\ Sum(Tokens(parts, p), 1..k) \in Int
    <3>1. /\ Sum(Tokus(parts), 1..(k + 1)) = Sum(Tokus(parts), 1..k) + Tokus(parts)[k + 1]
          /\ Sum(Tokus(parts), 1..k) \in Int
      BY <1>5, <2>1
    <3>2. ASSUME NEW p
          PROVE  /\ Sum(Tokens(parts, p), 1..(k + 1)) =
                      Sum(Tokens(parts, p), 1..k) + Tokens(parts, p)[k + 1]
                 /\ Sum(Tokens(parts, p), 1..k) \in Int
      BY <1>6, <2>1
    <3>3. /\ Tokus(parts)[k + 1] = part.toku
          /\ \A p : Tokens(parts, p)[k + 1] = IF part.pocket = p THEN part.toku ELSE 0
      BY <1>3, <1>4, <2>1
    <3> QED BY <3>1, <3>2, <3>3
  <2> HIDE DEF acc, part, r
  <2>6. acc \in Acc
    BY <2>2
  <2>7. PICK take \in 0..part.toku :
          /\ r \in Acc
          /\ r.need = acc.need - take
          /\ r.need = 0 \/ take = part.toku
          /\ Amount(r.parts) = Amount(acc.parts) + take
          /\ \A p : OfPocket(r.parts, p) =
                      OfPocket(acc.parts, p) + (IF part.pocket = p THEN take ELSE 0)
          /\ \A x \in DOMAIN r.parts :
               \/ x \in DOMAIN acc.parts /\ r.parts[x] = acc.parts[x]
               \/ r.parts[x].pocket = part.pocket
    <3>1. PICK take \in 0..part.toku : Drew(acc, part, r, take)
      BY <2>3, <2>4, <2>6, DrawOne
    <3> QED BY <3>1 DEF Drew
  <2>8. /\ acc.need \in Nat /\ r.need \in Nat /\ take \in Nat /\ take <= part.toku
        /\ Amount(acc.parts) \in Nat
        /\ \A p : OfPocket(acc.parts, p) \in Nat
    <3>1. acc.need \in Nat /\ r.need \in Nat /\ acc.parts \in Parts
      BY <2>6, <2>7 DEF Acc
    <3>2. take \in Nat /\ take <= part.toku
      BY <2>3, <2>7
    <3>3. Amount(acc.parts) \in Nat /\ \A p : OfPocket(acc.parts, p) \in Nat
      BY <3>1, PartsSum
    <3> QED BY <3>1, <3>2, <3>3
  <2>9. r.need + Amount(r.parts) = amount
    BY <2>2, <2>7, <2>8
  <2>10. r.need = 0 \/ Amount(r.parts) = Sum(Tokus(parts), 1..(k + 1))
    <3>1. CASE acc.need = 0
      <4>1. r.need = 0
        BY <2>7, <2>8, <3>1
      <4> QED BY <4>1
    <3>2. CASE acc.need # 0
      <4>1. Amount(acc.parts) = Sum(Tokus(parts), 1..k)
        BY <2>2, <3>2
      <4>2. CASE take = part.toku
        BY <2>5, <2>7, <4>1, <4>2
      <4> QED BY <2>7, <4>2
    <3> QED BY <3>1, <3>2
  <2>11. ASSUME NEW p
         PROVE  OfPocket(r.parts, p) <= Sum(Tokens(parts, p), 1..(k + 1))
    <3>1. OfPocket(acc.parts, p) <= Sum(Tokens(parts, p), 1..k) /\ OfPocket(acc.parts, p) \in Nat
      BY <2>2, <2>8
    <3>2. OfPocket(r.parts, p) = OfPocket(acc.parts, p) + (IF part.pocket = p THEN take ELSE 0)
      BY <2>7
    <3>3. CASE part.pocket = p
      BY <2>3, <2>5, <2>8, <3>1, <3>2, <3>3
    <3>4. CASE part.pocket # p
      BY <2>3, <2>5, <2>8, <3>1, <3>2, <3>4
    <3> QED BY <3>3, <3>4
  <2>12. PocketIn(r.parts, P)
    BY <2>2, <2>3, <2>7 DEF PocketIn
  <2> QED BY <2>7, <2>9, <2>10, <2>11, <2>12 DEF r
<1> HIDE DEF T
<1>9. Nat \subseteq T
  BY <1>7, <1>8, InductionOnNumbers
<1>10. Fine(Taken(parts, amount), n)
  <2> HIDE DEF Fine
  <2> QED BY <1>1, <1>2, <1>9 DEF T
<1>11. /\ Amount(parts) = Sum(Tokus(parts), 1..n)
       /\ \A p : OfPocket(parts, p) = Sum(Tokens(parts, p), 1..n)
  BY <1>1, PartsSum
<1> DEFINE r == Taken(parts, amount)
<1>12. r.need \in Nat
  BY <1>10 DEF Acc
<1>13. Amount(parts) >= amount => r.need = 0
  <2>1. Amount(parts) \in Nat
    BY PartsSum
  <2> QED BY <1>10, <1>11, <1>12, <2>1
<1> QED BY <1>10, <1>11, <1>13 DEF Took

\* If no pocket comes twice, what a pocket is given is one part's amount, or nothing.
LEMMA OfDistinct ==
  ASSUME NEW parts \in Parts,
         \A i, j \in DOMAIN parts : i # j => parts[i].pocket # parts[j].pocket
  PROVE  /\ \A i \in DOMAIN parts : OfPocket(parts, parts[i].pocket) = parts[i].toku
         /\ \A p : (\A i \in DOMAIN parts : parts[i].pocket # p) => OfPocket(parts, p) = 0
<1>1. /\ IsFiniteSet(DOMAIN parts)
      /\ \A i \in DOMAIN parts : parts[i].toku \in Nat
      /\ \A p : OfPocket(parts, p) = Sum(Tokens(parts, p), DOMAIN parts)
  BY PartsSum DEF APart
<1>2. ASSUME NEW i \in DOMAIN parts
      PROVE  OfPocket(parts, parts[i].pocket) = parts[i].toku
  <2> DEFINE f == Tokens(parts, parts[i].pocket)
  <2>1. f[i] = parts[i].toku /\ f[i] \in Int /\ \A y \in DOMAIN parts : y # i => f[y] = 0
    BY <1>1 DEF Tokens
  <2> HIDE DEF f
  <2>2. Sum(f, DOMAIN parts) = f[i]
    BY <1>1, <2>1, SumOne
  <2> QED BY <1>1, <2>1, <2>2 DEF f
<1>3. ASSUME NEW p, \A i \in DOMAIN parts : parts[i].pocket # p
      PROVE  OfPocket(parts, p) = 0
  <2>1. \A y \in DOMAIN parts : Tokens(parts, p)[y] = 0
    BY <1>3 DEF Tokens
  <2> QED BY <1>1, <2>1, SumZero
<1> QED BY <1>2, <1>3

\* The pockets an account can draw on are its own, each of them once and with what it has.
LEMMA PocketsAre ==
  ASSUME NEW a, bk.allowance[a].left \in Nat, bk.allowance[a].ends \in Nat, now \in Nat,
         IsFiniteSet(DOMAIN bk.lots),
         \A l \in DOMAIN bk.lots : /\ l \in Nat \ {0}
                                   /\ bk.lots[l].left \in Nat /\ bk.lots[l].expires \in Nat
  PROVE  /\ Pockets(a) \in Parts
         /\ PocketIn(Pockets(a), Usable(a) \cup {0})
         /\ OfPocket(Pockets(a), 0) <= bk.allowance[a].left
         /\ \A l \in DOMAIN bk.lots : OfPocket(Pockets(a), l) <= bk.lots[l].left
<1> DEFINE U == Usable(a)
           m == Cardinality(U)
           s == InOrder(U)
           A == IF bk.allowance[a].ends > now THEN <<Part(0, bk.allowance[a].left)>> ELSE <<>>
           B == [i \in 1..m |-> Part(s[i], bk.lots[s[i]].left)]
           P == Pockets(a)
           k == Len(A)
<1>1. IsFiniteSet(U) /\ U \subseteq DOMAIN bk.lots /\ m \in Nat
  BY FS_Subset, FS_CardinalityType DEF Usable
<1>2. \A l \in U : l \in Nat /\ l # 0 /\ bk.lots[l].left \in Nat /\ bk.lots[l].expires \in Nat
  BY <1>1
<1>3. P = A \o B
  BY DEF Pockets
<1> HIDE DEF U, P
<1>4. /\ s \in [1..m -> U]
      /\ \A i, j \in 1..m : i # j => s[i] # s[j]
  BY <1>1, <1>2, LotsInOrder
<1> HIDE DEF m, s
<1>5. B \in Parts /\ Len(B) = m
  <2>1. \A i \in 1..m : Part(s[i], bk.lots[s[i]].left) \in APart
    BY <1>2, <1>4 DEF Part, APart
  <2>2. B \in [1..m -> APart]
    BY <2>1
  <2> QED BY <1>1, <2>2 DEF Parts
<1>6. A \in Parts /\ k \in {0, 1} /\ \A i \in 1..k : A[i] = Part(0, bk.allowance[a].left)
  <2>1. Part(0, bk.allowance[a].left) \in APart
    BY DEF Part, APart
  <2> QED BY <2>1 DEF Parts
<1>7. \A i \in 1..m : B[i].pocket = s[i] /\ B[i].toku = bk.lots[s[i]].left
  BY DEF Part
<1> HIDE DEF A, B
<1>8. /\ P \in Parts /\ DOMAIN P = 1..(k + m)
      /\ \A i \in 1..(k + m) : P[i] = IF i <= k THEN A[i] ELSE B[i - k]
  BY <1>1, <1>3, <1>5, <1>6 DEF Parts
<1> HIDE DEF k
<1>9. \A i \in 1..(k + m) :
        \/ i = 1 /\ P[i].pocket = 0 /\ P[i].toku = bk.allowance[a].left
        \/ /\ i - k \in 1..m /\ P[i].pocket = s[i - k]
           /\ P[i].toku = bk.lots[s[i - k]].left
  <2> SUFFICES ASSUME NEW i \in 1..(k + m)
               PROVE  \/ i = 1 /\ P[i].pocket = 0 /\ P[i].toku = bk.allowance[a].left
                      \/ /\ i - k \in 1..m /\ P[i].pocket = s[i - k]
                         /\ P[i].toku = bk.lots[s[i - k]].left
    OBVIOUS
  <2>1. CASE i <= k
    <3>1. i = 1 /\ i \in 1..k
      BY <1>6, <2>1
    <3> QED BY <1>6, <1>8, <2>1, <3>1 DEF Part
  <2>2. CASE ~(i <= k)
    <3>1. i - k \in 1..m
      BY <1>1, <1>6, <2>2
    <3> QED BY <1>7, <1>8, <2>2, <3>1
  <2> QED BY <2>1, <2>2
<1>10. ASSUME NEW i \in DOMAIN P, NEW j \in DOMAIN P, i # j
       PROVE  P[i].pocket # P[j].pocket
  <2>1. \A x \in 1..m : s[x] # 0
    BY <1>2, <1>4
  <2>2. i \in Int /\ j \in Int /\ k \in Int
    BY <1>1, <1>6, <1>8
  <2>3. i - k # j - k
    BY <1>10, <2>2
  <2> QED BY <1>4, <1>8, <1>9, <1>10, <2>1, <2>3
<1>11. PocketIn(P, U \cup {0})
  BY <1>4, <1>8, <1>9 DEF PocketIn
<1>12. ASSUME NEW p, NEW n \in Nat, \A i \in DOMAIN P : P[i].pocket = p => P[i].toku = n
       PROVE  OfPocket(P, p) <= n
  <2>1. CASE \E i \in DOMAIN P : P[i].pocket = p
    <3>1. PICK i \in DOMAIN P : P[i].pocket = p
      BY <2>1
    <3>2. OfPocket(P, P[i].pocket) = P[i].toku
      BY <1>8, <1>10, OfDistinct
    <3> QED BY <1>12, <3>1, <3>2
  <2>2. CASE ~\E i \in DOMAIN P : P[i].pocket = p
    <3>1. OfPocket(P, p) = 0
      BY <1>8, <1>10, <2>2, OfDistinct
    <3> QED BY <3>1
  <2> QED BY <2>1, <2>2
<1>13. OfPocket(P, 0) <= bk.allowance[a].left
  <2>1. \A i \in DOMAIN P : P[i].pocket = 0 => P[i].toku = bk.allowance[a].left
    BY <1>2, <1>4, <1>8, <1>9
  <2> QED BY <1>12, <2>1
<1>14. ASSUME NEW l \in DOMAIN bk.lots
       PROVE  OfPocket(P, l) <= bk.lots[l].left
  <2>1. \A i \in DOMAIN P : P[i].pocket = l => P[i].toku = bk.lots[l].left
    BY <1>8, <1>9
  <2> QED BY <1>12, <2>1
<1> QED BY <1>8, <1>11, <1>13, <1>14 DEF U, P

-----------------------------------------------------------------------------
(* Books and what the statements do to them.                               *)

LotRow(L) == [acct : Accounts, left : L, expires : Nat]
AllowanceRow(L) == [ends : Nat, granted : Nat, left : L]
HoldRow == [acct : Accounts, parts : Parts]
LotsOfAcct(b, a) == {l \in DOMAIN b.lots : b.lots[l].acct = a}
Owned(b, a, parts) == PocketIn(parts, LotsOfAcct(b, a) \cup {0})

\* A book whose rows are of their kind; what is left in a pocket is in L.
BookRows(b, L) ==
  /\ b = [allowance |-> b.allowance, lots |-> b.lots, holds |-> b.holds, payments |-> b.payments]
  /\ b.allowance \in [Accounts -> AllowanceRow(L)]
  /\ IsFiniteSet(DOMAIN b.lots) /\ DOMAIN b.lots \subseteq Nat \ {0}
  /\ b.lots \in [DOMAIN b.lots -> LotRow(L)]
  /\ IsFiniteSet(DOMAIN b.holds)
  /\ b.holds \in [DOMAIN b.holds -> HoldRow]
  /\ \A h \in DOMAIN b.holds : Owned(b, b.holds[h].acct, b.holds[h].parts)
  /\ b.payments \subseteq Refs

Lefts(b, a) == [l \in DOMAIN b.lots |-> IF b.lots[l].acct = a THEN b.lots[l].left ELSE 0]
Helds(b, a) == [h \in DOMAIN b.holds |->
                  IF b.holds[h].acct = a THEN Amount(b.holds[h].parts) ELSE 0]
InPockets(b, a) == b.allowance[a].left + LotsOf(b, a)

\* A row but what is left in it.
SameLot(r, s) == r.acct = s.acct /\ r.expires = s.expires
SameAllowance(r, s) == r.ends = s.ends /\ r.granted = s.granted

\* From b to e only what is left in pockets has changed.
OnlyMoved(b, e) ==
  /\ e.holds = b.holds /\ e.payments = b.payments /\ DOMAIN e.lots = DOMAIN b.lots
  /\ \A l \in DOMAIN b.lots : SameLot(e.lots[l], b.lots[l])
  /\ \A x \in Accounts : SameAllowance(e.allowance[x], b.allowance[x])

\* The sums over a book's tables are integers.
LEMMA SumsOfBook ==
  ASSUME NEW b, NEW L, L \subseteq Int, BookRows(b, L), NEW a \in Accounts
  PROVE  /\ LotsOf(b, a) = SumFunction(Lefts(b, a)) /\ LotsOf(b, a) \in Int
         /\ HeldOf(b, a) = SumFunction(Helds(b, a)) /\ HeldOf(b, a) \in Nat
         /\ b.allowance[a].left \in Int
<1>1. /\ LotsOf(b, a) = SumFunction(Lefts(b, a))
      /\ HeldOf(b, a) = SumFunction(Helds(b, a))
  BY DEF LotsOf, Lefts, HeldOf, Helds
<1>2. SumFunction(Lefts(b, a)) \in Int
  <2> DEFINE f == Lefts(b, a)
  <2>1. IsFiniteSet(DOMAIN f) /\ \A l \in DOMAIN f : f[l] \in Int
    BY DEF BookRows, Lefts, LotRow
  <2> HIDE DEF f
  <2>2. Sum(f, DOMAIN f) \in Int
    BY <2>1, SumRemove
  <2> QED BY <2>2 DEF SumFunction, Sum, f
<1>3. SumFunction(Helds(b, a)) \in Nat
  <2> DEFINE f == Helds(b, a)
  <2>1. IsFiniteSet(DOMAIN f) /\ \A h \in DOMAIN f : f[h] \in Nat
    BY PartsSum DEF BookRows, Helds, HoldRow
  <2> HIDE DEF f
  <2>2. Sum(f, DOMAIN f) \in Nat
    BY <2>1, SumNat
  <2> QED BY <2>2 DEF SumFunction, Sum, f
<1>4. b.allowance[a].left \in Int
  BY DEF BookRows, AllowanceRow
<1> QED BY <1>1, <1>2, <1>3, <1>4

\* From b to e an account's pocket p has got n.
MovedOne(b, e, a, p, n) ==
  /\ BookRows(e, Int) /\ OnlyMoved(b, e)
  /\ \A x \in Accounts : e.allowance[x].left =
       b.allowance[x].left + (IF x = a /\ p = 0 THEN n ELSE 0)
  /\ \A l \in DOMAIN b.lots : e.lots[l].left =
       b.lots[l].left + (IF p = l THEN n ELSE 0)
  /\ \A x \in Accounts : InPockets(e, x) = InPockets(b, x) + (IF x = a THEN n ELSE 0)

\* A move changes one pocket of one account, and nothing else.
LEMMA MoveOne ==
  ASSUME NEW b, BookRows(b, Int), NEW a \in Accounts, NEW p \in LotsOfAcct(b, a) \cup {0},
         NEW n \in Int
  PROVE  MovedOne(b, Execute(b, Move(a, p, n)), a, p, n)
<1> DEFINE e == Execute(b, Move(a, p, n))
<1>1. e = IF p # 0 THEN [b EXCEPT !.lots[p].left = @ + n]
          ELSE [b EXCEPT !.allowance[a].left = @ + n]
  BY DEF Execute, Move
<1> HIDE DEF e
<1>2. CASE p # 0
  <2>1. e = [b EXCEPT !.lots[p].left = @ + n] /\ p \in DOMAIN b.lots /\ b.lots[p].acct = a
    BY <1>1, <1>2 DEF LotsOfAcct
  <2> DEFINE row == [b.lots[p] EXCEPT !.left = @ + n]
  <2>2. b.lots[p] \in LotRow(Int)
    BY <2>1 DEF BookRows
  <2>3. /\ row \in LotRow(Int) /\ SameLot(row, b.lots[p])
        /\ row.left = b.lots[p].left + n
    BY <2>2 DEF LotRow, SameLot
  <2>4. /\ e.allowance = b.allowance /\ e.holds = b.holds /\ e.payments = b.payments
        /\ e.lots = [b.lots EXCEPT ![p] = row]
        /\ e = [allowance |-> e.allowance, lots |-> e.lots, holds |-> e.holds, payments |-> e.payments]
    BY <2>1 DEF BookRows
  <2> HIDE DEF row
  <2>5. /\ DOMAIN e.lots = DOMAIN b.lots /\ e.lots[p] = row
        /\ \A l \in DOMAIN b.lots : l # p => e.lots[l] = b.lots[l]
    BY <2>1, <2>4
  <2>6. OnlyMoved(b, e)
    BY <2>3, <2>4, <2>5 DEF OnlyMoved, SameLot, SameAllowance
  <2>7. e.lots \in [DOMAIN e.lots -> LotRow(Int)]
    BY <2>3, <2>4, <2>5 DEF BookRows
  <2>8. \A x : LotsOfAcct(e, x) = LotsOfAcct(b, x)
    BY <2>3, <2>5 DEF LotsOfAcct, SameLot
  <2>9. BookRows(e, Int)
    BY <2>4, <2>5, <2>7, <2>8 DEF BookRows, Owned
  <2>10. \A x \in Accounts : e.allowance[x].left = b.allowance[x].left /\ b.allowance[x].left \in Int
    BY <2>4 DEF BookRows, AllowanceRow
  <2>11. \A l \in DOMAIN b.lots : /\ b.lots[l].left \in Int
                                 /\ e.lots[l].left = b.lots[l].left + (IF p = l THEN n ELSE 0)
    BY <2>3, <2>5 DEF BookRows, LotRow
  <2>12. ASSUME NEW x \in Accounts
         PROVE  InPockets(e, x) = InPockets(b, x) + (IF x = a THEN n ELSE 0)
    <3> DEFINE f == Lefts(b, x)
               g == Lefts(e, x)
    <3>1. /\ DOMAIN f = DOMAIN b.lots /\ DOMAIN g = DOMAIN b.lots
          /\ \A y \in DOMAIN f : f[y] \in Int /\ g[y] \in Int
          /\ \A y \in DOMAIN f : y # p => g[y] = f[y]
          /\ g[p] - f[p] = IF x = a THEN n ELSE 0
      <4>1. \A y \in DOMAIN b.lots : e.lots[y].acct = b.lots[y].acct /\ e.lots[y].left \in Int
        BY <2>6, <2>11 DEF OnlyMoved, SameLot
      <4> QED BY <2>1, <2>5, <2>11, <4>1 DEF Lefts
    <3>2. IsFiniteSet(DOMAIN f) /\ p \in DOMAIN f
      BY <2>1, <3>1 DEF BookRows
    <3> HIDE DEF f, g
    <3>3. SumFunction(f) \in Int /\ SumFunction(g) = SumFunction(f) - f[p] + g[p]
      BY <3>1, <3>2, SumChanged
    <3>4. LotsOf(b, x) = SumFunction(f) /\ LotsOf(e, x) = SumFunction(g)
      BY DEF LotsOf, f, g, Lefts
    <3>5. f[p] \in Int /\ g[p] \in Int
      BY <3>1, <3>2
    <3>6. LotsOf(e, x) = LotsOf(b, x) + (IF x = a THEN n ELSE 0) /\ LotsOf(b, x) \in Int
      BY <3>1, <3>3, <3>4, <3>5
    <3> QED BY <2>10, <3>6 DEF InPockets
  <2> QED BY <1>2, <2>6, <2>9, <2>10, <2>11, <2>12 DEF e, MovedOne
<1>3. CASE p = 0
  <2>1. e = [b EXCEPT !.allowance[a].left = @ + n]
    BY <1>1, <1>3
  <2> DEFINE row == [b.allowance[a] EXCEPT !.left = @ + n]
  <2>2. b.allowance[a] \in AllowanceRow(Int)
    BY DEF BookRows
  <2>3. /\ row \in AllowanceRow(Int) /\ SameAllowance(row, b.allowance[a])
        /\ row.left = b.allowance[a].left + n
    BY <2>2 DEF AllowanceRow, SameAllowance
  <2>4. /\ e.lots = b.lots /\ e.holds = b.holds /\ e.payments = b.payments
        /\ e.allowance = [b.allowance EXCEPT ![a] = row]
        /\ e = [allowance |-> e.allowance, lots |-> e.lots, holds |-> e.holds, payments |-> e.payments]
    BY <2>1 DEF BookRows
  <2> HIDE DEF row
  <2>5. e.allowance[a] = row /\ \A x \in Accounts : x # a => e.allowance[x] = b.allowance[x]
    BY <2>4 DEF BookRows
  <2>6. OnlyMoved(b, e)
    BY <2>3, <2>4, <2>5 DEF OnlyMoved, SameLot, SameAllowance
  <2>7. e.allowance \in [Accounts -> AllowanceRow(Int)]
    BY <2>3, <2>4 DEF BookRows
  <2>8. BookRows(e, Int)
    BY <2>4, <2>7 DEF BookRows, Owned, LotsOfAcct
  <2>9. \A x \in Accounts : /\ b.allowance[x].left \in Int
                            /\ e.allowance[x].left = b.allowance[x].left + (IF x = a /\ p = 0 THEN n ELSE 0)
    BY <1>3, <2>3, <2>5 DEF BookRows, AllowanceRow
  <2>10. \A l \in DOMAIN b.lots : /\ b.lots[l].left \in Int /\ p # l
                                 /\ e.lots[l].left = b.lots[l].left
    BY <1>3, <2>4 DEF BookRows, LotRow
  <2>11. \A x \in Accounts : LotsOf(e, x) = LotsOf(b, x) /\ LotsOf(b, x) \in Int
    <3>1. \A x \in Accounts : LotsOf(b, x) \in Int
      BY SumsOfBook
    <3> QED BY <2>4, <3>1 DEF LotsOf
  <2>12. \A x \in Accounts : InPockets(e, x) = InPockets(b, x) + (IF x = a THEN n ELSE 0)
    BY <1>3, <2>9, <2>11 DEF InPockets
  <2> QED BY <2>6, <2>8, <2>9, <2>10, <2>12 DEF e, MovedOne
<1> QED BY <1>2, <1>3

Aimed(parts, f, p) == [i \in DOMAIN parts |-> IF parts[i].pocket = p THEN f[i] ELSE 0]

\* From b to e the first k of an account's pockets have got what f says.
MovedBy(b, e, a, parts, f, k) ==
  /\ BookRows(e, Int) /\ OnlyMoved(b, e)
  /\ \A x \in Accounts : e.allowance[x].left =
       b.allowance[x].left + (IF x = a THEN Sum(Aimed(parts, f, 0), 1..k) ELSE 0)
  /\ \A l \in DOMAIN b.lots : e.lots[l].left = b.lots[l].left + Sum(Aimed(parts, f, l), 1..k)
  /\ \A x \in Accounts : InPockets(e, x) =
       InPockets(b, x) + (IF x = a THEN Sum(f, 1..k) ELSE 0)

\* Moves one after another change the pockets by what each has got so far.
LEMMA MovesRun ==
  ASSUME NEW b, BookRows(b, Int), NEW a \in Accounts, NEW parts \in Parts,
         Owned(b, a, parts), NEW n, n = Len(parts),
         NEW f, \A i \in 1..n : f[i] \in Int,
         NEW st, st[0] = b,
         \A k \in 1..n : st[k] = Execute(st[k - 1], Move(a, parts[k].pocket, f[k]))
  PROVE  \A k \in 0..n : MovedBy(b, st[k], a, parts, f, k)
<1> DEFINE T == {k \in Nat : k <= n => MovedBy(b, st[k], a, parts, f, k)}
<1>1. n \in Nat /\ DOMAIN parts = 1..n
  BY PartsSum
<1>2. /\ Sum(f, 1..0) = 0
      /\ \A k \in 0..n : Sum(f, 1..k) \in Int
      /\ \A k \in 1..n : Sum(f, 1..k) = Sum(f, 1..(k - 1)) + f[k]
  BY <1>1, SumUpTo
<1>3. ASSUME NEW p
      PROVE  /\ Sum(Aimed(parts, f, p), 1..0) = 0
             /\ \A k \in 0..n : Sum(Aimed(parts, f, p), 1..k) \in Int
             /\ \A k \in 1..n : Sum(Aimed(parts, f, p), 1..k) =
                  Sum(Aimed(parts, f, p), 1..(k - 1)) + (IF parts[k].pocket = p THEN f[k] ELSE 0)
  <2> DEFINE g == Aimed(parts, f, p)
  <2>1. \A i \in 1..n : g[i] \in Int /\ g[i] = IF parts[i].pocket = p THEN f[i] ELSE 0
    BY <1>1 DEF Aimed
  <2> HIDE DEF g
  <2>2. /\ Sum(g, 1..0) = 0
        /\ \A k \in 0..n : Sum(g, 1..k) \in Int
        /\ \A k \in 1..n : Sum(g, 1..k) = Sum(g, 1..(k - 1)) + g[k]
    BY <1>1, <2>1, SumUpTo
  <2> QED BY <2>1, <2>2 DEF g
<1>4. 0 \in T
  <2>1. \A l \in DOMAIN b.lots : b.lots[l].left \in Int
    BY DEF BookRows, LotRow
  <2>2. \A x \in Accounts : b.allowance[x].left \in Int /\ InPockets(b, x) \in Int
    BY SumsOfBook DEF InPockets
  <2>3. OnlyMoved(b, b)
    BY DEF OnlyMoved, SameLot, SameAllowance
  <2>4. MovedBy(b, b, a, parts, f, 0)
    BY <1>2, <1>3, <2>1, <2>2, <2>3 DEF MovedBy
  <2> QED BY <2>4
<1>5. ASSUME NEW k \in Nat, k \in T
      PROVE  k + 1 \in T
  <2> SUFFICES ASSUME k + 1 <= n
               PROVE  MovedBy(b, st[k + 1], a, parts, f, k + 1)
    OBVIOUS
  <2> DEFINE d == st[k]
             e == st[k + 1]
             p == parts[k + 1].pocket
             m == f[k + 1]
  <2>1. k + 1 \in 1..n /\ (k + 1) - 1 = k /\ k \in 0..n
    BY <1>1
  <2>2. MovedBy(b, d, a, parts, f, k)
    BY <1>1, <1>5, <2>1
  <2>3. e = Execute(d, Move(a, p, m)) /\ m \in Int
    BY <2>1
  <2>4. /\ Sum(f, 1..(k + 1)) = Sum(f, 1..k) + m /\ Sum(f, 1..k) \in Int
        /\ \A q : /\ Sum(Aimed(parts, f, q), 1..(k + 1)) =
                       Sum(Aimed(parts, f, q), 1..k) + (IF p = q THEN m ELSE 0)
                  /\ Sum(Aimed(parts, f, q), 1..k) \in Int
    <3>1. Sum(f, 1..(k + 1)) = Sum(f, 1..k) + m /\ Sum(f, 1..k) \in Int
      BY <1>2, <2>1
    <3>2. ASSUME NEW q
          PROVE  /\ Sum(Aimed(parts, f, q), 1..(k + 1)) =
                      Sum(Aimed(parts, f, q), 1..k) + (IF p = q THEN m ELSE 0)
                 /\ Sum(Aimed(parts, f, q), 1..k) \in Int
      BY <1>3, <2>1
    <3> QED BY <3>1, <3>2
  <2>5. p \in LotsOfAcct(b, a) \cup {0}
    BY <1>1, <2>1 DEF Owned, PocketIn
  <2> HIDE DEF d, e, p, m
  <2>6. BookRows(d, Int) /\ OnlyMoved(b, d)
    BY <2>2 DEF MovedBy
  <2>7. p \in LotsOfAcct(d, a) \cup {0}
    BY <2>5, <2>6 DEF LotsOfAcct, OnlyMoved, SameLot
  <2>8. /\ BookRows(e, Int) /\ OnlyMoved(d, e)
        /\ \A x \in Accounts : e.allowance[x].left =
             d.allowance[x].left + (IF x = a /\ p = 0 THEN m ELSE 0)
        /\ \A l \in DOMAIN d.lots : e.lots[l].left = d.lots[l].left + (IF p = l THEN m ELSE 0)
        /\ \A x \in Accounts : InPockets(e, x) = InPockets(d, x) + (IF x = a THEN m ELSE 0)
    <3>1. MovedOne(d, e, a, p, m)
      BY <2>3, <2>6, <2>7, MoveOne
    <3> QED BY <3>1 DEF MovedOne
  <2>9. OnlyMoved(b, e)
    BY <2>6, <2>8 DEF OnlyMoved, SameLot, SameAllowance
  <2>10. ASSUME NEW x \in Accounts
         PROVE  e.allowance[x].left =
                  b.allowance[x].left + (IF x = a THEN Sum(Aimed(parts, f, 0), 1..(k + 1)) ELSE 0)
    <3>1. d.allowance[x].left =
            b.allowance[x].left + (IF x = a THEN Sum(Aimed(parts, f, 0), 1..k) ELSE 0)
      BY <2>2 DEF MovedBy
    <3>2. b.allowance[x].left \in Int
      BY SumsOfBook
    <3> QED BY <2>3, <2>4, <2>8, <3>1, <3>2
  <2>11. ASSUME NEW l \in DOMAIN b.lots
         PROVE  e.lots[l].left = b.lots[l].left + Sum(Aimed(parts, f, l), 1..(k + 1))
    <3>1. d.lots[l].left = b.lots[l].left + Sum(Aimed(parts, f, l), 1..k) /\ l \in DOMAIN d.lots
      BY <2>2, <2>6 DEF MovedBy, OnlyMoved
    <3>2. b.lots[l].left \in Int
      BY DEF BookRows, LotRow
    <3> QED BY <2>3, <2>4, <2>8, <3>1, <3>2
  <2>12. ASSUME NEW x \in Accounts
         PROVE  InPockets(e, x) =
                  InPockets(b, x) + (IF x = a THEN Sum(f, 1..(k + 1)) ELSE 0)
    <3>1. InPockets(d, x) = InPockets(b, x) + (IF x = a THEN Sum(f, 1..k) ELSE 0)
      BY <2>2 DEF MovedBy
    <3>2. InPockets(b, x) \in Int
      BY SumsOfBook DEF InPockets
    <3> QED BY <2>3, <2>4, <2>8, <3>1, <3>2
  <2>13. MovedBy(b, e, a, parts, f, k + 1)
    BY <2>8, <2>9, <2>10, <2>11, <2>12 DEF MovedBy
  <2> QED BY <2>13 DEF e
<1> HIDE DEF T
<1>6. Nat \subseteq T
  BY <1>4, <1>5, InductionOnNumbers
<1>7. \A k \in 0..n : k \in T /\ k <= n
  BY <1>1, <1>6
<1> QED BY <1>7 DEF T

\* From d to e a hold h of an account on parts is made or dropped; nothing else changes.
OneHold(d, e, h, a, parts) ==
  /\ h \notin DOMAIN d.holds /\ DOMAIN e.holds = DOMAIN d.holds \cup {h}
  /\ e.holds[h] = [acct |-> a, parts |-> parts]
  /\ \A x \in DOMAIN d.holds : e.holds[x] = d.holds[x]
  /\ e.allowance = d.allowance /\ e.lots = d.lots /\ e.payments = d.payments

HoldRows(d) == IsFiniteSet(DOMAIN d.holds) /\ \A x \in DOMAIN d.holds : d.holds[x] \in HoldRow
HoldsBy(d, e, a, parts) ==
  /\ \A x \in Accounts : /\ HeldOf(d, x) \in Int
                         /\ HeldOf(e, x) = HeldOf(d, x) + (IF x = a THEN Amount(parts) ELSE 0)
  /\ \A l : /\ LotHeld(d, l) \in Int
            /\ LotHeld(e, l) = LotHeld(d, l) + OfPocket(parts, l)

\* A hold made or dropped changes what is held by its parts.
LEMMA HoldSums ==
  ASSUME NEW d, NEW e, NEW h, NEW a \in Accounts, NEW parts \in Parts,
         OneHold(d, e, h, a, parts), HoldRows(d)
  PROVE  HoldsBy(d, e, a, parts)
<1>1. \A x \in DOMAIN e.holds : e.holds[x] \in HoldRow
  BY DEF OneHold, HoldRow, HoldRows
<1>2. ASSUME NEW x \in Accounts
      PROVE  /\ HeldOf(d, x) \in Int
             /\ HeldOf(e, x) = HeldOf(d, x) + (IF x = a THEN Amount(parts) ELSE 0)
  <2> DEFINE f == Helds(d, x)
             g == Helds(e, x)
  <2>1. \A y \in DOMAIN e.holds : Amount(e.holds[y].parts) \in Nat
    BY <1>1, PartsSum DEF HoldRow
  <2>2. /\ DOMAIN f = DOMAIN d.holds /\ DOMAIN g = DOMAIN f \cup {h} /\ h \notin DOMAIN f
        /\ \A y \in DOMAIN g : g[y] \in Int
        /\ \A y \in DOMAIN f : g[y] = f[y]
        /\ g[h] = IF x = a THEN Amount(parts) ELSE 0
    BY <2>1 DEF Helds, OneHold, HoldRows
  <2> HIDE DEF f, g
  <2>3. SumFunction(f) \in Int /\ SumFunction(g) = SumFunction(f) + g[h]
    BY <2>2, SumAdded DEF HoldRows
  <2> QED BY <2>2, <2>3 DEF HeldOf, Helds, f, g
<1>3. ASSUME NEW l
      PROVE  /\ LotHeld(d, l) \in Int
             /\ LotHeld(e, l) = LotHeld(d, l) + OfPocket(parts, l)
  <2> DEFINE f == [x \in DOMAIN d.holds |-> OfPocket(d.holds[x].parts, l)]
             g == [x \in DOMAIN e.holds |-> OfPocket(e.holds[x].parts, l)]
  <2>1. \A y \in DOMAIN e.holds : OfPocket(e.holds[y].parts, l) \in Nat
    BY <1>1, PartsSum DEF HoldRow
  <2>2. /\ DOMAIN f = DOMAIN d.holds /\ DOMAIN g = DOMAIN f \cup {h} /\ h \notin DOMAIN f
        /\ \A y \in DOMAIN g : g[y] \in Int
        /\ \A y \in DOMAIN f : g[y] = f[y]
        /\ g[h] = OfPocket(parts, l)
    BY <2>1 DEF OneHold, HoldRows
  <2>3. SumFunction(f) = LotHeld(d, l) /\ SumFunction(g) = LotHeld(e, l)
    BY DEF LotHeld
  <2> HIDE DEF f, g
  <2>4. SumFunction(f) \in Int /\ SumFunction(g) = SumFunction(f) + g[h]
    BY <2>2, SumAdded DEF HoldRows
  <2> QED BY <2>2, <2>3, <2>4
<1> QED BY <1>2, <1>3 DEF HoldsBy

\* Moving out of pockets what a list of parts says, or back into them.
LEMMA TakesSum ==
  ASSUME NEW parts \in Parts, NEW n, n = Len(parts),
         NEW f, f = [i \in 1..n |-> -parts[i].toku]
  PROVE  /\ \A i \in 1..n : f[i] \in Int
         /\ Sum(f, 1..n) = 0 - Amount(parts)
         /\ \A p : Sum(Aimed(parts, f, p), 1..n) = 0 - OfPocket(parts, p)
         /\ \A p : \A k \in 0..n : Sum(Aimed(parts, f, p), 1..k) \in Int /\
                                   Sum(Aimed(parts, f, p), 1..k) + OfPocket(parts, p) >= 0
<1>1. /\ n \in Nat /\ DOMAIN parts = 1..n /\ IsFiniteSet(1..n)
      /\ \A i \in 1..n : parts[i].toku \in Nat
  <2>1. /\ n \in Nat /\ DOMAIN parts = 1..n /\ IsFiniteSet(DOMAIN parts)
        /\ \A i \in 1..n : parts[i] \in APart
    BY PartsSum
  <2>2. \A i \in 1..n : parts[i].toku \in Nat
    BY <2>1 DEF APart
  <2> QED BY <2>1, <2>2
<1>2. \A i \in 1..n : f[i] \in Int
  BY <1>1
<1>3. Sum(f, 1..n) = 0 - Amount(parts)
  <2> DEFINE g == Tokus(parts)
  <2>1. \A i \in 1..n : g[i] \in Int /\ f[i] \in Int /\ g[i] + f[i] = 0
    BY <1>1 DEF Tokus
  <2>2. Amount(parts) = Sum(g, 1..n) /\ Amount(parts) \in Nat
    BY <1>1, PartsSum
  <2> HIDE DEF g
  <2>3. Sum(g, 1..n) + Sum(f, 1..n) = 0
    BY <1>1, <2>1, SumOpposite
  <2>4. Sum(f, 1..n) \in Int
    <3>1. \A k \in 0..n : Sum(f, 1..k) \in Int
      BY <1>1, <1>2, SumUpTo
    <3>2. n \in 0..n
      BY <1>1
    <3> QED BY <3>1, <3>2
  <2> QED BY <2>2, <2>3, <2>4
<1>4. ASSUME NEW p
      PROVE  Sum(Aimed(parts, f, p), 1..n) = 0 - OfPocket(parts, p)
  <2> DEFINE g == Tokens(parts, p)
             h == Aimed(parts, f, p)
  <2>1. \A i \in 1..n : g[i] \in Int /\ h[i] \in Int /\ g[i] + h[i] = 0
    BY <1>1 DEF Tokens, Aimed
  <2>2. OfPocket(parts, p) = Sum(g, 1..n) /\ OfPocket(parts, p) \in Nat
    BY <1>1, PartsSum
  <2> HIDE DEF g, h
  <2>3. Sum(g, 1..n) + Sum(h, 1..n) = 0
    BY <1>1, <2>1, SumOpposite
  <2>4. Sum(h, 1..n) \in Int
    <3>1. \A k \in 0..n : Sum(h, 1..k) \in Int
      BY <1>1, <2>1, SumUpTo
    <3>2. n \in 0..n
      BY <1>1
    <3> QED BY <3>1, <3>2
  <2> QED BY <2>2, <2>3, <2>4 DEF h
<1>5. ASSUME NEW p, NEW k \in 0..n
      PROVE  /\ Sum(Aimed(parts, f, p), 1..k) \in Int
             /\ Sum(Aimed(parts, f, p), 1..k) + OfPocket(parts, p) >= 0
  <2> DEFINE g == Tokens(parts, p)
             h == Aimed(parts, f, p)
  <2>1. \A i \in 1..n : g[i] \in Int /\ h[i] \in Int /\ g[i] + h[i] = 0
    BY <1>1 DEF Tokens, Aimed
  <2>2. Sum(g, 1..k) \in Nat /\ Sum(g, 1..k) <= OfPocket(parts, p) /\ OfPocket(parts, p) \in Nat
    BY FirstParts, PartsSum
  <2> HIDE DEF g, h
  <2>3. Sum(g, 1..k) + Sum(h, 1..k) = 0
    <3>1. k \in Nat /\ \A i \in 1..k : i \in 1..n
      BY <1>1
    <3>2. \A i \in 1..k : g[i] \in Int /\ h[i] \in Int /\ g[i] + h[i] = 0
      BY <2>1, <3>1
    <3>3. IsFiniteSet(1..k)
      <4>1. k \in Nat
        BY <3>1
      <4> QED BY <4>1, FS_Interval
    <3> QED BY <3>2, <3>3, SumOpposite
  <2>4. Sum(h, 1..k) \in Int
    <3>1. \A j \in 0..n : Sum(h, 1..j) \in Int
      BY <1>1, <2>1, SumUpTo
    <3> QED BY <3>1
  <2> QED BY <2>2, <2>3, <2>4 DEF h
<1> QED BY <1>2, <1>3, <1>4, <1>5

\* Moving back into pockets what a list of parts says.
LEMMA GivesSum ==
  ASSUME NEW parts \in Parts, NEW n, n = Len(parts),
         NEW f, f = [i \in 1..n |-> parts[i].toku]
  PROVE  /\ \A i \in 1..n : f[i] \in Int
         /\ Sum(f, 1..n) = Amount(parts)
         /\ \A p : Sum(Aimed(parts, f, p), 1..n) = OfPocket(parts, p)
         /\ \A p : \A k \in 0..n : Sum(Aimed(parts, f, p), 1..k) \in Nat
<1>1. /\ n \in Nat /\ DOMAIN parts = 1..n /\ IsFiniteSet(1..n)
      /\ \A i \in 1..n : parts[i].toku \in Nat
  BY PartsSum DEF APart
<1>2. f = Tokus(parts) /\ \A p : Aimed(parts, f, p) = Tokens(parts, p)
  BY <1>1 DEF Tokus, Aimed, Tokens
<1>3. Amount(parts) = Sum(Tokus(parts), 1..n) /\ \A p : OfPocket(parts, p) = Sum(Tokens(parts, p), 1..n)
  BY <1>1, PartsSum
<1>4. \A p : \A k \in 0..n : Sum(Tokens(parts, p), 1..k) \in Nat
  BY FirstParts
<1> QED BY <1>1, <1>2, <1>3, <1>4

\* A book in which no pocket is below nothing has rows of their kind.
LEMMA LeftsGiveRows ==
  ASSUME NEW b, BookRows(b, Int),
         \A x \in Accounts : b.allowance[x].left \in Nat,
         \A l \in DOMAIN b.lots : b.lots[l].left \in Nat
  PROVE  BookRows(b, Nat)
<1>1. b.allowance \in [Accounts -> AllowanceRow(Nat)]
  BY DEF BookRows, AllowanceRow
<1>2. b.lots \in [DOMAIN b.lots -> LotRow(Nat)]
  BY DEF BookRows, LotRow
<1> QED BY <1>1, <1>2 DEF BookRows

\* In a book with rows of their kind no pocket is below nothing.
LEMMA RowsAreInt ==
  ASSUME NEW b, BookRows(b, Nat)
  PROVE  /\ BookRows(b, Int)
         /\ \A x \in Accounts : b.allowance[x].left \in Nat
         /\ \A l \in DOMAIN b.lots : b.lots[l].left \in Nat
<1>1. b.allowance \in [Accounts -> AllowanceRow(Int)] /\ \A x \in Accounts : b.allowance[x].left \in Nat
  BY DEF BookRows, AllowanceRow
<1>2. b.lots \in [DOMAIN b.lots -> LotRow(Int)] /\ \A l \in DOMAIN b.lots : b.lots[l].left \in Nat
  BY DEF BookRows, LotRow
<1> QED BY <1>1, <1>2 DEF BookRows

Wealth(b, x) == InPockets(b, x) + HeldOf(b, x)
Has(b, l) == b.lots[l].left + LotHeld(b, l)

SameLots(b, e) ==
  /\ e.payments = b.payments /\ DOMAIN e.lots = DOMAIN b.lots
  /\ \A l \in DOMAIN b.lots : SameLot(e.lots[l], b.lots[l])

\* A run of statements from b, and the books it goes through: each has rows of their
\* kind, the lots of b and no hold but these.
IsSeq(q) == \E S : q \in Seq(S)
Passes(st, b, q, H) ==
  /\ IsSeq(q) /\ Course(st, b, q, Len(q))
  /\ \A k \in 0..Len(q) : BookRows(st[k], Nat) /\ SameLots(b, st[k]) /\ DOMAIN st[k].holds \subseteq H

\* From b to e, by these records, credit has moved from pockets to the new hold.
HoldMade(b, e, q, id) ==
  /\ BookRows(e, Nat) /\ SameLots(b, e)
  /\ DOMAIN e.holds = DOMAIN b.holds \cup {id}
  /\ \A x \in Accounts : Wealth(e, x) = Wealth(b, x)
  /\ \A l \in DOMAIN b.lots : Has(e, l) = Has(b, l)
  /\ \E st : Passes(st, b, q, DOMAIN b.holds \cup {id})

\* The statements of a hold move credit from pockets to the hold, and make none.
LEMMA HoldGroup ==
  ASSUME NEW b, BookRows(b, Nat), NEW a \in Accounts, NEW parts \in Parts,
         Owned(b, a, parts), NEW id, id \notin DOMAIN b.holds,
         OfPocket(parts, 0) <= b.allowance[a].left,
         \A l \in DOMAIN b.lots : OfPocket(parts, l) <= b.lots[l].left,
         NEW e, e = Run(b, Append(Takes(a, parts), NewHold(id, a, parts)))
  PROVE  HoldMade(b, e, Append(Takes(a, parts), NewHold(id, a, parts)), id)
<1> DEFINE n == Len(parts)
           q == Append(Takes(a, parts), NewHold(id, a, parts))
           f == [i \in 1..n |-> -parts[i].toku]
<1>1. n \in Nat /\ DOMAIN parts = 1..n /\ \A i \in 1..n : parts[i] \in APart
  BY PartsSum
<1>2. /\ IsSeq(q) /\ Len(q) = n + 1
      /\ DOMAIN q = 1..(n + 1) /\ q[n + 1] = NewHold(id, a, parts)
      /\ \A k \in 1..n : q[k] = Move(a, parts[k].pocket, f[k])
  <2>1. Takes(a, parts) \in Seq({Move(a, parts[k].pocket, f[k]) : k \in 1..n}) /\ Len(Takes(a, parts)) = n
    BY <1>1 DEF Takes
  <2> DEFINE S == {Move(a, parts[k].pocket, f[k]) : k \in 1..n} \cup {NewHold(id, a, parts)}
             t == Takes(a, parts)
  <2>2. t \in Seq(S) /\ NewHold(id, a, parts) \in S /\ Len(t) = n
    BY <1>1, <2>1 DEF Takes
  <2>3. \A k \in 1..n : t[k] = Move(a, parts[k].pocket, f[k])
    BY <1>1 DEF Takes
  <2>q. q = Append(t, NewHold(id, a, parts))
    OBVIOUS
  <2> HIDE DEF S, t, q, f, n
  <2>4. /\ q \in Seq(S) /\ Len(q) = n + 1
        /\ DOMAIN q = 1..(n + 1) /\ q[n + 1] = NewHold(id, a, parts)
        /\ \A k \in 1..n : q[k] = t[k]
    BY <1>1, <2>2, <2>q
  <2> QED BY <2>3, <2>4 DEF IsSeq
<1>3. f = [i \in 1..n |-> -parts[i].toku]
  OBVIOUS
<1> HIDE DEF n, q, f
<1>4. PICK st : Course(st, b, q, n + 1)
  <2>1. n + 1 \in Nat
    BY <1>1
  <2> QED BY <1>2, <2>1, RunSteps
<1>c. /\ st[0] = b /\ st[n + 1] = e
      /\ \A k \in 1..(n + 1) : st[k] = Execute(st[k - 1], q[k])
  BY <1>4 DEF Course, q
<1>5. \A i \in 1..n : f[i] \in Int
  BY <1>3, TakesSum DEF n
<1>6. Sum(f, 1..n) = 0 - Amount(parts) /\ \A p : Sum(Aimed(parts, f, p), 1..n) = 0 - OfPocket(parts, p)
  BY <1>3, TakesSum DEF n
<1> DEFINE d == st[n]
<1>m. \A k \in 0..n : MovedBy(b, st[k], a, parts, f, k)
  <2>1. \A k \in 1..n : st[k] = Execute(st[k - 1], Move(a, parts[k].pocket, f[k]))
    BY <1>1, <1>2, <1>c
  <2>2. BookRows(b, Int)
    BY RowsAreInt
  <2> QED BY <1>5, <1>c, <2>1, <2>2, MovesRun DEF n
<1>r. ASSUME NEW k \in 0..n
      PROVE  BookRows(st[k], Nat) /\ OnlyMoved(b, st[k])
  <2> DEFINE c == st[k]
  <2>1. MovedBy(b, c, a, parts, f, k)
    BY <1>m
  <2> HIDE DEF c
  <2>2. \A p : Sum(Aimed(parts, f, p), 1..k) \in Int /\ Sum(Aimed(parts, f, p), 1..k) + OfPocket(parts, p) >= 0
    BY <1>3, TakesSum DEF n
  <2>3. /\ \A p : OfPocket(parts, p) \in Nat
        /\ \A x \in Accounts : b.allowance[x].left \in Nat
        /\ \A l \in DOMAIN b.lots : b.lots[l].left \in Nat
    BY PartsSum, RowsAreInt
  <2>4. ASSUME NEW x \in Accounts
        PROVE  c.allowance[x].left \in Nat
    <3>1. c.allowance[x].left =
            b.allowance[x].left + (IF x = a THEN Sum(Aimed(parts, f, 0), 1..k) ELSE 0)
      BY <2>1 DEF MovedBy
    <3> QED BY <2>2, <2>3, <3>1
  <2>5. ASSUME NEW l \in DOMAIN b.lots
        PROVE  c.lots[l].left \in Nat
    <3>1. c.lots[l].left = b.lots[l].left + Sum(Aimed(parts, f, l), 1..k)
      BY <2>1 DEF MovedBy
    <3> QED BY <2>2, <2>3, <3>1
  <2>6. BookRows(c, Int) /\ OnlyMoved(b, c) /\ DOMAIN c.lots = DOMAIN b.lots
    BY <2>1 DEF MovedBy, OnlyMoved
  <2>7. BookRows(c, Nat)
    BY <2>4, <2>5, <2>6, LeftsGiveRows
  <2> QED BY <2>6, <2>7 DEF c
<1>0. n \in 0..n
  BY <1>1
<1>7. MovedBy(b, d, a, parts, f, n) /\ BookRows(d, Nat)
  BY <1>0, <1>m, <1>r
<1>8. e = Execute(d, NewHold(id, a, parts))
  <2>1. n + 1 \in 1..(n + 1) /\ (n + 1) - 1 = n
    BY <1>1
  <2> QED BY <1>2, <1>c, <2>1
<1> HIDE DEF d
<1>9. /\ BookRows(d, Int) /\ OnlyMoved(b, d)
      /\ \A x \in Accounts : d.allowance[x].left =
           b.allowance[x].left - (IF x = a THEN OfPocket(parts, 0) ELSE 0)
      /\ \A l \in DOMAIN b.lots : d.lots[l].left = b.lots[l].left - OfPocket(parts, l)
      /\ \A x \in Accounts : InPockets(d, x) =
           InPockets(b, x) - (IF x = a THEN Amount(parts) ELSE 0)
  <2>1. /\ Amount(parts) \in Nat /\ \A p : OfPocket(parts, p) \in Nat
        /\ \A x \in Accounts : b.allowance[x].left \in Nat
        /\ \A l \in DOMAIN b.lots : b.lots[l].left \in Nat
    BY PartsSum, RowsAreInt
  <2>2. \A x \in Accounts : InPockets(b, x) \in Int
    <3>1. BookRows(b, Int)
      BY RowsAreInt
    <3> QED BY <3>1, SumsOfBook DEF InPockets
  <2>3. \A x \in Accounts : d.allowance[x].left =
           b.allowance[x].left + (IF x = a THEN 0 - OfPocket(parts, 0) ELSE 0)
    BY <1>6, <1>7 DEF MovedBy
  <2>4. \A l \in DOMAIN b.lots : d.lots[l].left = b.lots[l].left + (0 - OfPocket(parts, l))
    BY <1>6, <1>7 DEF MovedBy
  <2>5. \A x \in Accounts : InPockets(d, x) =
           InPockets(b, x) + (IF x = a THEN 0 - Amount(parts) ELSE 0)
    BY <1>6, <1>7 DEF MovedBy
  <2>6. BookRows(d, Int) /\ OnlyMoved(b, d)
    BY <1>7 DEF MovedBy
  <2> QED BY <2>1, <2>2, <2>3, <2>4, <2>5, <2>6
<1>10. BookRows(d, Nat)
  BY <1>7
<1>11. OneHold(d, e, id, a, parts) /\ e = [d EXCEPT !.holds = e.holds]
  <2>1. e = [d EXCEPT !.holds = With(d.holds, id, [acct |-> a, parts |-> parts])]
    BY <1>8 DEF Execute, NewHold
  <2>2. d.holds = b.holds
    BY <1>9 DEF OnlyMoved
  <2>3. d = [allowance |-> d.allowance, lots |-> d.lots, holds |-> d.holds, payments |-> d.payments]
    BY <1>10 DEF BookRows
  <2> QED BY <2>1, <2>2, <2>3 DEF OneHold, With
<1>12. BookRows(e, Nat)
  <2>1. e = [allowance |-> e.allowance, lots |-> e.lots, holds |-> e.holds, payments |-> e.payments]
    BY <1>10, <1>11 DEF BookRows
  <2>2. e.allowance = d.allowance /\ e.lots = d.lots /\ e.payments = d.payments
    BY <1>11 DEF OneHold
  <2>3. IsFiniteSet(DOMAIN e.holds)
    BY <1>10, <1>11, FS_AddElement DEF BookRows, OneHold
  <2>4. \A h \in DOMAIN e.holds : e.holds[h] \in HoldRow
    BY <1>10, <1>11 DEF BookRows, OneHold, HoldRow
  <2>5. \A h \in DOMAIN e.holds : Owned(e, e.holds[h].acct, e.holds[h].parts)
    <3>1. \A x : LotsOfAcct(e, x) = LotsOfAcct(d, x) /\ LotsOfAcct(d, x) = LotsOfAcct(b, x)
      BY <1>9, <2>2 DEF LotsOfAcct, OnlyMoved, SameLot
    <3>2. \A h \in DOMAIN d.holds : Owned(d, d.holds[h].acct, d.holds[h].parts)
      BY <1>10 DEF BookRows
    <3>3. \A h \in DOMAIN d.holds : Owned(e, e.holds[h].acct, e.holds[h].parts)
      BY <1>11, <3>1, <3>2 DEF OneHold, Owned
    <3>4. e.holds[id].acct = a /\ e.holds[id].parts = parts
      BY <1>11 DEF OneHold
    <3>5. Owned(e, e.holds[id].acct, e.holds[id].parts)
      BY <3>1, <3>4 DEF Owned
    <3> QED BY <1>11, <3>3, <3>5 DEF OneHold
  <2>6. e.holds \in [DOMAIN e.holds -> HoldRow]
    <3>1. e.holds = [h \in DOMAIN e.holds |-> e.holds[h]]
      BY <1>8, <2>1 DEF Execute, NewHold, With
    <3> QED BY <2>4, <3>1
  <2> QED BY <1>10, <2>1, <2>2, <2>3, <2>5, <2>6 DEF BookRows
<1>13. SameLots(b, e)
  BY <1>9, <1>11 DEF SameLots, OnlyMoved, OneHold
<1>14. /\ \A x \in Accounts : /\ HeldOf(d, x) \in Int /\ HeldOf(d, x) = HeldOf(b, x)
                              /\ HeldOf(e, x) = HeldOf(d, x) + (IF x = a THEN Amount(parts) ELSE 0)
       /\ \A l : /\ LotHeld(d, l) \in Int /\ LotHeld(d, l) = LotHeld(b, l)
                 /\ LotHeld(e, l) = LotHeld(d, l) + OfPocket(parts, l)
  <2>1. IsFiniteSet(DOMAIN d.holds) /\ \A x \in DOMAIN d.holds : d.holds[x] \in HoldRow
    BY <1>10 DEF BookRows
  <2>2. d.holds = b.holds
    BY <1>9 DEF OnlyMoved
  <2>3. /\ \A x \in Accounts : HeldOf(d, x) = HeldOf(b, x)
        /\ \A l : LotHeld(d, l) = LotHeld(b, l)
    BY <2>2 DEF HeldOf, LotHeld
  <2>4. /\ \A x \in Accounts : /\ HeldOf(d, x) \in Int
                               /\ HeldOf(e, x) = HeldOf(d, x) + (IF x = a THEN Amount(parts) ELSE 0)
        /\ \A l : /\ LotHeld(d, l) \in Int
                  /\ LotHeld(e, l) = LotHeld(d, l) + OfPocket(parts, l)
    <3>1. OneHold(d, e, id, a, parts) /\ HoldRows(d)
      BY <1>11, <2>1 DEF HoldRows
    <3>2. HoldsBy(d, e, a, parts)
      BY <3>1, HoldSums
    <3> QED BY <3>2 DEF HoldsBy
  <2> QED BY <2>3, <2>4
<1>15. ASSUME NEW x \in Accounts
       PROVE  Wealth(e, x) = Wealth(b, x)
  <2>1. InPockets(e, x) = InPockets(d, x)
    BY <1>11 DEF InPockets, LotsOf, OneHold
  <2>2. InPockets(b, x) \in Int /\ Amount(parts) \in Nat
    <3>1. BookRows(b, Int)
      BY RowsAreInt
    <3> QED BY <3>1, SumsOfBook, PartsSum DEF InPockets
  <2>3. HeldOf(d, x) \in Int /\ HeldOf(d, x) = HeldOf(b, x)
    BY <1>14
  <2> QED BY <1>9, <1>14, <2>1, <2>2, <2>3 DEF Wealth
<1>16. ASSUME NEW l \in DOMAIN b.lots
       PROVE  Has(e, l) = Has(b, l)
  <2>1. e.lots[l].left = b.lots[l].left - OfPocket(parts, l)
    BY <1>9, <1>11 DEF OneHold
  <2>2. b.lots[l].left \in Nat /\ OfPocket(parts, l) \in Nat
    BY RowsAreInt, PartsSum
  <2>3. LotHeld(b, l) \in Int /\ LotHeld(e, l) = LotHeld(b, l) + OfPocket(parts, l)
    BY <1>14
  <2> QED BY <2>1, <2>2, <2>3 DEF Has
<1>17. DOMAIN e.holds = DOMAIN b.holds \cup {id}
  BY <1>9, <1>11 DEF OneHold, OnlyMoved
<1>18. Passes(st, b, q, DOMAIN b.holds \cup {id})
  <2> DEFINE H == DOMAIN b.holds \cup {id}
  <2>1. ASSUME NEW k \in 0..(n + 1)
        PROVE  BookRows(st[k], Nat) /\ SameLots(b, st[k]) /\ DOMAIN st[k].holds \subseteq H
    <3>1. CASE k \in 0..n
      <4>1. BookRows(st[k], Nat) /\ OnlyMoved(b, st[k])
        BY <1>r, <3>1
      <4>2. SameLots(b, st[k]) /\ st[k].holds = b.holds
        BY <4>1 DEF SameLots, OnlyMoved
      <4> QED BY <4>1, <4>2
    <3>2. CASE k = n + 1
      BY <1>12, <1>13, <1>17, <1>c, <3>2
    <3> QED BY <1>1, <3>1, <3>2
  <2> HIDE DEF H
  <2>2. Course(st, b, q, Len(q)) /\ IsSeq(q) /\ 0..Len(q) = 0..(n + 1)
    BY <1>2, <1>4
  <2>3. Passes(st, b, q, H)
    BY <2>1, <2>2 DEF Passes
  <2> QED BY <2>3 DEF H
<1>19. HoldMade(b, e, q, id)
  BY <1>12, <1>13, <1>15, <1>16, <1>17, <1>18 DEF HoldMade
<1> QED BY <1>19 DEF q

\* From b to e, by these records, the hold h on parts is gone, and of it only what
\* went back is in pockets.
HoldSettled(b, e, q, h, a, parts, backs) ==
  /\ BookRows(e, Nat) /\ SameLots(b, e)
  /\ DOMAIN e.holds = DOMAIN b.holds \ {h}
  /\ \A x \in DOMAIN e.holds : e.holds[x] = b.holds[x]
  /\ \A x \in Accounts : Wealth(e, x) =
       Wealth(b, x) - (IF x = a THEN Amount(parts) - Amount(backs) ELSE 0)
  /\ \A l \in DOMAIN b.lots : Has(e, l) =
       Has(b, l) - (OfPocket(parts, l) - OfPocket(backs, l))
  /\ \E st : Passes(st, b, q, DOMAIN b.holds)

\* The statements of a settle, or of giving a hold back, put credit of the hold into
\* pockets and drop it; what does not go back is gone.
LEMMA SettleGroup ==
  ASSUME NEW b, BookRows(b, Nat), NEW h \in DOMAIN b.holds,
         NEW a, a = b.holds[h].acct, NEW parts, parts = b.holds[h].parts,
         NEW backs \in Parts, Owned(b, a, backs),
         NEW e, e = Run(b, Append(Gives(a, backs), DeleteHold(h)))
  PROVE  HoldSettled(b, e, Append(Gives(a, backs), DeleteHold(h)), h, a, parts, backs)
<1> DEFINE n == Len(backs)
           q == Append(Gives(a, backs), DeleteHold(h))
           f == [i \in 1..n |-> backs[i].toku]
<1>0. a \in Accounts /\ parts \in Parts
  BY DEF BookRows, HoldRow
<1>1. n \in Nat /\ DOMAIN backs = 1..n /\ \A i \in 1..n : backs[i] \in APart
  BY PartsSum
<1>2. /\ IsSeq(q) /\ Len(q) = n + 1
      /\ DOMAIN q = 1..(n + 1) /\ q[n + 1] = DeleteHold(h)
      /\ \A k \in 1..n : q[k] = Move(a, backs[k].pocket, f[k])
  <2>1. Gives(a, backs) \in Seq({Move(a, backs[k].pocket, f[k]) : k \in 1..n}) /\ Len(Gives(a, backs)) = n
    BY <1>1 DEF Gives
  <2> DEFINE S == {Move(a, backs[k].pocket, f[k]) : k \in 1..n} \cup {DeleteHold(h)}
             t == Gives(a, backs)
  <2>2. t \in Seq(S) /\ DeleteHold(h) \in S /\ Len(t) = n
    BY <1>1, <2>1 DEF Gives
  <2>3. \A k \in 1..n : t[k] = Move(a, backs[k].pocket, f[k])
    BY <1>1 DEF Gives
  <2>q. q = Append(t, DeleteHold(h))
    OBVIOUS
  <2> HIDE DEF S, t, q, f, n
  <2>4. /\ q \in Seq(S) /\ Len(q) = n + 1
        /\ DOMAIN q = 1..(n + 1) /\ q[n + 1] = DeleteHold(h)
        /\ \A k \in 1..n : q[k] = t[k]
    BY <1>1, <2>2, <2>q
  <2> QED BY <2>3, <2>4 DEF IsSeq
<1>3. f = [i \in 1..n |-> backs[i].toku]
  OBVIOUS
<1> HIDE DEF n, q, f
<1>4. PICK st : Course(st, b, q, n + 1)
  <2>1. n + 1 \in Nat
    BY <1>1
  <2> QED BY <1>2, <2>1, RunSteps
<1>c. /\ st[0] = b /\ st[n + 1] = e
      /\ \A k \in 1..(n + 1) : st[k] = Execute(st[k - 1], q[k])
  BY <1>4 DEF Course, q
<1>5. \A i \in 1..n : f[i] \in Int
  BY <1>3, GivesSum DEF n
<1>6. Sum(f, 1..n) = Amount(backs) /\ \A p : Sum(Aimed(backs, f, p), 1..n) = OfPocket(backs, p)
  BY <1>3, GivesSum DEF n
<1> DEFINE d == st[n]
<1>m. \A k \in 0..n : MovedBy(b, st[k], a, backs, f, k)
  <2>1. \A k \in 1..n : st[k] = Execute(st[k - 1], Move(a, backs[k].pocket, f[k]))
    BY <1>1, <1>2, <1>c
  <2>2. BookRows(b, Int)
    BY RowsAreInt
  <2> QED BY <1>0, <1>5, <1>c, <2>1, <2>2, MovesRun DEF n
<1>r. ASSUME NEW k \in 0..n
      PROVE  BookRows(st[k], Nat) /\ OnlyMoved(b, st[k])
  <2> DEFINE c == st[k]
  <2>1. MovedBy(b, c, a, backs, f, k)
    BY <1>m
  <2> HIDE DEF c
  <2>2. \A p : Sum(Aimed(backs, f, p), 1..k) \in Nat
    BY <1>3, GivesSum DEF n
  <2>3. /\ \A x \in Accounts : b.allowance[x].left \in Nat
        /\ \A l \in DOMAIN b.lots : b.lots[l].left \in Nat
    BY RowsAreInt
  <2>4. ASSUME NEW x \in Accounts
        PROVE  c.allowance[x].left \in Nat
    <3>1. c.allowance[x].left =
            b.allowance[x].left + (IF x = a THEN Sum(Aimed(backs, f, 0), 1..k) ELSE 0)
      BY <2>1 DEF MovedBy
    <3> QED BY <2>2, <2>3, <3>1
  <2>5. ASSUME NEW l \in DOMAIN b.lots
        PROVE  c.lots[l].left \in Nat
    <3>1. c.lots[l].left = b.lots[l].left + Sum(Aimed(backs, f, l), 1..k)
      BY <2>1 DEF MovedBy
    <3> QED BY <2>2, <2>3, <3>1
  <2>6. BookRows(c, Int) /\ OnlyMoved(b, c) /\ DOMAIN c.lots = DOMAIN b.lots
    BY <2>1 DEF MovedBy, OnlyMoved
  <2>7. BookRows(c, Nat)
    BY <2>4, <2>5, <2>6, LeftsGiveRows
  <2> QED BY <2>6, <2>7 DEF c
<1>n. n \in 0..n
  BY <1>1
<1>7. MovedBy(b, d, a, backs, f, n) /\ BookRows(d, Nat)
  BY <1>m, <1>n, <1>r
<1>8. e = Execute(d, DeleteHold(h))
  <2>1. n + 1 \in 1..(n + 1) /\ (n + 1) - 1 = n
    BY <1>1
  <2> QED BY <1>2, <1>c, <2>1
<1> HIDE DEF d
<1>9. /\ BookRows(d, Int) /\ OnlyMoved(b, d)
      /\ \A x \in Accounts : d.allowance[x].left =
           b.allowance[x].left + (IF x = a THEN OfPocket(backs, 0) ELSE 0)
      /\ \A l \in DOMAIN b.lots : d.lots[l].left = b.lots[l].left + OfPocket(backs, l)
      /\ \A x \in Accounts : InPockets(d, x) =
           InPockets(b, x) + (IF x = a THEN Amount(backs) ELSE 0)
  BY <1>6, <1>7 DEF MovedBy
<1>10. BookRows(d, Nat)
  BY <1>7
<1>11. /\ e = [d EXCEPT !.holds = Without(d.holds, h)] /\ d.holds = b.holds
       /\ d = [allowance |-> d.allowance, lots |-> d.lots, holds |-> d.holds, payments |-> d.payments]
  BY <1>8, <1>9 DEF Execute, DeleteHold, OnlyMoved, BookRows
<1>12. /\ e.allowance = d.allowance /\ e.lots = d.lots /\ e.payments = d.payments
       /\ e.holds = Without(b.holds, h)
       /\ e = [allowance |-> e.allowance, lots |-> e.lots, holds |-> e.holds, payments |-> e.payments]
  BY <1>11
<1>13. /\ DOMAIN e.holds = DOMAIN b.holds \ {h}
       /\ \A x \in DOMAIN e.holds : e.holds[x] = b.holds[x]
  BY <1>12 DEF Without
<1>14. OneHold(e, d, h, a, parts)
  <2>1. b.holds[h] = [acct |-> a, parts |-> parts]
    BY DEF BookRows, HoldRow
  <2> QED BY <1>11, <1>12, <1>13, <2>1 DEF OneHold
<1>15. BookRows(e, Nat)
  <2>1. IsFiniteSet(DOMAIN e.holds)
    BY <1>13, FS_RemoveElement DEF BookRows
  <2>2. e.holds \in [DOMAIN e.holds -> HoldRow]
    BY <1>12, <1>13 DEF BookRows, Without
  <2>3. \A x \in DOMAIN e.holds : Owned(e, e.holds[x].acct, e.holds[x].parts)
    <3>1. \A x : LotsOfAcct(e, x) = LotsOfAcct(d, x)
      BY <1>12 DEF LotsOfAcct
    <3>2. \A x \in DOMAIN d.holds : Owned(d, d.holds[x].acct, d.holds[x].parts)
      BY <1>10 DEF BookRows
    <3> QED BY <1>11, <1>13, <3>1, <3>2 DEF Owned
  <2> QED BY <1>10, <1>12, <2>1, <2>2, <2>3 DEF BookRows
<1>16. SameLots(b, e)
  BY <1>9, <1>12 DEF SameLots, OnlyMoved
<1>17. HoldsBy(e, d, a, parts)
  <2>1. HoldRows(e)
    BY <1>15 DEF BookRows, HoldRows
  <2> QED BY <1>0, <1>14, <2>1, HoldSums
<1>18. /\ \A x : HeldOf(d, x) = HeldOf(b, x)
       /\ \A l : LotHeld(d, l) = LotHeld(b, l)
  BY <1>11 DEF HeldOf, LotHeld
<1>19. ASSUME NEW x \in Accounts
       PROVE  Wealth(e, x) = Wealth(b, x) - (IF x = a THEN Amount(parts) - Amount(backs) ELSE 0)
  <2>1. InPockets(e, x) = InPockets(d, x)
    BY <1>12 DEF InPockets, LotsOf
  <2>2. InPockets(b, x) \in Int /\ Amount(parts) \in Nat /\ Amount(backs) \in Nat
    <3>1. BookRows(b, Int)
      BY RowsAreInt
    <3>2. InPockets(b, x) \in Int
      BY <3>1, SumsOfBook DEF InPockets
    <3> QED BY <1>0, <3>2, PartsSum
  <2>3. HeldOf(e, x) \in Int /\ HeldOf(b, x) = HeldOf(e, x) + (IF x = a THEN Amount(parts) ELSE 0)
    BY <1>17, <1>18 DEF HoldsBy
  <2>4. InPockets(d, x) = InPockets(b, x) + (IF x = a THEN Amount(backs) ELSE 0)
    BY <1>9
  <2> QED BY <2>1, <2>2, <2>3, <2>4 DEF Wealth
<1>20. ASSUME NEW l \in DOMAIN b.lots
       PROVE  Has(e, l) = Has(b, l) - (OfPocket(parts, l) - OfPocket(backs, l))
  <2>1. e.lots[l].left = b.lots[l].left + OfPocket(backs, l)
    BY <1>9, <1>12
  <2>2. b.lots[l].left \in Nat /\ OfPocket(parts, l) \in Nat /\ OfPocket(backs, l) \in Nat
    BY <1>0, RowsAreInt, PartsSum
  <2>3. LotHeld(e, l) \in Int /\ LotHeld(b, l) = LotHeld(e, l) + OfPocket(parts, l)
    BY <1>17, <1>18 DEF HoldsBy
  <2> QED BY <2>1, <2>2, <2>3 DEF Has
<1>21. Passes(st, b, q, DOMAIN b.holds)
  <2> DEFINE H == DOMAIN b.holds
  <2>1. ASSUME NEW k \in 0..(n + 1)
        PROVE  BookRows(st[k], Nat) /\ SameLots(b, st[k]) /\ DOMAIN st[k].holds \subseteq H
    <3>1. CASE k \in 0..n
      <4>1. BookRows(st[k], Nat) /\ OnlyMoved(b, st[k])
        BY <1>r, <3>1
      <4>2. SameLots(b, st[k]) /\ st[k].holds = b.holds
        BY <4>1 DEF SameLots, OnlyMoved
      <4> QED BY <4>1, <4>2
    <3>2. CASE k = n + 1
      BY <1>13, <1>15, <1>16, <1>c, <3>2
    <3> QED BY <1>1, <3>1, <3>2
  <2> HIDE DEF H
  <2>2. Course(st, b, q, Len(q)) /\ IsSeq(q) /\ 0..Len(q) = 0..(n + 1)
    BY <1>2, <1>4
  <2>3. Passes(st, b, q, H)
    BY <2>1, <2>2 DEF Passes
  <2> QED BY <2>3 DEF H
<1>22. HoldSettled(b, e, q, h, a, parts, backs)
  BY <1>13, <1>15, <1>16, <1>19, <1>20, <1>21 DEF HoldSettled
<1> QED BY <1>22 DEF q

-----------------------------------------------------------------------------
(* Groups of one statement or two.                                         *)

\* A run of one statement.
LEMMA RunOfOne ==
  ASSUME NEW b, NEW c
  PROVE  Run(b, <<c>>) = Execute(b, c)
<1>1. PICK st : /\ st[0] = b /\ st[1] = Run(b, <<c>>)
                /\ \A k \in 1..1 : st[k] = Execute(st[k - 1], <<c>>[k])
  <2>1. DOMAIN <<c>> = 1..1 /\ 1 \in Nat
    OBVIOUS
  <2>2. \E st : Course(st, b, <<c>>, 1)
    BY <2>1, RunSteps
  <2> QED BY <2>2 DEF Course
<1>2. st[1] = Execute(st[1 - 1], <<c>>[1])
  BY <1>1
<1> QED BY <1>1, <1>2

\* A run of two.
LEMMA RunOfTwo ==
  ASSUME NEW b, NEW c, NEW d
  PROVE  Run(b, <<c, d>>) = Execute(Execute(b, c), d)
<1>1. PICK st : /\ st[0] = b /\ st[2] = Run(b, <<c, d>>)
                /\ \A k \in 1..2 : st[k] = Execute(st[k - 1], <<c, d>>[k])
  <2>1. DOMAIN <<c, d>> = 1..2 /\ 2 \in Nat
    OBVIOUS
  <2>2. \E st : Course(st, b, <<c, d>>, 2)
    BY <2>1, RunSteps
  <2> QED BY <2>2 DEF Course
<1>2. st[1] = Execute(st[1 - 1], <<c, d>>[1]) /\ st[2] = Execute(st[2 - 1], <<c, d>>[2])
  BY <1>1
<1> QED BY <1>1, <1>2

\* From b to e an account's allowance has become this row, and nothing else changed.
NewAllowance(b, e, a, row) ==
  /\ BookRows(e, Nat) /\ e.lots = b.lots /\ e.holds = b.holds /\ e.payments = b.payments
  /\ \A x \in Accounts : Wealth(e, x) =
       Wealth(b, x) + (IF x = a THEN row.left - b.allowance[a].left ELSE 0)

\* A new row for an allowance changes what the account has by the difference.
LEMMA AllowanceGroup ==
  ASSUME NEW b, BookRows(b, Nat), NEW a \in Accounts, NEW row \in AllowanceRow(Nat)
  PROVE  NewAllowance(b, [b EXCEPT !.allowance[a] = row], a, row)
<1> DEFINE e == [b EXCEPT !.allowance[a] = row]
<1>1. b = [allowance |-> b.allowance, lots |-> b.lots, holds |-> b.holds, payments |-> b.payments]
  BY DEF BookRows
<1>2. /\ e.allowance = [b.allowance EXCEPT ![a] = row]
      /\ e.lots = b.lots /\ e.holds = b.holds /\ e.payments = b.payments
      /\ e = [allowance |-> e.allowance, lots |-> e.lots, holds |-> e.holds, payments |-> e.payments]
  BY <1>1
<1> HIDE DEF e
<1>3. e.allowance \in [Accounts -> AllowanceRow(Nat)]
  BY <1>2 DEF BookRows
<1>4. BookRows(e, Nat)
  BY <1>2, <1>3 DEF BookRows, Owned, LotsOfAcct
<1>5. ASSUME NEW x \in Accounts
      PROVE  Wealth(e, x) = Wealth(b, x) + (IF x = a THEN row.left - b.allowance[a].left ELSE 0)
  <2>1. LotsOf(e, x) = LotsOf(b, x) /\ HeldOf(e, x) = HeldOf(b, x)
    BY <1>2 DEF LotsOf, HeldOf
  <2>2. LotsOf(b, x) \in Int /\ HeldOf(b, x) \in Int /\ b.allowance[x].left \in Int
    <3>1. BookRows(b, Int)
      BY RowsAreInt
    <3> QED BY <3>1, SumsOfBook
  <2>3. e.allowance[x].left = IF x = a THEN row.left ELSE b.allowance[x].left
    BY <1>2 DEF BookRows
  <2>4. row.left \in Int
    BY DEF AllowanceRow
  <2> QED BY <2>1, <2>2, <2>3, <2>4 DEF Wealth, InPockets
<1> QED BY <1>2, <1>4, <1>5 DEF NewAllowance, e

\* What a change of the plan logic leaves in the allowance.
Changed(b, e, a, n) ==
  /\ BookRows(e, Nat) /\ e.lots = b.lots /\ e.holds = b.holds /\ e.payments = b.payments
  /\ \A x \in Accounts : Wealth(e, x) = Wealth(b, x) + (IF x = a THEN n ELSE 0)

\* Granting an allowance.
LEMMA SetGroup ==
  ASSUME NEW b, BookRows(b, Nat), NEW a \in Accounts, NEW ends \in Nat, NEW n \in Nat
  PROVE  Changed(b, Run(b, <<Set(a, ends, n)>>), a, n - b.allowance[a].left)
<1> DEFINE row == [ends |-> ends, granted |-> n, left |-> n]
<1>1. Run(b, <<Set(a, ends, n)>>) = [b EXCEPT !.allowance[a] = row]
  BY RunOfOne DEF Execute, Set
<1>2. row \in AllowanceRow(Nat) /\ row.left = n
  BY DEF AllowanceRow
<1> HIDE DEF row
<1>3. NewAllowance(b, [b EXCEPT !.allowance[a] = row], a, row)
  BY <1>2, AllowanceGroup
<1> QED BY <1>1, <1>2, <1>3 DEF NewAllowance, Changed

\* What adding to an allowance does to its row.
LEMMA RowAdded ==
  ASSUME NEW r \in AllowanceRow(Nat), NEW n \in Nat
  PROVE  /\ [r EXCEPT !.granted = @ + n, !.left = @ + n] \in AllowanceRow(Nat)
         /\ [r EXCEPT !.granted = @ + n, !.left = @ + n].left = r.left + n
         /\ r.left \in Nat
<1>1. r.granted + n \in Nat /\ r.left + n \in Nat /\ r.left \in Nat
  BY DEF AllowanceRow
<1> DEFINE g == r.granted + n
           m == r.left + n
<1> HIDE DEF g, m
<1>2. [r EXCEPT !.granted = g, !.left = m] \in AllowanceRow(Nat)
  BY <1>1 DEF AllowanceRow, g, m
<1>3. [r EXCEPT !.granted = g, !.left = m].left = m
  BY DEF AllowanceRow
<1> QED BY <1>1, <1>2, <1>3 DEF g, m

\* Adding to an allowance; without a row it does nothing.
LEMMA AddGroup ==
  ASSUME NEW b, BookRows(b, Nat), NEW a \in Accounts, NEW n \in Nat
  PROVE  Changed(b, Run(b, <<Add(a, n)>>), a, IF HasRow(b, a) THEN n ELSE 0)
<1> DEFINE old == b.allowance[a]
           row == [old EXCEPT !.granted = @ + n, !.left = @ + n]
<1>1. Run(b, <<Add(a, n)>>) =
        IF ~HasRow(b, a) THEN b
        ELSE [b EXCEPT !.allowance[a].granted = @ + n, !.allowance[a].left = @ + n]
  <2> DEFINE c == Add(a, n)
  <2>1. c.do = "add" /\ c.acct = a /\ c.n = n
    BY DEF Add
  <2> HIDE DEF c
  <2>2. Execute(b, c) =
          IF ~HasRow(b, c.acct) THEN b
          ELSE [b EXCEPT !.allowance[c.acct].granted = @ + c.n, !.allowance[c.acct].left = @ + c.n]
    BY <2>1 DEF Execute
  <2> QED BY <2>1, <2>2, RunOfOne DEF c
<1>2. b.allowance \in [Accounts -> AllowanceRow(Nat)] /\ old \in AllowanceRow(Nat)
      /\ b = [allowance |-> b.allowance, lots |-> b.lots, holds |-> b.holds, payments |-> b.payments]
  BY DEF BookRows
<1>3. CASE HasRow(b, a)
  <2>1. Run(b, <<Add(a, n)>>) = [b EXCEPT !.allowance[a] = row]
    BY <1>1, <1>2, <1>3 DEF AllowanceRow
  <2>2. row \in AllowanceRow(Nat) /\ row.left = old.left + n /\ old.left \in Nat
    BY <1>2, RowAdded
  <2> HIDE DEF row
  <2>3. NewAllowance(b, [b EXCEPT !.allowance[a] = row], a, row)
    BY <2>2, AllowanceGroup
  <2>4. row.left - b.allowance[a].left = n
    BY <2>2
  <2> QED BY <1>3, <2>1, <2>3, <2>4 DEF NewAllowance, Changed
<1>4. CASE ~HasRow(b, a)
  <2>1. \A x \in Accounts : Wealth(b, x) \in Int
    <3>1. BookRows(b, Int)
      BY RowsAreInt
    <3> QED BY <3>1, SumsOfBook DEF Wealth, InPockets
  <2> QED BY <1>1, <1>4, <2>1 DEF Changed
<1> QED BY <1>3, <1>4

\* Letting an allowance lapse.
LEMMA LapseGroup ==
  ASSUME NEW b, BookRows(b, Nat), NEW a \in Accounts
  PROVE  Changed(b, Run(b, <<Lapse(a)>>), a, 0 - b.allowance[a].left)
<1> DEFINE old == b.allowance[a]
           row == [old EXCEPT !.granted = 0, !.left = 0]
<1>1. Run(b, <<Lapse(a)>>) = [b EXCEPT !.allowance[a].granted = 0, !.allowance[a].left = 0]
  <2> DEFINE c == Lapse(a)
  <2>1. c.do = "lapse" /\ c.acct = a
    BY DEF Lapse
  <2> HIDE DEF c
  <2>2. Execute(b, c) = [b EXCEPT !.allowance[c.acct].granted = 0, !.allowance[c.acct].left = 0]
    BY <2>1 DEF Execute
  <2> QED BY <2>1, <2>2, RunOfOne DEF c
<1>2. b.allowance \in [Accounts -> AllowanceRow(Nat)] /\ old \in AllowanceRow(Nat)
      /\ b = [allowance |-> b.allowance, lots |-> b.lots, holds |-> b.holds, payments |-> b.payments]
  BY DEF BookRows
<1>3. Run(b, <<Lapse(a)>>) = [b EXCEPT !.allowance[a] = row]
  BY <1>1, <1>2 DEF AllowanceRow
<1>4. row \in AllowanceRow(Nat) /\ row.left = 0
  BY <1>2 DEF AllowanceRow
<1> HIDE DEF row
<1>5. NewAllowance(b, [b EXCEPT !.allowance[a] = row], a, row)
  BY <1>4, AllowanceGroup
<1> QED BY <1>3, <1>4, <1>5 DEF NewAllowance, Changed

\* From b to e a payment is put on record.
Paid(b, e, ref) ==
  /\ BookRows(e, Nat) /\ e.lots = b.lots /\ e.holds = b.holds
  /\ e.payments = b.payments \cup {ref}
  /\ \A x \in Accounts : Wealth(e, x) = Wealth(b, x)

\* A payment put on record changes nothing else.
LEMMA PayGroup ==
  ASSUME NEW b, BookRows(b, Nat), NEW ref \in Refs
  PROVE  Paid(b, Execute(b, Pay(ref)), ref)
<1> DEFINE e == Execute(b, Pay(ref))
<1>1. e = [b EXCEPT !.payments = @ \cup {ref}]
  BY DEF Execute, Pay
<1>2. b = [allowance |-> b.allowance, lots |-> b.lots, holds |-> b.holds, payments |-> b.payments]
  BY DEF BookRows
<1>3. /\ e.payments = b.payments \cup {ref}
      /\ e.lots = b.lots /\ e.holds = b.holds /\ e.allowance = b.allowance
      /\ e = [allowance |-> e.allowance, lots |-> e.lots, holds |-> e.holds, payments |-> e.payments]
  BY <1>1, <1>2
<1> HIDE DEF e
<1>4. BookRows(e, Nat)
  BY <1>3 DEF BookRows, Owned, LotsOfAcct
<1>5. \A x \in Accounts : Wealth(e, x) = Wealth(b, x)
  BY <1>3 DEF Wealth, InPockets, LotsOf, HeldOf
<1> QED BY <1>3, <1>4, <1>5 DEF Paid, e

\* From b to e an account has got a lot of n.
GotLot(b, e, id, a, n) ==
  /\ BookRows(e, Nat) /\ e.holds = b.holds /\ e.payments = b.payments
  /\ DOMAIN e.lots = DOMAIN b.lots \cup {id} /\ e.lots[id].left = n
  /\ \A l \in DOMAIN b.lots : e.lots[l] = b.lots[l]
  /\ \A x \in Accounts : Wealth(e, x) = Wealth(b, x) + (IF x = a THEN n ELSE 0)

\* A new lot is its account's, whole.
LEMMA LotGroup ==
  ASSUME NEW b, BookRows(b, Nat), NEW a \in Accounts, NEW id \in Nat \ {0},
         id \notin DOMAIN b.lots, NEW n \in Nat, NEW expires \in Nat
  PROVE  GotLot(b, Execute(b, NewLot(id, a, n, expires)), id, a, n)
<1> DEFINE e == Execute(b, NewLot(id, a, n, expires))
           row == [acct |-> a, left |-> n, expires |-> expires]
<1>1. e = [b EXCEPT !.lots = With(b.lots, id, row)]
  BY DEF Execute, NewLot
<1>2. b = [allowance |-> b.allowance, lots |-> b.lots, holds |-> b.holds, payments |-> b.payments]
  BY DEF BookRows
<1>3. /\ e.lots = With(b.lots, id, row)
      /\ e.payments = b.payments /\ e.holds = b.holds /\ e.allowance = b.allowance
      /\ e = [allowance |-> e.allowance, lots |-> e.lots, holds |-> e.holds, payments |-> e.payments]
  BY <1>1, <1>2
<1>4. row \in LotRow(Nat) /\ row.acct = a /\ row.left = n
  BY DEF LotRow
<1> HIDE DEF e, row
<1>5. /\ DOMAIN e.lots = DOMAIN b.lots \cup {id} /\ e.lots[id] = row
      /\ \A l \in DOMAIN b.lots : e.lots[l] = b.lots[l]
  BY <1>3 DEF With
<1>6. IsFiniteSet(DOMAIN e.lots) /\ DOMAIN e.lots \subseteq Nat \ {0}
  BY <1>5, FS_AddElement DEF BookRows
<1>7. e.lots \in [DOMAIN e.lots -> LotRow(Nat)]
  <2>1. e.lots = [l \in DOMAIN e.lots |-> e.lots[l]]
    BY <1>3 DEF With
  <2> QED BY <1>4, <1>5, <2>1 DEF BookRows
<1>8. \A x : LotsOfAcct(b, x) \subseteq LotsOfAcct(e, x)
  BY <1>5 DEF LotsOfAcct
<1>9. BookRows(e, Nat)
  <2>1. \A h \in DOMAIN b.holds : Owned(e, b.holds[h].acct, b.holds[h].parts)
    BY <1>8 DEF BookRows, Owned, PocketIn
  <2> QED BY <1>3, <1>6, <1>7, <2>1 DEF BookRows
<1>10. ASSUME NEW x \in Accounts
       PROVE  Wealth(e, x) = Wealth(b, x) + (IF x = a THEN n ELSE 0)
  <2> DEFINE f == Lefts(b, x)
             g == Lefts(e, x)
  <2>1. /\ DOMAIN f = DOMAIN b.lots /\ DOMAIN g = DOMAIN e.lots
        /\ \A y \in DOMAIN g : g[y] \in Int
        /\ \A y \in DOMAIN f : g[y] = f[y]
        /\ g[id] = IF x = a THEN n ELSE 0
    BY <1>4, <1>5, <1>7 DEF Lefts, LotRow
  <2>2. IsFiniteSet(DOMAIN f) /\ id \notin DOMAIN f
    BY <2>1 DEF BookRows
  <2> HIDE DEF f, g
  <2>3. SumFunction(f) \in Int /\ SumFunction(g) = SumFunction(f) + g[id]
    BY <1>5, <2>1, <2>2, SumAdded
  <2>4. LotsOf(b, x) = SumFunction(f) /\ LotsOf(e, x) = SumFunction(g)
    BY DEF LotsOf, f, g, Lefts
  <2>5. HeldOf(e, x) = HeldOf(b, x) /\ e.allowance[x] = b.allowance[x]
    BY <1>3 DEF HeldOf
  <2>6. HeldOf(b, x) \in Int /\ b.allowance[x].left \in Int
    <3>1. BookRows(b, Int)
      BY RowsAreInt
    <3> QED BY <3>1, SumsOfBook
  <2> QED BY <2>1, <2>3, <2>4, <2>5, <2>6 DEF Wealth, InPockets
<1> QED BY <1>3, <1>4, <1>5, <1>9, <1>10 DEF GotLot, e

-----------------------------------------------------------------------------
(* What is written down leads from book to book.                           *)

\* Books that follow from one another by statements are the course of their run.
LEMMA CourseOf ==
  ASSUME NEW b, NEW q, NEW n \in Nat, DOMAIN q = 1..n,
         NEW st, st[0] = b, \A k \in 1..n : st[k] = Execute(st[k - 1], q[k])
  PROVE  Course(st, b, q, n)
<1>1. PICK u : Course(u, b, q, n)
  BY RunSteps
<1>2. /\ u[0] = b /\ u[n] = Run(b, q)
      /\ \A k \in 1..n : u[k] = Execute(u[k - 1], q[k])
  BY <1>1 DEF Course
<1> DEFINE T == {k \in Nat : k <= n => st[k] = u[k]}
<1>3. 0 \in T
  BY <1>2
<1>4. ASSUME NEW k \in Nat, k \in T
      PROVE  k + 1 \in T
  <2> SUFFICES ASSUME k + 1 <= n
               PROVE  st[k + 1] = u[k + 1]
    OBVIOUS
  <2>1. k + 1 \in 1..n /\ (k + 1) - 1 = k /\ k <= n
    OBVIOUS
  <2>2. st[k + 1] = Execute(st[k], q[k + 1]) /\ u[k + 1] = Execute(u[k], q[k + 1])
    BY <1>2, <2>1
  <2> QED BY <1>4, <2>1, <2>2
<1> HIDE DEF T
<1>5. Nat \subseteq T
  BY <1>3, <1>4, InductionOnNumbers
<1>6. st[n] = u[n]
  BY <1>5 DEF T
<1> QED BY <1>2, <1>6 DEF Course

HoldIds == 0..MaxHolds

\* A book whose lots were sold, each for another payment on its record.
Booked(b, s) ==
  /\ BookRows(b, Nat) /\ DOMAIN b.holds \subseteq HoldIds
  /\ DOMAIN b.lots = 1..Cardinality(DOMAIN b.lots)
  /\ \A l \in DOMAIN b.lots : l \in DOMAIN s /\ s[l].ref \in b.payments
  /\ \A l1, l2 \in DOMAIN b.lots : l1 # l2 => s[l1].ref # s[l2].ref

\* In a book between two handlers every lot has what it was sold for, less at most what
\* was spent of it since, and every payment has its lot.
Good(b, s, p) ==
  /\ \A l \in DOMAIN b.lots : Has(b, l) <= s[l].n /\ s[l].n <= Has(b, l) + p[l]
  /\ \A ref \in b.payments : \E l \in DOMAIN b.lots : s[l].ref = ref

Sales(s, p) == DOMAIN p = DOMAIN s /\ \A l \in DOMAIN s : s[l].n \in Nat /\ p[l] \in Nat

\* The history goes on: of these lots none is sold again, and no less was spent.
Later(s, p, s2, p2, L) ==
  \A l \in L : l \in DOMAIN s2 /\ s2[l] = s[l] /\ p2[l] >= p[l]

\* Records lead from b to e through books with lots of L that were sold.
Way(b, q, e, s, L) ==
  /\ IsSeq(q)
  /\ \E st : /\ Course(st, b, q, Len(q)) /\ st[Len(q)] = e
             /\ \A k \in 0..Len(q) : Booked(st[k], s) /\ DOMAIN st[k].lots \subseteq L

\* What is held of a lot is a natural, and nothing is held of a lot that is not there.
LEMMA LotsHeld ==
  ASSUME NEW b, BookRows(b, Nat)
  PROVE  /\ \A l : LotHeld(b, l) \in Nat
         /\ \A l \in DOMAIN b.lots : Has(b, l) \in Nat
         /\ \A l : l # 0 /\ l \notin DOMAIN b.lots => LotHeld(b, l) = 0
<1>1. \A h \in DOMAIN b.holds : b.holds[h] \in HoldRow /\ b.holds[h].parts \in Parts
  BY DEF BookRows, HoldRow
<1>2. ASSUME NEW l
      PROVE  /\ LotHeld(b, l) \in Nat
             /\ l # 0 /\ l \notin DOMAIN b.lots => LotHeld(b, l) = 0
  <2> DEFINE f == [h \in DOMAIN b.holds |-> OfPocket(b.holds[h].parts, l)]
  <2>1. DOMAIN f = DOMAIN b.holds /\ \A h \in DOMAIN f : f[h] \in Nat
    BY <1>1, PartsSum
  <2>2. IsFiniteSet(DOMAIN f)
    BY <2>1 DEF BookRows
  <2>3. LotHeld(b, l) = Sum(f, DOMAIN f)
    BY DEF LotHeld, SumFunction, Sum
  <2>4. ASSUME l # 0, l \notin DOMAIN b.lots, NEW h \in DOMAIN f
        PROVE  f[h] = 0
    <3> DEFINE parts == b.holds[h].parts
    <3>1. parts \in Parts /\ Owned(b, b.holds[h].acct, parts)
      BY <1>1, <2>1, <2>4 DEF BookRows
    <3>2. \A i \in DOMAIN parts : parts[i].pocket # l
      BY <2>4, <3>1 DEF Owned, PocketIn, LotsOfAcct
    <3>3. f[h] = OfPocket(parts, l)
      BY <2>1, <2>4
    <3> HIDE DEF parts, f
    <3>4. OfPocket(parts, l) = Sum(Tokens(parts, l), DOMAIN parts) /\ IsFiniteSet(DOMAIN parts)
      BY <3>1, PartsSum
    <3>5. \A i \in DOMAIN parts : Tokens(parts, l)[i] = 0
      BY <3>2 DEF Tokens
    <3> QED BY <3>3, <3>4, <3>5, SumZero
  <2> HIDE DEF f
  <2>5. Sum(f, DOMAIN f) \in Nat
    BY <2>1, <2>2, SumNat
  <2>6. l # 0 /\ l \notin DOMAIN b.lots => Sum(f, DOMAIN f) = 0
    BY <2>2, <2>4, SumZero
  <2> QED BY <2>3, <2>5, <2>6
<1>3. \A l \in DOMAIN b.lots : b.lots[l].left \in Nat
  BY RowsAreInt
<1> QED BY <1>2, <1>3 DEF Has

\* A book with the lots and payments of one that was sold was sold.
LEMMA BookedAfter ==
  ASSUME NEW b, NEW s, Booked(b, s), NEW e, BookRows(e, Nat), SameLots(b, e),
         DOMAIN e.holds \subseteq HoldIds
  PROVE  Booked(e, s)
BY DEF Booked, SameLots

\* Statements that keep the lots lead through books that were sold.
LEMMA PassesIsWay ==
  ASSUME NEW b, NEW s, Booked(b, s), NEW q, NEW H \in SUBSET HoldIds, NEW st, Passes(st, b, q, H)
  PROVE  Way(b, q, Run(b, q), s, DOMAIN b.lots)
<1>1. /\ IsSeq(q) /\ Course(st, b, q, Len(q)) /\ st[Len(q)] = Run(b, q)
  BY DEF Passes, Course
<1>2. ASSUME NEW k \in 0..Len(q)
      PROVE  Booked(st[k], s) /\ DOMAIN st[k].lots \subseteq DOMAIN b.lots
  <2>1. BookRows(st[k], Nat) /\ SameLots(b, st[k]) /\ DOMAIN st[k].holds \subseteq HoldIds
    BY DEF Passes
  <2> QED BY <2>1, BookedAfter DEF SameLots
<1> QED BY <1>1, <1>2 DEF Way

\* A book that was sold was sold by a later history.
LEMMA BookedLater ==
  ASSUME NEW b, NEW s, NEW p, NEW s2, NEW p2, NEW L, Booked(b, s), DOMAIN b.lots \subseteq L,
         Later(s, p, s2, p2, L)
  PROVE  Booked(b, s2)
BY DEF Booked, Later

\* A way is one by a later history, and among more lots.
LEMMA WayLater ==
  ASSUME NEW b, NEW q, NEW e, NEW s, NEW p, NEW s2, NEW p2, NEW L, NEW M, L \subseteq M,
         Way(b, q, e, s, L), Later(s, p, s2, p2, L)
  PROVE  Way(b, q, e, s2, M)
<1>1. PICK st : /\ Course(st, b, q, Len(q)) /\ st[Len(q)] = e
                /\ \A k \in 0..Len(q) : Booked(st[k], s) /\ DOMAIN st[k].lots \subseteq L
  BY DEF Way
<1>2. \A k \in 0..Len(q) : Booked(st[k], s2) /\ DOMAIN st[k].lots \subseteq M
  BY <1>1, BookedLater
<1> QED BY <1>1, <1>2 DEF Way

\* What holds between two handlers holds by a later history.
LEMMA GoodLater ==
  ASSUME NEW b, NEW s, NEW p, NEW s2, NEW p2, NEW L, Booked(b, s), DOMAIN b.lots \subseteq L,
         Sales(s, p), Sales(s2, p2), Later(s, p, s2, p2, L), Good(b, s, p)
  PROVE  Good(b, s2, p2)
<1>1. ASSUME NEW l \in DOMAIN b.lots
      PROVE  Has(b, l) <= s2[l].n /\ s2[l].n <= Has(b, l) + p2[l]
  <2>1. Has(b, l) \in Nat
    BY LotsHeld DEF Booked
  <2>2. s2[l] = s[l] /\ p2[l] >= p[l] /\ l \in DOMAIN s2 /\ l \in DOMAIN s
    BY DEF Later, Booked
  <2>3. s[l].n \in Nat /\ p[l] \in Nat /\ p2[l] \in Nat
    BY <2>2 DEF Sales
  <2>4. Has(b, l) <= s[l].n /\ s[l].n <= Has(b, l) + p[l]
    BY DEF Good
  <2> QED BY <2>1, <2>2, <2>3, <2>4
<1>2. \A ref \in b.payments : \E l \in DOMAIN b.lots : s2[l].ref = ref
  BY DEF Good, Later
<1> QED BY <1>1, <1>2 DEF Good

\* From b to e by a handler's records: they lead there through books that were sold, and
\* what holds between two handlers of b and the history holds of e and the next history.
GoesOn(b, q, e, s, p, s2, p2) ==
  /\ Way(b, q, e, s2, DOMAIN e.lots) /\ DOMAIN b.lots \subseteq DOMAIN e.lots
  /\ Sales(s2, p2) /\ Later(s, p, s2, p2, DOMAIN b.lots)
  /\ Good(b, s, p) => Good(e, s2, p2)

\* Statements that keep the lots and lose of each what was spent of it go on.
LEMMA LotsGoOn ==
  ASSUME NEW b, NEW s, NEW p, Booked(b, s), Sales(s, p),
         NEW q, NEW H \in SUBSET HoldIds, NEW st, Passes(st, b, q, H),
         NEW e, e = Run(b, q),
         NEW p2, Sales(s, p2), \A l \in DOMAIN b.lots : p2[l] >= p[l],
         \A l \in DOMAIN b.lots : Has(e, l) + p2[l] = Has(b, l) + p[l]
  PROVE  GoesOn(b, q, e, s, p, s, p2)
<1>1. BookRows(e, Nat) /\ SameLots(b, e)
  <2>1. Len(q) \in Nat
    BY DEF Passes, IsSeq
  <2>2. Len(q) \in 0..Len(q)
    BY <2>1
  <2> QED BY <2>2 DEF Passes, Course
<1>2. DOMAIN e.lots = DOMAIN b.lots /\ e.payments = b.payments
  BY <1>1 DEF SameLots
<1>3. Way(b, q, e, s, DOMAIN e.lots)
  BY <1>2, PassesIsWay
<1>4. Later(s, p, s, p2, DOMAIN b.lots)
  BY DEF Later, Booked
<1>5. ASSUME Good(b, s, p)
      PROVE  Good(e, s, p2)
  <2>1. ASSUME NEW l \in DOMAIN e.lots
        PROVE  Has(e, l) <= s[l].n /\ s[l].n <= Has(e, l) + p2[l]
    <3>1. l \in DOMAIN b.lots /\ l \in DOMAIN s
      BY <1>2 DEF Booked
    <3>2. Has(b, l) \in Nat /\ Has(e, l) \in Nat
      BY <1>1, <3>1, LotsHeld DEF Booked
    <3>3. s[l].n \in Nat /\ p[l] \in Nat /\ p2[l] \in Nat
      BY <3>1 DEF Sales
    <3>4. Has(b, l) <= s[l].n /\ s[l].n <= Has(b, l) + p[l]
      BY <1>5, <3>1 DEF Good
    <3>5. Has(e, l) + p2[l] = Has(b, l) + p[l] /\ p2[l] >= p[l]
      BY <3>1
    <3> QED BY <3>2, <3>3, <3>4, <3>5
  <2>2. \A ref \in e.payments : \E l \in DOMAIN e.lots : s[l].ref = ref
    BY <1>2, <1>5 DEF Good
  <2> QED BY <2>1, <2>2 DEF Good
<1> QED BY <1>2, <1>3, <1>4, <1>5 DEF GoesOn

\* One statement that keeps lots and holds.
LEMMA OnePasses ==
  ASSUME NEW b, NEW c, BookRows(b, Nat), BookRows(Execute(b, c), Nat),
         SameLots(b, Execute(b, c)), Execute(b, c).holds = b.holds
  PROVE  \E st : Passes(st, b, <<c>>, DOMAIN b.holds)
<1> DEFINE st == [k \in 0..1 |-> IF k = 0 THEN b ELSE Execute(b, c)]
           q == <<c>>
<1>1. DOMAIN q = 1..1 /\ 1 \in Nat /\ Len(q) = 1 /\ IsSeq(q)
  <2>1. q \in Seq({c})
    OBVIOUS
  <2>2. IsSeq(q)
    BY <2>1 DEF IsSeq
  <2>3. DOMAIN q = 1..1 /\ Len(q) = 1
    OBVIOUS
  <2> QED BY <2>2, <2>3
<1>2. st[0] = b /\ st[1] = Execute(b, c) /\ q[1] = c
  OBVIOUS
<1> HIDE DEF st, q
<1>3. \A k \in 1..1 : st[k] = Execute(st[k - 1], q[k])
  BY <1>2
<1>4. Course(st, b, q, 1)
  BY <1>1, <1>2, <1>3, CourseOf
<1>5. SameLots(b, b)
  BY DEF SameLots, SameLot
<1>6. \A k \in 0..1 : k = 0 \/ k = 1
  OBVIOUS
<1>7. \A k \in 0..1 : /\ BookRows(st[k], Nat) /\ SameLots(b, st[k])
                      /\ DOMAIN st[k].holds \subseteq DOMAIN b.holds
  BY <1>2, <1>5, <1>6
<1>8. Passes(st, b, q, DOMAIN b.holds)
  BY <1>1, <1>4, <1>7 DEF Passes
<1> QED BY <1>8 DEF q

\* A change of an allowance, or a payment that is on record already, goes on.
LEMMA OneGoesOn ==
  ASSUME NEW b, NEW s, NEW p, Booked(b, s), Sales(s, p), NEW c,
         NEW e, e = Execute(b, c), BookRows(e, Nat),
         e.lots = b.lots, e.holds = b.holds, e.payments = b.payments
  PROVE  GoesOn(b, <<c>>, e, s, p, s, p)
<1>1. SameLots(b, e)
  BY DEF SameLots, SameLot
<1>2. PICK st : Passes(st, b, <<c>>, DOMAIN b.holds)
  BY <1>1, OnePasses DEF Booked
<1>3. e = Run(b, <<c>>)
  BY RunOfOne
<1>4. \A l \in DOMAIN b.lots : Has(e, l) + p[l] = Has(b, l) + p[l]
  BY DEF Has, LotHeld
<1>5. \A l \in DOMAIN b.lots : p[l] >= p[l]
  BY DEF Sales, Booked
<1>6. DOMAIN b.holds \in SUBSET HoldIds
  BY DEF Booked
<1> QED BY <1>2, <1>3, <1>4, <1>5, <1>6, LotsGoOn

\* So does a payment that comes with its lot.
LEMMA LotGoesOn ==
  ASSUME NEW b, NEW s, NEW p, Booked(b, s), Sales(s, p),
         NEW ref \in Refs, ref \notin b.payments,
         NEW a \in Accounts, NEW n \in Nat, NEW expires \in Nat,
         NEW id, id = Cardinality(DOMAIN b.lots) + 1,
         NEW q, q = <<Pay(ref), NewLot(id, a, n, expires)>>, NEW e, e = Run(b, q),
         NEW s2, s2 = With(s, id, [n |-> n, ref |-> ref]), NEW p2, p2 = With(p, id, 0)
  PROVE  GoesOn(b, q, e, s, p, s2, p2)
<1> DEFINE paid == Execute(b, Pay(ref))
<1>0. BookRows(b, Nat)
  BY DEF Booked
<1>1. id \in Nat \ {0} /\ id \notin DOMAIN b.lots /\ (DOMAIN b.lots) \cup {id} = 1..id
  <2>1. Cardinality(DOMAIN b.lots) \in Nat
    BY <1>0, FS_CardinalityType DEF BookRows
  <2>2. DOMAIN b.lots = 1..Cardinality(DOMAIN b.lots)
    BY DEF Booked
  <2> HIDE DEF paid
  <2> QED BY <2>1, <2>2
<1>2. Paid(b, paid, ref)
  BY <1>0, PayGroup
<1>3. e = Execute(paid, NewLot(id, a, n, expires))
  BY RunOfTwo
<1> HIDE DEF paid
<1>4. GotLot(paid, e, id, a, n)
  <2>1. BookRows(paid, Nat) /\ id \notin DOMAIN paid.lots
    BY <1>1, <1>2 DEF Paid
  <2> QED BY <1>1, <1>3, <2>1, LotGroup
<1>5. /\ BookRows(paid, Nat) /\ paid.lots = b.lots /\ paid.holds = b.holds
      /\ paid.payments = b.payments \cup {ref}
      /\ BookRows(e, Nat) /\ e.holds = b.holds /\ e.payments = paid.payments
      /\ DOMAIN e.lots = DOMAIN b.lots \cup {id} /\ e.lots[id].left = n
      /\ \A l \in DOMAIN b.lots : e.lots[l] = b.lots[l]
  BY <1>2, <1>4 DEF Paid, GotLot
<1>6. /\ DOMAIN s2 = DOMAIN s \cup {id} /\ DOMAIN p2 = DOMAIN s \cup {id}
      /\ s2[id].n = n /\ s2[id].ref = ref /\ p2[id] = 0
      /\ \A l \in DOMAIN s : l # id => s2[l] = s[l] /\ p2[l] = p[l]
  BY DEF With, Sales
<1>7. \A l \in DOMAIN b.lots : l # id /\ l \in DOMAIN s /\ s2[l] = s[l] /\ p2[l] = p[l]
  BY <1>1, <1>6 DEF Booked
<1>8. Sales(s2, p2)
  BY <1>6 DEF Sales
<1>9. Later(s, p, s2, p2, DOMAIN b.lots)
  <2>1. \A l \in DOMAIN b.lots : p[l] \in Nat
    BY <1>7 DEF Sales
  <2> QED BY <1>6, <1>7, <2>1 DEF Later
<1>10. Booked(b, s2)
  BY <1>9, BookedLater
<1>11. Booked(paid, s2)
  BY <1>5, <1>10 DEF Booked
<1>12. Booked(e, s2)
  <2>1. DOMAIN e.lots = 1..Cardinality(DOMAIN e.lots)
    <3>1. Cardinality(1..id) = id
      BY <1>1, FS_Interval
    <3> QED BY <1>1, <1>5, <3>1
  <2>2. \A l \in DOMAIN e.lots : l \in DOMAIN s2 /\ s2[l].ref \in e.payments
    BY <1>5, <1>6, <1>7 DEF Booked
  <2>3. \A l \in DOMAIN b.lots : s2[l].ref # ref
    BY <1>7 DEF Booked
  <2>4. \A l1, l2 \in DOMAIN e.lots : l1 # l2 => s2[l1].ref # s2[l2].ref
    BY <1>5, <1>6, <1>10, <2>3 DEF Booked
  <2>5. DOMAIN e.holds \subseteq HoldIds
    BY <1>5 DEF Booked
  <2> QED BY <1>5, <2>1, <2>2, <2>4, <2>5 DEF Booked
<1>13. Way(b, q, e, s2, DOMAIN e.lots)
  <2> DEFINE st == [k \in 0..2 |-> IF k = 0 THEN b ELSE IF k = 1 THEN paid ELSE e]
             c1 == Pay(ref)
             c2 == NewLot(id, a, n, expires)
  <2>1. DOMAIN q = 1..2 /\ 2 \in Nat /\ Len(q) = 2 /\ IsSeq(q) /\ q[1] = c1 /\ q[2] = c2
    <3> HIDE DEF c1, c2
    <3>1. q = <<c1, c2>>
      BY DEF c1, c2
    <3>2. q \in Seq({c1, c2})
      BY <3>1
    <3>3. IsSeq(q)
      BY <3>2 DEF IsSeq
    <3>4. DOMAIN q = 1..2 /\ Len(q) = 2 /\ q[1] = c1 /\ q[2] = c2
      BY <3>1
    <3> QED BY <3>3, <3>4
  <2>2. st[0] = b /\ st[1] = paid /\ st[2] = e
    OBVIOUS
  <2>3. paid = Execute(b, c1) /\ e = Execute(paid, c2)
    BY <1>3 DEF paid
  <2> HIDE DEF st, c1, c2
  <2>4. \A k \in 1..2 : k = 1 \/ k = 2
    OBVIOUS
  <2>5. \A k \in 1..2 : st[k] = Execute(st[k - 1], q[k])
    BY <2>1, <2>2, <2>3, <2>4
  <2>6. Course(st, b, q, 2)
    BY <2>1, <2>2, <2>5, CourseOf
  <2>7. \A k \in 0..2 : k = 0 \/ k = 1 \/ k = 2
    OBVIOUS
  <2>8. DOMAIN b.lots \subseteq DOMAIN e.lots /\ DOMAIN paid.lots \subseteq DOMAIN e.lots
    BY <1>5
  <2>9. \A k \in 0..2 : Booked(st[k], s2) /\ DOMAIN st[k].lots \subseteq DOMAIN e.lots
    BY <1>10, <1>11, <1>12, <2>2, <2>7, <2>8
  <2> QED BY <2>1, <2>2, <2>6, <2>9 DEF Way
<1>14. ASSUME Good(b, s, p)
       PROVE  Good(e, s2, p2)
  <2>1. \A l : LotHeld(e, l) = LotHeld(b, l)
    BY <1>5 DEF LotHeld
  <2>2. ASSUME NEW l \in DOMAIN b.lots
        PROVE  Has(e, l) <= s2[l].n /\ s2[l].n <= Has(e, l) + p2[l]
    <3>1. Has(e, l) = Has(b, l)
      BY <1>5, <2>1 DEF Has
    <3> QED BY <1>7, <1>14, <3>1 DEF Good
  <2>3. Has(e, id) <= s2[id].n /\ s2[id].n <= Has(e, id) + p2[id]
    <3>1. LotHeld(b, id) = 0
      BY <1>0, <1>1, LotsHeld
    <3> QED BY <1>5, <1>6, <2>1, <3>1 DEF Has
  <2>4. \A r \in e.payments : \E l \in DOMAIN e.lots : s2[l].ref = r
    BY <1>5, <1>6, <1>7, <1>14 DEF Good
  <2> QED BY <1>5, <2>2, <2>3, <2>4 DEF Good
<1> QED BY <1>5, <1>8, <1>9, <1>13, <1>14 DEF GoesOn

-----------------------------------------------------------------------------
(* The book in memory while nothing stops the enclave.                     *)

\* A book, the holds of the open requests and the last hold id given out belong together.
Fit(b, o, last) ==
  /\ BookRows(b, Nat)
  /\ DOMAIN b.lots = 1..Cardinality(DOMAIN b.lots)
  /\ o = DOMAIN b.holds
  /\ last \in HoldIds
  /\ \A h \in DOMAIN b.holds : h \in Nat /\ h <= last

Balanced(b, d) ==
  /\ d \in [Accounts -> Int]
  /\ \A x \in Accounts : Wealth(b, x) = d[x]

\* A handler has its records executed and goes on with the book and the history.
Handled(q) ==
  /\ Fit(bk', open', lastHold')
  /\ Balanced(bk, due) => Balanced(bk', due')
  /\ GoesOn(bk, q, bk', sold, spent, sold', spent')
Sound == Fit(bk, open, lastHold) /\ Booked(bk, sold) /\ Sales(sold, spent) /\ now \in Nat

\* A hold goes on: its parts fit in the pockets it draws on.
LEMMA HoldHandled ==
  ASSUME Sound, NEW a \in Accounts, NEW n \in Amounts, Hold(a, n)
  PROVE  \E q : WriteDown(q) /\ Handled(q)
<1> DEFINE parts == Drawn(a, n).parts
           id == lastHold + 1
           q == Append(Takes(a, parts), NewHold(id, a, parts))
<1>0. Fit(bk, open, lastHold) /\ Booked(bk, sold) /\ Sales(sold, spent) /\ now \in Nat
  BY DEF Sound
<1>1. n \in Nat
  BY LedgerAssumption
<1>2. /\ Pockets(a) \in Parts
      /\ PocketIn(Pockets(a), Usable(a) \cup {0})
      /\ OfPocket(Pockets(a), 0) <= bk.allowance[a].left
      /\ \A l \in DOMAIN bk.lots : OfPocket(Pockets(a), l) <= bk.lots[l].left
  <2>1. bk.allowance[a].left \in Nat /\ bk.allowance[a].ends \in Nat
    BY <1>0 DEF Fit, BookRows, AllowanceRow
  <2>2. \A l \in DOMAIN bk.lots : /\ l \in Nat \ {0}
                                  /\ bk.lots[l].left \in Nat /\ bk.lots[l].expires \in Nat
    BY <1>0 DEF Fit, BookRows, LotRow
  <2>3. IsFiniteSet(DOMAIN bk.lots)
    BY <1>0 DEF Fit, BookRows
  <2> QED BY <1>0, <2>1, <2>2, <2>3, PocketsAre
<1>3. Took(Taken(Pockets(a), n), Pockets(a), n, Usable(a) \cup {0})
  BY <1>1, <1>2, TakenIs
<1>4. /\ parts \in Parts /\ PocketIn(parts, Usable(a) \cup {0})
      /\ \A p : OfPocket(parts, p) <= OfPocket(Pockets(a), p)
  BY <1>3 DEF Took, Acc, Drawn
<1>5. Owned(bk, a, parts)
  BY <1>4 DEF Owned, PocketIn, Usable, LotsOfAcct
<1>6. OfPocket(parts, 0) <= bk.allowance[a].left
  <2>1. OfPocket(parts, 0) \in Nat /\ OfPocket(Pockets(a), 0) \in Nat
    BY <1>2, <1>4, PartsSum
  <2>2. bk.allowance[a].left \in Nat
    BY <1>0 DEF Fit, BookRows, AllowanceRow
  <2> QED BY <1>2, <1>4, <2>1, <2>2
<1>7. ASSUME NEW l \in DOMAIN bk.lots
      PROVE  OfPocket(parts, l) <= bk.lots[l].left
  <2>1. OfPocket(parts, l) \in Nat /\ OfPocket(Pockets(a), l) \in Nat
    BY <1>2, <1>4, PartsSum
  <2>2. bk.lots[l].left \in Nat
    BY <1>0 DEF Fit, BookRows, LotRow
  <2>3. OfPocket(parts, l) <= OfPocket(Pockets(a), l) /\ OfPocket(Pockets(a), l) <= bk.lots[l].left
    BY <1>2, <1>4
  <2> QED BY <2>1, <2>2, <2>3
<1>8. /\ lastHold' = id /\ open' = open \cup {id} /\ due' = due
      /\ sold' = sold /\ spent' = spent /\ WriteDown(q)
  BY DEF Hold, history
<1>w. bk' = Run(bk, q)
  BY <1>8 DEF WriteDown
<1>9. id \in HoldIds /\ id \in Nat /\ id \notin DOMAIN bk.holds /\ lastHold \in Nat
  <2>1. lastHold \in HoldIds /\ lastHold < MaxHolds /\ MaxHolds \in Nat
    BY <1>0, LedgerAssumption DEF Fit, Hold
  <2>2. id \in HoldIds /\ lastHold \in Nat /\ id \in Nat
    BY <2>1 DEF HoldIds
  <2>3. id \notin DOMAIN bk.holds
    BY <1>0, <2>2 DEF Fit
  <2> QED BY <2>2, <2>3
<1>q. q = Append(Takes(a, parts), NewHold(id, a, parts))
  OBVIOUS
<1> HIDE DEF parts, id, q
<1>10. BookRows(bk, Nat)
  BY <1>0 DEF Fit
<1>g. HoldMade(bk, bk', q, id)
  BY <1>4, <1>5, <1>6, <1>7, <1>9, <1>10, <1>w, <1>q, HoldGroup
<1> DEFINE H == DOMAIN bk.holds \cup {id}
<1>11. /\ BookRows(bk', Nat) /\ SameLots(bk, bk')
       /\ DOMAIN bk'.holds = H
       /\ \A x \in Accounts : Wealth(bk', x) = Wealth(bk, x)
       /\ \A l \in DOMAIN bk.lots : Has(bk', l) = Has(bk, l)
       /\ \E st : Passes(st, bk, q, H)
  BY <1>g DEF HoldMade
<1>12. Fit(bk', open', lastHold')
  <2>1. DOMAIN bk'.lots = DOMAIN bk.lots
    BY <1>11 DEF SameLots
  <2>2. \A h \in DOMAIN bk'.holds : h \in Nat /\ h <= lastHold'
    BY <1>0, <1>8, <1>9, <1>11 DEF Fit, id
  <2> QED BY <1>0, <1>8, <1>9, <1>11, <2>1, <2>2 DEF Fit
<1>13. Balanced(bk, due) => Balanced(bk', due')
  BY <1>8, <1>11 DEF Balanced
<1>14. GoesOn(bk, q, bk', sold, spent, sold', spent')
  <2>1. PICK st : Passes(st, bk, q, H)
    BY <1>11
  <2>2. H \in SUBSET HoldIds
    BY <1>0, <1>9 DEF Booked
  <2>3. /\ \A l \in DOMAIN bk.lots : spent[l] >= spent[l]
        /\ \A l \in DOMAIN bk.lots : Has(bk', l) + spent[l] = Has(bk, l) + spent[l]
    BY <1>0, <1>11 DEF Sales, Booked
  <2> HIDE DEF H
  <2> QED BY <1>0, <1>8, <1>w, <2>1, <2>2, <2>3, LotsGoOn
<1>15. Handled(q)
  BY <1>12, <1>13, <1>14 DEF Handled
<1> QED BY <1>8, <1>15

\* A settle goes on: what does not go back is what the answer cost.
LEMMA SettleHandled ==
  ASSUME Sound, NEW h \in open, NEW cost \in 0..(Amount(bk.holds[h].parts) + 1), Settle(h, cost)
  PROVE  \E q : WriteDown(q) /\ Handled(q)
<1> DEFINE a == bk.holds[h].acct
           parts == bk.holds[h].parts
           kept == Lesser(cost, Amount(parts))
           refund == Amount(parts) - kept
           backs == GivenBack(parts, refund)
           P == LotsOfAcct(bk, a) \cup {0}
           q == Append(Gives(a, backs), DeleteHold(h))
           keptOf(l) == OfPocket(parts, l) - OfPocket(backs, l)
<1>0. Fit(bk, open, lastHold) /\ Booked(bk, sold) /\ Sales(sold, spent) /\ now \in Nat
  BY DEF Sound
<1>1. h \in DOMAIN bk.holds /\ BookRows(bk, Nat)
  BY <1>0 DEF Fit
<1>2. a \in Accounts /\ parts \in Parts /\ PocketIn(parts, P)
  BY <1>1 DEF BookRows, HoldRow, Owned
<1>3. Amount(parts) \in Nat
  BY <1>2, PartsSum
<1>4. kept \in Nat /\ refund \in Nat /\ refund <= Amount(parts)
  BY <1>3 DEF Lesser
<1>5. /\ lastHold' = lastHold /\ open' = open \ {h} /\ sold' = sold
      /\ due' = [due EXCEPT ![a] = @ - kept]
      /\ spent' = [l \in DOMAIN spent |-> spent[l] + keptOf(l)]
      /\ WriteDown(q)
  BY DEF Settle
<1>w. bk' = Run(bk, q)
  BY <1>5 DEF WriteDown
<1>q. q = Append(Gives(a, backs), DeleteHold(h))
  OBVIOUS
<1>6. backs = Taken(Reverse(parts), refund).parts /\ refund = Amount(parts) - kept
  BY DEF GivenBack
<1>7. P = LotsOfAcct(bk, a) \cup {0}
  OBVIOUS
<1>8. a = bk.holds[h].acct /\ parts = bk.holds[h].parts
  OBVIOUS
<1> HIDE DEF parts, a, kept, refund, backs, P, q
<1>9. /\ Reverse(parts) \in Parts /\ Amount(Reverse(parts)) = Amount(parts)
      /\ \A i \in DOMAIN Reverse(parts) : \E j \in DOMAIN parts : Reverse(parts)[i] = parts[j]
  BY <1>2, PartsReversed
<1>10. PocketIn(Reverse(parts), P)
  BY <1>2, <1>9 DEF PocketIn
<1>11. Took(Taken(Reverse(parts), refund), Reverse(parts), refund, P)
  BY <1>4, <1>9, <1>10, TakenIs
<1>12. backs \in Parts /\ PocketIn(backs, P) /\ Amount(backs) = refund
  <2> DEFINE r == Taken(Reverse(parts), refund)
  <2>1. r \in Acc /\ r.need + Amount(r.parts) = refund /\ PocketIn(r.parts, P)
    BY <1>11 DEF Took
  <2>2. r.need = 0
    BY <1>3, <1>4, <1>9, <1>11 DEF Took
  <2>3. r.parts \in Parts
    BY <2>1 DEF Acc
  <2>4. Amount(r.parts) \in Nat
    BY <2>3, PartsSum
  <2> QED BY <1>6, <2>1, <2>2, <2>3, <2>4
<1>13. Owned(bk, a, backs)
  BY <1>7, <1>12 DEF Owned
<1>s. HoldSettled(bk, bk', q, h, a, parts, backs)
  BY <1>1, <1>8, <1>12, <1>13, <1>w, <1>q, SettleGroup
<1>14. /\ BookRows(bk', Nat) /\ SameLots(bk, bk')
       /\ DOMAIN bk'.holds = DOMAIN bk.holds \ {h}
       /\ \A x \in Accounts : Wealth(bk', x) =
            Wealth(bk, x) - (IF x = a THEN Amount(parts) - Amount(backs) ELSE 0)
       /\ \A l \in DOMAIN bk.lots : Has(bk', l) = Has(bk, l) - (OfPocket(parts, l) - OfPocket(backs, l))
       /\ \E st : Passes(st, bk, q, DOMAIN bk.holds)
  BY <1>s DEF HoldSettled
<1>15. Amount(parts) - Amount(backs) = kept
  BY <1>3, <1>4, <1>6, <1>12
<1>16. Fit(bk', open', lastHold')
  BY <1>0, <1>5, <1>14 DEF Fit, SameLots
<1>17. ASSUME Balanced(bk, due)
       PROVE  Balanced(bk', due')
  <2>1. due' \in [Accounts -> Int]
    BY <1>2, <1>4, <1>5, <1>17 DEF Balanced
  <2>2. \A x \in Accounts : due'[x] = due[x] - (IF x = a THEN kept ELSE 0)
    BY <1>5, <1>17 DEF Balanced
  <2> QED BY <1>14, <1>15, <1>17, <2>1, <2>2 DEF Balanced
<1>18. \A l : keptOf(l) \in Nat
  <2> SUFFICES ASSUME NEW l
               PROVE  OfPocket(parts, l) - OfPocket(backs, l) \in Nat
    OBVIOUS
  <2>1. OfPocket(backs, l) <= OfPocket(Reverse(parts), l)
    BY <1>6, <1>11 DEF Took
  <2>2. OfPocket(Reverse(parts), l) = OfPocket(parts, l)
    BY <1>2, PartsReversed
  <2>3. OfPocket(backs, l) \in Nat /\ OfPocket(parts, l) \in Nat
    BY <1>2, <1>12, PartsSum
  <2> QED BY <2>1, <2>2, <2>3
<1>k. \A l : keptOf(l) = OfPocket(parts, l) - OfPocket(backs, l)
  OBVIOUS
<1>19. GoesOn(bk, q, bk', sold, spent, sold', spent')
  <2>1. PICK st : Passes(st, bk, q, DOMAIN bk.holds)
    BY <1>14
  <2>2. DOMAIN bk.holds \in SUBSET HoldIds
    BY <1>0 DEF Booked
  <2>3. /\ DOMAIN spent' = DOMAIN spent
        /\ \A l \in DOMAIN spent : spent'[l] = spent[l] + keptOf(l)
    BY <1>5
  <2> HIDE DEF keptOf
  <2>4. \A l \in DOMAIN spent : spent[l] \in Nat /\ spent'[l] \in Nat /\ spent'[l] >= spent[l]
    BY <1>0, <1>18, <2>3 DEF Sales
  <2>5. Sales(sold, spent')
    BY <1>0, <2>3, <2>4 DEF Sales
  <2>6. \A l \in DOMAIN bk.lots : l \in DOMAIN spent
    BY <1>0 DEF Sales, Booked
  <2>7. ASSUME NEW l \in DOMAIN bk.lots
        PROVE  spent'[l] >= spent[l] /\ Has(bk', l) + spent'[l] = Has(bk, l) + spent[l]
    <3>1. Has(bk, l) \in Nat
      BY <1>1, LotsHeld
    <3>2. Has(bk', l) = Has(bk, l) - keptOf(l)
      BY <1>14, <1>k
    <3> QED BY <1>18, <2>3, <2>4, <2>6, <3>1, <3>2
  <2> QED BY <1>0, <1>5, <1>w, <2>1, <2>2, <2>5, <2>7, LotsGoOn
<1>20. Handled(q)
  BY <1>16, <1>17, <1>19 DEF Handled
<1> QED BY <1>5, <1>20

\* The plan logic changes what is left in an allowance and what is due by the same.
LEMMA PlanHandled ==
  ASSUME Sound, NEW a \in Accounts, NEW c, NEW n \in Int,
         Changed(bk, Run(bk, <<c>>), a, n), WriteDown(<<c>>),
         open' = open, lastHold' = lastHold, sold' = sold, spent' = spent,
         NEW m, due' = [due EXCEPT ![a] = m], Balanced(bk, due) => m = due[a] + n
  PROVE  Handled(<<c>>)
<1>0. Fit(bk, open, lastHold) /\ Booked(bk, sold) /\ Sales(sold, spent)
  BY DEF Sound
<1>1. bk' = Run(bk, <<c>>)
  BY DEF WriteDown
<1>2. Changed(bk, bk', a, n)
  BY <1>1
<1>3. Fit(bk', open', lastHold')
  BY <1>0, <1>2 DEF Fit, Changed
<1>4. ASSUME Balanced(bk, due)
      PROVE  Balanced(bk', due')
  <2>1. due' \in [Accounts -> Int] /\ \A x \in Accounts : due'[x] = due[x] + (IF x = a THEN n ELSE 0)
    BY <1>4 DEF Balanced
  <2> QED BY <1>2, <1>4, <2>1 DEF Balanced, Changed
<1>5. GoesOn(bk, <<c>>, bk', sold, spent, sold', spent')
  <2>1. bk' = Execute(bk, c)
    BY <1>1, RunOfOne
  <2>2. BookRows(bk', Nat) /\ bk'.lots = bk.lots /\ bk'.holds = bk.holds /\ bk'.payments = bk.payments
    BY <1>2 DEF Changed
  <2> QED BY <1>0, <2>1, <2>2, OneGoesOn
<1> QED BY <1>3, <1>4, <1>5 DEF Handled

\* A purchase goes on, with its lot the first time and without one after that.
LEMMA PurchaseHandled ==
  ASSUME Sound, NEW a \in Accounts, NEW ref \in Refs, NEW n \in Amounts, Purchase(a, ref, n)
  PROVE  \E q : WriteDown(q) /\ Handled(q)
<1> DEFINE m == Cardinality(DOMAIN bk.lots)
           id == m + 1
           expires == now + LotLife
           q == Credited(a, ref, NewLot(id, a, n, expires))
           paid == Execute(bk, Pay(ref))
<1>0. Fit(bk, open, lastHold) /\ Booked(bk, sold) /\ Sales(sold, spent) /\ now \in Nat
  BY DEF Sound
<1>1. n \in Nat /\ expires \in Nat
  BY <1>0, LedgerAssumption
<1>2. BookRows(bk, Nat) /\ DOMAIN bk.lots = 1..m /\ m \in Nat
  BY <1>0, FS_CardinalityType DEF Fit, BookRows
<1>3. id \in Nat \ {0} /\ id \notin DOMAIN bk.lots
  BY <1>2
<1>4. /\ open' = open /\ lastHold' = lastHold
      /\ due' = [due EXCEPT ![a] = IF ref \notin bk.payments THEN @ + n ELSE @]
      /\ sold' = IF id \in DOMAIN bk'.lots THEN With(sold, id, [n |-> n, ref |-> ref]) ELSE sold
      /\ spent' = IF id \in DOMAIN bk'.lots THEN With(spent, id, 0) ELSE spent
      /\ WriteDown(q)
  BY DEF Purchase
<1>w. bk' = Run(bk, q)
  BY <1>4 DEF WriteDown
<1>5. Paid(bk, paid, ref)
  BY <1>2, PayGroup
<1>i. id = Cardinality(DOMAIN bk.lots) + 1
  OBVIOUS
<1>q. q = IF ref \in bk.payments THEN <<Pay(ref)>> ELSE <<Pay(ref), NewLot(id, a, n, expires)>>
  BY DEF Credited
<1> HIDE DEF m, expires, paid, q
<1>6. CASE ref \in bk.payments
  <2>1. q = <<Pay(ref)>>
    BY <1>6, <1>q
  <2>2. bk' = paid
    BY <1>w, <2>1, RunOfOne DEF paid
  <2>3. id \notin DOMAIN bk'.lots
    BY <1>3, <1>5, <2>2 DEF Paid
  <2>4. sold' = sold /\ spent' = spent
    BY <1>4, <2>3
  <2>5. Fit(bk', open', lastHold')
    BY <1>0, <1>4, <1>5, <2>2 DEF Fit, Paid
  <2>6. Balanced(bk, due) => Balanced(bk', due')
    BY <1>4, <1>5, <1>6, <2>2 DEF Balanced, Paid
  <2>7. GoesOn(bk, q, bk', sold, spent, sold', spent')
    <3>1. bk' = Execute(bk, Pay(ref))
      BY <2>2 DEF paid
    <3>2. BookRows(bk', Nat) /\ bk'.lots = bk.lots /\ bk'.holds = bk.holds /\ bk'.payments = bk.payments
      BY <1>5, <1>6, <2>2 DEF Paid
    <3> QED BY <1>0, <2>1, <2>4, <3>1, <3>2, OneGoesOn
  <2>8. Handled(q)
    BY <2>5, <2>6, <2>7 DEF Handled
  <2> QED BY <1>4, <2>8
<1>7. CASE ref \notin bk.payments
  <2>1. q = <<Pay(ref), NewLot(id, a, n, expires)>>
    BY <1>7, <1>q
  <2>2. bk' = Execute(paid, NewLot(id, a, n, expires))
    BY <1>w, <2>1, RunOfTwo DEF paid
  <2>3. GotLot(paid, bk', id, a, n)
    <3>1. BookRows(paid, Nat) /\ id \notin DOMAIN paid.lots
      BY <1>3, <1>5 DEF Paid
    <3> QED BY <1>1, <1>3, <2>2, <3>1, LotGroup
  <2>4. DOMAIN bk'.lots = 1..Cardinality(DOMAIN bk'.lots)
    <3>1. DOMAIN bk'.lots = 1..id
      BY <1>2, <1>5, <2>3 DEF GotLot, Paid
    <3>2. Cardinality(1..id) = id
      BY <1>3, FS_Interval
    <3> QED BY <3>1, <3>2
  <2>5. Fit(bk', open', lastHold')
    BY <1>0, <1>4, <1>5, <2>3, <2>4 DEF Fit, GotLot, Paid
  <2>6. ASSUME Balanced(bk, due)
        PROVE  Balanced(bk', due')
    <3>1. due' = [due EXCEPT ![a] = @ + n]
      BY <1>4, <1>7
    <3>2. due' \in [Accounts -> Int] /\ \A x \in Accounts : due'[x] = due[x] + (IF x = a THEN n ELSE 0)
      BY <1>1, <2>6, <3>1 DEF Balanced
    <3> QED BY <1>5, <2>3, <2>6, <3>2 DEF Balanced, GotLot, Paid
  <2>7. sold' = With(sold, id, [n |-> n, ref |-> ref]) /\ spent' = With(spent, id, 0)
    BY <1>4, <2>3 DEF GotLot
  <2>8. GoesOn(bk, q, bk', sold, spent, sold', spent')
    BY <1>0, <1>1, <1>7, <1>i, <1>w, <2>1, <2>7, LotGoesOn
  <2>9. Handled(q)
    BY <2>5, <2>6, <2>8 DEF Handled
  <2> QED BY <1>4, <2>9
<1> QED BY <1>6, <1>7

\* A grant goes on.
LEMMA GrantHandled ==
  ASSUME Sound, NEW a \in Accounts, NEW n \in Amounts, GrantAllowance(a, n)
  PROVE  \E q : WriteDown(q) /\ Handled(q)
<1> DEFINE c == Set(a, now + PeriodLen, n)
           k == n - bk.allowance[a].left
           m == due[a] - bk.allowance[a].left + n
<1>1. /\ open' = open /\ lastHold' = lastHold /\ sold' = sold /\ spent' = spent
      /\ WriteDown(<<c>>) /\ due' = [due EXCEPT ![a] = m]
  BY DEF GrantAllowance, PlanWrites
<1>2. n \in Nat /\ now + PeriodLen \in Nat
  BY LedgerAssumption DEF Sound
<1>3. bk.allowance[a].left \in Nat /\ BookRows(bk, Nat)
  BY DEF Sound, Fit, BookRows, AllowanceRow
<1>4. Changed(bk, Run(bk, <<c>>), a, k)
  BY <1>2, <1>3, SetGroup
<1>5. k \in Int
  BY <1>2, <1>3
<1>6. Balanced(bk, due) => m = due[a] + k
  <2> SUFFICES ASSUME Balanced(bk, due)
               PROVE  m = due[a] + k
    OBVIOUS
  <2>1. due[a] \in Int
    BY DEF Balanced
  <2> QED BY <1>2, <1>3, <2>1
<1> HIDE DEF c, k, m
<1>7. Handled(<<c>>)
  BY <1>1, <1>4, <1>5, <1>6, PlanHandled
<1> QED BY <1>1, <1>7

\* An upgrade goes on.
LEMMA AddHandled ==
  ASSUME Sound, NEW a \in Accounts, NEW n \in Amounts, AddAllowance(a, n)
  PROVE  \E q : WriteDown(q) /\ Handled(q)
<1> DEFINE c == Add(a, n)
           k == IF HasRow(bk, a) THEN n ELSE 0
           m == IF HasRow(bk, a) THEN due[a] + n ELSE due[a]
<1>1. /\ open' = open /\ lastHold' = lastHold /\ sold' = sold /\ spent' = spent
      /\ WriteDown(<<c>>) /\ due' = [due EXCEPT ![a] = m]
  BY DEF AddAllowance, PlanWrites
<1>2. n \in Nat /\ BookRows(bk, Nat)
  BY LedgerAssumption DEF Sound, Fit
<1>3. Changed(bk, Run(bk, <<c>>), a, k)
  BY <1>2, AddGroup
<1>4. k \in Int
  BY <1>2
<1>5. Balanced(bk, due) => m = due[a] + k
  BY <1>2 DEF Balanced
<1> HIDE DEF c, k, m
<1>6. Handled(<<c>>)
  BY <1>1, <1>3, <1>4, <1>5, PlanHandled
<1> QED BY <1>1, <1>6

\* A lapse goes on.
LEMMA LapseHandled ==
  ASSUME Sound, NEW a \in Accounts, LapseAllowance(a)
  PROVE  \E q : WriteDown(q) /\ Handled(q)
<1> DEFINE c == Lapse(a)
           k == 0 - bk.allowance[a].left
           m == due[a] - bk.allowance[a].left
<1>1. /\ open' = open /\ lastHold' = lastHold /\ sold' = sold /\ spent' = spent
      /\ WriteDown(<<c>>) /\ due' = [due EXCEPT ![a] = m]
  BY DEF LapseAllowance, PlanWrites
<1>2. bk.allowance[a].left \in Nat /\ BookRows(bk, Nat)
  BY DEF Sound, Fit, BookRows, AllowanceRow
<1>3. Changed(bk, Run(bk, <<c>>), a, k)
  BY <1>2, LapseGroup
<1>4. k \in Int
  BY <1>2
<1>5. Balanced(bk, due) => m = due[a] + k
  <2> SUFFICES ASSUME Balanced(bk, due)
               PROVE  m = due[a] + k
    OBVIOUS
  <2>1. due[a] \in Int
    BY DEF Balanced
  <2> QED BY <1>2, <2>1
<1> HIDE DEF c, k, m
<1>6. Handled(<<c>>)
  BY <1>1, <1>3, <1>4, <1>5, PlanHandled
<1> QED BY <1>1, <1>6

-----------------------------------------------------------------------------
(* Giving back at a start what the last process held.                      *)

\* The holds of a book put in order of their ids hold each of them once.
LEMMA IdsInOrder ==
  ASSUME NEW S \in SUBSET Nat, IsFiniteSet(S), NEW n, n = Cardinality(S)
  PROVE  /\ InIdOrder(S) \in [1..n -> S] /\ n \in Nat
         /\ \A i, j \in 1..n : i # j => InIdOrder(S)[i] # InIdOrder(S)[j]
         /\ \A x \in S : \E i \in 1..n : InIdOrder(S)[i] = x
<1> DEFINE R == {p \in S \X S : p[1] < p[2]}
           InRow(s) == \A i, j \in 1..n : i < j => s[i] < s[j]
           s == InIdOrder(S)
<1>0. n \in Nat
  BY FS_CardinalityType
<1>1. \A x, y \in S : <<x, y>> \in R <=> x < y
  OBVIOUS
<1>2. Orders(R, S)
  <2> HIDE DEF R
  <2>1. \A x \in S : x \in Nat
    OBVIOUS
  <2> QED BY <1>1, <2>1 DEF Orders
<1>3. PICK q : InLine(R, S, q)
  BY <1>2, OrderThere
<1>4. q \in [1..n -> S] /\ InRow(q)
  <2> HIDE DEF R
  <2> QED BY <1>1, <1>3 DEF InLine
<1>5. s = CHOOSE t \in [1..n -> S] : InRow(t)
  BY DEF InIdOrder
<1> HIDE DEF s
<1>6. s \in [1..n -> S] /\ InRow(s)
  <2> HIDE DEF InRow
  <2> QED BY <1>4, <1>5
<1>7. ASSUME NEW i \in 1..n, NEW j \in 1..n, i # j
      PROVE  s[i] # s[j]
  <2>1. i < j \/ j < i
    BY <1>0, <1>7
  <2>2. s[i] \in Nat /\ s[j] \in Nat
    BY <1>6
  <2> QED BY <1>6, <2>1, <2>2
<1>8. \A x \in S : \E i \in 1..n : s[i] = x
  <2>1. s \in Injection(1..n, S)
    BY <1>6, <1>7 DEF Injection, IsInjective
  <2>2. Cardinality(1..n) = Cardinality(S)
    BY <1>0, FS_Interval
  <2>3. s \in Surjection(1..n, S)
    BY <2>1, <2>2, FS_Injection
  <2> QED BY <2>3 DEF Surjection
<1> QED BY <1>0, <1>6, <1>7, <1>8 DEF s

FlatBy(fl, seqs, n) ==
  fl = [i \in 1..n |-> IF i = 1 THEN seqs[i] ELSE fl[i - 1] \o seqs[i]]

Flattened(fl, seqs, n) == FlatBy(fl, seqs, n) /\ FlattenSeq(seqs) = fl[n]

\* What is behind a flattened sequence of sequences: each time one more is appended.
LEMMA FlatIs ==
  ASSUME NEW seqs, NEW n \in Nat \ {0}, Len(seqs) = n
  PROVE  \E fl : Flattened(fl, seqs, n)
<1> DEFINE T == {k \in Nat : \E fl : FlatBy(fl, seqs, k)}
           F == CHOOSE fl : FlatBy(fl, seqs, n)
<1>1. 0 \in T
  <2> DEFINE fl == [i \in 1..0 |-> 0]
  <2>1. 1..0 = {}
    OBVIOUS
  <2>2. FlatBy(fl, seqs, 0)
    BY <2>1 DEF FlatBy
  <2> QED BY <2>2
<1>2. ASSUME NEW k \in Nat, k \in T
      PROVE  k + 1 \in T
  <2>1. PICK g : FlatBy(g, seqs, k)
    BY <1>2
  <2> DEFINE h == [i \in 1..(k + 1) |-> IF i = 1 THEN seqs[i] ELSE g[i - 1] \o seqs[i]]
  <2>2. \A i \in 1..k : h[i] = g[i]
    <3>1. g = [i \in 1..k |-> IF i = 1 THEN seqs[i] ELSE g[i - 1] \o seqs[i]]
      BY <2>1 DEF FlatBy
    <3>2. \A i \in 1..k : g[i] = IF i = 1 THEN seqs[i] ELSE g[i - 1] \o seqs[i]
      BY <3>1
    <3>3. \A i \in 1..(k + 1) : h[i] = IF i = 1 THEN seqs[i] ELSE g[i - 1] \o seqs[i]
      OBVIOUS
    <3>4. \A i \in 1..k : i \in 1..(k + 1)
      OBVIOUS
    <3> HIDE DEF h
    <3> QED BY <3>2, <3>3, <3>4
  <2>3. \A i \in 1..(k + 1) : i # 1 => i - 1 \in 1..k
    OBVIOUS
  <2>4. h = [i \in 1..(k + 1) |-> IF i = 1 THEN seqs[i] ELSE h[i - 1] \o seqs[i]]
    <3>1. \A i \in 1..(k + 1) : h[i] = IF i = 1 THEN seqs[i] ELSE g[i - 1] \o seqs[i]
      OBVIOUS
    <3>2. h = [i \in 1..(k + 1) |-> h[i]]
      OBVIOUS
    <3> HIDE DEF h
    <3>3. \A i \in 1..(k + 1) : h[i] = IF i = 1 THEN seqs[i] ELSE h[i - 1] \o seqs[i]
      BY <2>2, <2>3, <3>1
    <3> QED BY <3>2, <3>3
  <2> HIDE DEF h
  <2>5. FlatBy(h, seqs, k + 1)
    BY <2>4 DEF FlatBy
  <2> QED BY <2>5
<1> HIDE DEF T
<1>3. Nat \subseteq T
  BY <1>1, <1>2, InductionOnNumbers
<1>4. \E fl : FlatBy(fl, seqs, n)
  BY <1>3 DEF T
<1>5. FlatBy(F, seqs, n)
  BY <1>4
<1>6. FlattenSeq(seqs) = F[n]
  BY DEF FlattenSeq, FlatBy
<1>7. Flattened(F, seqs, n)
  BY <1>5, <1>6 DEF Flattened
<1> QED BY <1>7

\* No statement changes nothing.
LEMMA PassesNothing ==
  ASSUME NEW b, BookRows(b, Nat)
  PROVE  Run(b, <<>>) = b /\ \E st : Passes(st, b, <<>>, DOMAIN b.holds)
<1> DEFINE st == [k \in 0..0 |-> b]
<1>1. DOMAIN <<>> = 1..0 /\ Len(<<>>) = 0 /\ 0 \in Nat /\ 1..0 = {} /\ 0..0 = {0}
  OBVIOUS
<1>2. IsSeq(<<>>)
  <2>1. <<>> \in Seq({})
    OBVIOUS
  <2> QED BY <2>1 DEF IsSeq
<1>3. st[0] = b
  OBVIOUS
<1> HIDE DEF st
<1>4. Course(st, b, <<>>, 0)
  BY <1>1, <1>3, CourseOf
<1>5. SameLots(b, b)
  BY DEF SameLots, SameLot
<1>6. Passes(st, b, <<>>, DOMAIN b.holds)
  BY <1>1, <1>2, <1>3, <1>4, <1>5 DEF Passes
<1>7. Run(b, <<>>) = b
  BY <1>3, <1>4 DEF Course
<1> QED BY <1>6, <1>7

\* One sequence of statements after another.
Joined(u, b, q, e, r, H) == Passes(u, b, q \o r, H) /\ Run(b, q \o r) = Run(e, r)

\* One sequence of statements after another passes through the books of both.
LEMMA PassesOn ==
  ASSUME NEW b, NEW q, NEW H, NEW st, Passes(st, b, q, H),
         NEW e, e = Run(b, q), NEW r, NEW G \in SUBSET H, NEW tt, Passes(tt, e, r, G)
  PROVE  \E u : Joined(u, b, q, e, r, H)
<1> DEFINE m == Len(q)
           n == Len(r)
           u == [k \in 0..(m + n) |-> IF k <= m THEN st[k] ELSE tt[k - m]]
           w == q \o r
<1>1. /\ IsSeq(q) /\ Course(st, b, q, m)
      /\ \A k \in 0..m : BookRows(st[k], Nat) /\ SameLots(b, st[k]) /\ DOMAIN st[k].holds \subseteq H
  BY DEF Passes
<1>2. /\ IsSeq(r) /\ Course(tt, e, r, n)
      /\ \A k \in 0..n : BookRows(tt[k], Nat) /\ SameLots(e, tt[k]) /\ DOMAIN tt[k].holds \subseteq G
  BY DEF Passes
<1>3. m \in Nat /\ n \in Nat
  BY <1>1, <1>2 DEF IsSeq
<1>4. IsSeq(w) /\ Len(w) = m + n /\ DOMAIN w = 1..(m + n)
      /\ (\A k \in 1..m : w[k] = q[k])
      /\ (\A k \in 1..n : w[m + k] = r[k])
  <2>1. PICK S1 : q \in Seq(S1)
    BY <1>1 DEF IsSeq
  <2>2. PICK S2 : r \in Seq(S2)
    BY <1>2 DEF IsSeq
  <2>3. q \in Seq(S1 \cup S2) /\ r \in Seq(S1 \cup S2)
    BY <2>1, <2>2
  <2>4. w \in Seq(S1 \cup S2) /\ Len(w) = m + n
    BY <2>3
  <2>5. IsSeq(w)
    BY <2>4 DEF IsSeq
  <2>6. \A k \in 1..m : w[k] = q[k]
    BY <2>3
  <2>7. \A k \in 1..n : w[m + k] = r[k]
    BY <2>3
  <2>8. DOMAIN w = 1..(m + n)
    BY <2>4
  <2> QED BY <2>4, <2>5, <2>6, <2>7, <2>8
<1>5. /\ st[0] = b /\ st[m] = e /\ tt[0] = e /\ tt[n] = Run(e, r)
      /\ \A k \in 1..m : st[k] = Execute(st[k - 1], q[k])
      /\ \A k \in 1..n : tt[k] = Execute(tt[k - 1], r[k])
  BY <1>1, <1>2 DEF Course
<1>6. /\ \A k \in 0..m : u[k] = st[k]
      /\ \A k \in 0..n : u[m + k] = tt[k]
  <2>1. \A k \in 0..m : u[k] = st[k]
    BY <1>3
  <2>2. ASSUME NEW k \in 0..n
        PROVE  u[m + k] = tt[k]
    <3>1. m + k \in 0..(m + n) /\ (m + k) - m = k /\ (m + k <= m => k = 0)
      BY <1>3
    <3>2. m + 0 = m
      BY <1>3
    <3> QED BY <1>5, <3>1, <3>2
  <2> QED BY <2>1, <2>2
<1> HIDE DEF m, n, u, w
<1>7. ASSUME NEW k \in 1..(m + n)
      PROVE  u[k] = Execute(u[k - 1], w[k])
  <2>1. CASE k <= m
    <3>1. k \in 1..m /\ k \in 0..m /\ k - 1 \in 0..m
      BY <1>3, <2>1
    <3> QED BY <1>4, <1>5, <1>6, <3>1
  <2>2. CASE ~(k <= m)
    <3> DEFINE j == k - m
    <3>1. j \in 1..n /\ j \in 0..n /\ j - 1 \in 0..n /\ m + j = k /\ m + (j - 1) = k - 1
      BY <1>3, <2>2
    <3> HIDE DEF j
    <3>2. u[m + j] = tt[j] /\ u[m + (j - 1)] = tt[j - 1] /\ w[m + j] = r[j]
      BY <1>4, <1>6, <3>1
    <3>3. tt[j] = Execute(tt[j - 1], r[j])
      BY <1>5, <3>1
    <3> QED BY <3>1, <3>2, <3>3
  <2> QED BY <2>1, <2>2
<1>8. m + n \in Nat /\ u[0] = b /\ u[m + n] = Run(e, r)
  <2>1. 0 \in 0..m /\ n \in 0..n /\ m + n \in Nat
    BY <1>3
  <2> QED BY <1>5, <1>6, <2>1
<1>9. Course(u, b, w, m + n)
  BY <1>4, <1>7, <1>8, CourseOf
<1>10. SameLots(b, e)
  <2>1. m \in 0..m
    BY <1>3
  <2> QED BY <1>1, <1>5, <2>1
<1>11. ASSUME NEW k \in 0..(m + n)
       PROVE  BookRows(u[k], Nat) /\ SameLots(b, u[k]) /\ DOMAIN u[k].holds \subseteq H
  <2>1. CASE k <= m
    <3>1. k \in 0..m
      BY <1>3, <2>1
    <3> QED BY <1>1, <1>6, <3>1
  <2>2. CASE ~(k <= m)
    <3> DEFINE j == k - m
    <3>1. j \in 0..n /\ m + j = k
      BY <1>3, <2>2
    <3> HIDE DEF j
    <3>2. u[k] = tt[j]
      BY <1>6, <3>1
    <3>3. BookRows(tt[j], Nat) /\ SameLots(e, tt[j]) /\ DOMAIN tt[j].holds \subseteq G
      BY <1>2, <3>1
    <3>4. SameLots(b, tt[j])
      BY <1>10, <3>3 DEF SameLots, SameLot
    <3> QED BY <3>2, <3>3, <3>4
  <2> QED BY <2>1, <2>2
<1>12. Passes(u, b, w, H)
  BY <1>4, <1>9, <1>11 DEF Passes
<1>13. Run(b, w) = Run(e, r)
  BY <1>8, <1>9 DEF Course
<1>14. Joined(u, b, q, e, r, H)
  BY <1>12, <1>13 DEF Joined, w
<1> QED BY <1>14

\* From b to e the first k of these holds were given back whole and dropped.
GivenUp(b, e, ids, k) ==
  /\ BookRows(e, Nat) /\ SameLots(b, e)
  /\ DOMAIN e.holds = DOMAIN b.holds \ {ids[j] : j \in 1..k}
  /\ \A x \in DOMAIN e.holds : e.holds[x] = b.holds[x]
  /\ \A l \in DOMAIN b.lots : Has(e, l) = Has(b, l)
ReleasedTo(st, b, q, ids, k) == Passes(st, b, q, DOMAIN b.holds) /\ GivenUp(b, Run(b, q), ids, k)

\* Giving back hold after hold leaves every lot what it has.
LEMMA ReleasedAll ==
  ASSUME NEW b, BookRows(b, Nat), NEW n \in Nat, NEW ids \in [1..n -> DOMAIN b.holds],
         \A i, j \in 1..n : i # j => ids[i] # ids[j],
         NEW seqs, seqs = [i \in 1..n |-> seqs[i]],
         \A i \in 1..n : seqs[i] = Append(Gives(b.holds[ids[i]].acct, b.holds[ids[i]].parts),
                                          DeleteHold(ids[i]))
  PROVE  \E st : ReleasedTo(st, b, FlattenSeq(seqs), ids, n)
<1>0. Len(seqs) = n
  OBVIOUS
<1>1. Run(b, <<>>) = b /\ \E st : Passes(st, b, <<>>, DOMAIN b.holds)
  BY PassesNothing
<1>2. GivenUp(b, b, ids, 0)
  <2>1. {ids[j] : j \in 1..0} = {}
    OBVIOUS
  <2> QED BY <2>1 DEF GivenUp, SameLots, SameLot
<1>3. \E st : ReleasedTo(st, b, <<>>, ids, 0)
  BY <1>1, <1>2 DEF ReleasedTo
<1>4. CASE n = 0
  <2>1. FlattenSeq(seqs) = <<>>
    BY <1>0, <1>4 DEF FlattenSeq
  <2> QED BY <1>3, <1>4, <2>1
<1>5. CASE n # 0
  <2>1. PICK fl : Flattened(fl, seqs, n)
    BY <1>0, <1>5, FlatIs
  <2> DEFINE q(k) == IF k = 0 THEN <<>> ELSE fl[k]
             T == {k \in Nat : k <= n => \E st : ReleasedTo(st, b, q(k), ids, k)}
  <2>2. \A k \in 1..n : fl[k] = IF k = 1 THEN seqs[k] ELSE fl[k - 1] \o seqs[k]
    BY <2>1 DEF Flattened, FlatBy
  <2>3. 0 \in T
    BY <1>3
  <2>4. ASSUME NEW k \in Nat, k \in T
        PROVE  k + 1 \in T
    <3> SUFFICES ASSUME k + 1 <= n
                 PROVE  \E st : ReleasedTo(st, b, q(k + 1), ids, k + 1)
      OBVIOUS
    <3>1. k + 1 \in 1..n /\ k <= n /\ (k + 1) - 1 = k
      OBVIOUS
    <3>2. PICK st : ReleasedTo(st, b, q(k), ids, k)
      BY <2>4, <3>1
    <3> DEFINE e == Run(b, q(k))
               h == ids[k + 1]
               a == b.holds[h].acct
               parts == b.holds[h].parts
               r == Append(Gives(a, parts), DeleteHold(h))
               f == Run(e, r)
    <3>3. Passes(st, b, q(k), DOMAIN b.holds) /\ GivenUp(b, e, ids, k)
      BY <3>2 DEF ReleasedTo
    <3>4. seqs[k + 1] = r
      BY <3>1
    <3>5. q(k + 1) = q(k) \o r
      <4>1. CASE k = 0
        <5>1. IsSeq(r)
          <6> DEFINE G == Gives(a, parts)
                     S == {G[i] : i \in DOMAIN G} \cup {DeleteHold(h)}
          <6>1. parts \in Parts
            <7>1. h \in DOMAIN b.holds /\ b.holds \in [DOMAIN b.holds -> HoldRow]
              BY <3>1 DEF BookRows
            <7>2. b.holds[h] \in HoldRow
              BY <7>1
            <7> QED BY <7>2 DEF HoldRow
          <6>2. Len(parts) \in Nat
            BY <6>1, PartsSum
          <6>3. G \in Seq(S)
            <7>1. G = [i \in 1..Len(parts) |-> G[i]]
              BY DEF Gives
            <7> HIDE DEF G
            <7>2. \A i \in 1..Len(parts) : G[i] \in S
              BY <7>1
            <7> HIDE DEF S
            <7>3. [i \in 1..Len(parts) |-> G[i]] \in Seq(S)
              BY <6>2, <7>2
            <7> QED BY <7>1, <7>3
          <6> HIDE DEF G
          <6>4. DeleteHold(h) \in S
            OBVIOUS
          <6> HIDE DEF S
          <6>5. Append(G, DeleteHold(h)) \in Seq(S)
            BY <6>3, <6>4
          <6> QED BY <6>5 DEF IsSeq, G
        <5> HIDE DEF r
        <5>2. <<>> \o r = r
          BY <5>1 DEF IsSeq
        <5>3. fl[1] = seqs[1]
          BY <2>2, <3>1, <4>1
        <5> QED BY <3>4, <4>1, <5>2, <5>3
      <4>2. CASE k # 0
        <5>1. fl[k + 1] = fl[(k + 1) - 1] \o seqs[k + 1]
          <6>1. k + 1 # 1
            BY <4>2
          <6> QED BY <2>2, <3>1, <6>1
        <5>2. fl[k + 1] = fl[k] \o r
          BY <3>1, <3>4, <5>1
        <5>3. q(k) = fl[k] /\ q(k + 1) = fl[k + 1]
          BY <4>2
        <5> QED BY <5>2, <5>3
      <4> QED BY <4>1, <4>2
    <3>e. e = Run(b, q(k)) /\ r = Append(Gives(a, parts), DeleteHold(h)) /\ f = Run(e, r)
      OBVIOUS
    <3>x. a = b.holds[h].acct /\ parts = b.holds[h].parts /\ h = ids[k + 1] /\ h \in DOMAIN b.holds
      BY <3>1
    <3> HIDE DEF q, e, h, a, parts, r, f
    <3>6. /\ BookRows(e, Nat) /\ SameLots(b, e)
          /\ DOMAIN e.holds = DOMAIN b.holds \ {ids[j] : j \in 1..k}
          /\ \A x \in DOMAIN e.holds : e.holds[x] = b.holds[x]
          /\ \A l \in DOMAIN b.lots : Has(e, l) = Has(b, l)
      BY <3>3 DEF GivenUp
    <3>7. h \in DOMAIN e.holds
      <4>1. \A j \in 1..k : ids[j] # h
        <5>1. \A j \in 1..k : j \in 1..n /\ j # k + 1
          BY <3>1
        <5> QED BY <3>1, <3>x, <5>1
      <4> QED BY <3>6, <3>x, <4>1
    <3>8. /\ a = e.holds[h].acct /\ parts = e.holds[h].parts
          /\ parts \in Parts /\ Owned(e, a, parts)
      BY <3>6, <3>7, <3>x DEF BookRows, HoldRow
    <3>s. HoldSettled(e, f, r, h, a, parts, parts)
      BY <3>6, <3>7, <3>8, <3>e, SettleGroup
    <3>9. /\ BookRows(f, Nat) /\ SameLots(e, f)
          /\ DOMAIN f.holds = DOMAIN e.holds \ {h}
          /\ \A x \in DOMAIN f.holds : f.holds[x] = e.holds[x]
          /\ \A x \in Accounts : Wealth(f, x) =
               Wealth(e, x) - (IF x = a THEN Amount(parts) - Amount(parts) ELSE 0)
          /\ \A l \in DOMAIN e.lots : Has(f, l) =
               Has(e, l) - (OfPocket(parts, l) - OfPocket(parts, l))
          /\ \E tt : Passes(tt, e, r, DOMAIN e.holds)
      BY <3>s DEF HoldSettled
    <3>10. GivenUp(b, f, ids, k + 1)
      <4>1. SameLots(b, f) /\ DOMAIN e.lots = DOMAIN b.lots
        BY <3>6, <3>9 DEF SameLots, SameLot
      <4>2. {ids[j] : j \in 1..(k + 1)} = {ids[j] : j \in 1..k} \cup {h}
        BY <3>x
      <4>3. DOMAIN f.holds = DOMAIN b.holds \ {ids[j] : j \in 1..(k + 1)}
        BY <3>6, <3>9, <4>2
      <4>4. \A x \in DOMAIN f.holds : f.holds[x] = b.holds[x]
        BY <3>6, <3>9
      <4>5. ASSUME NEW l \in DOMAIN b.lots
            PROVE  Has(f, l) = Has(b, l)
        <5>1. OfPocket(parts, l) \in Nat
          BY <3>8, PartsSum
        <5>2. Has(e, l) \in Nat
          BY <3>6, <4>1, LotsHeld
        <5> QED BY <3>6, <3>9, <4>1, <5>1, <5>2
      <4> QED BY <3>9, <4>1, <4>3, <4>4, <4>5 DEF GivenUp
    <3>11. PICK tt : Passes(tt, e, r, DOMAIN e.holds)
      BY <3>9
    <3>12. DOMAIN e.holds \in SUBSET DOMAIN b.holds
      BY <3>6
    <3>13. PICK u : Joined(u, b, q(k), e, r, DOMAIN b.holds)
      BY <3>3, <3>11, <3>12, <3>e, PassesOn
    <3>14. Passes(u, b, q(k + 1), DOMAIN b.holds) /\ Run(b, q(k + 1)) = f
      BY <3>5, <3>13, <3>e DEF Joined
    <3>15. ReleasedTo(u, b, q(k + 1), ids, k + 1)
      BY <3>10, <3>14 DEF ReleasedTo
    <3> QED BY <3>15
  <2> HIDE DEF T
  <2>5. Nat \subseteq T
    BY <2>3, <2>4, InductionOnNumbers
  <2>6. \E st : ReleasedTo(st, b, q(n), ids, n)
    BY <2>5 DEF T
  <2>7. q(n) = FlattenSeq(seqs)
    BY <1>5, <2>1 DEF Flattened
  <2> HIDE DEF q
  <2> QED BY <2>6, <2>7
<1> QED BY <1>4, <1>5

-----------------------------------------------------------------------------
(* The invariant: memory, disk and what is written down between them.      *)

\* Books lead from the first, by what each handler wrote down, one to the next; but for
\* a cut each is a book between two handlers.
Chain(d, first, q, s, p, c, L) ==
  /\ d[0] = first
  /\ \A i \in 1..Len(q) : /\ Way(d[i - 1], q[i], d[i], s, L)
                          /\ c # "cut" => Good(d[i], s, p)

Reaches(d, first, q, s, p, c, b, running) ==
  /\ Chain(d, first, q, s, p, c, DOMAIN b.lots)
  /\ running => d[Len(q)] = b

LedgerInv ==
  /\ up \in BOOLEAN /\ stops \in Nat /\ now \in 1..MaxTime /\ lastHold \in HoldIds /\ cut \in {"whole", "inside", "cut"}
  /\ stops = 0 => up /\ Balanced(bk, due)
  /\ up => Fit(bk, open, lastHold)
  /\ ~up => pending = <<>> /\ open = {} /\ cut # "inside"
  /\ Sales(sold, spent) /\ Booked(disk, sold) /\ Booked(bk, sold)
  /\ DOMAIN disk.lots \subseteq DOMAIN bk.lots
  /\ cut = "whole" => Good(disk, sold, spent)
  /\ cut # "cut" => Good(bk, sold, spent)
  /\ IsSeq(pending)
  /\ \E d : Reaches(d, disk, pending, sold, spent, cut, bk, up)

\* The first book of a way and the last were sold, and the last is the run's.
LEMMA WayEnds ==
  ASSUME NEW b, NEW q, NEW e, NEW s, NEW L, Way(b, q, e, s, L)
  PROVE  /\ Booked(b, s) /\ DOMAIN b.lots \subseteq L
         /\ Booked(e, s) /\ DOMAIN e.lots \subseteq L
         /\ e = Run(b, q)
<1>1. PICK st : /\ Course(st, b, q, Len(q)) /\ st[Len(q)] = e
                /\ \A k \in 0..Len(q) : Booked(st[k], s) /\ DOMAIN st[k].lots \subseteq L
  BY DEF Way
<1>2. Len(q) \in Nat
  BY DEF Way, IsSeq
<1>3. 0 \in 0..Len(q) /\ Len(q) \in 0..Len(q)
  BY <1>2
<1>4. st[0] = b /\ st[Len(q)] = Run(b, q)
  BY <1>1 DEF Course
<1> QED BY <1>1, <1>3, <1>4

\* What is used of a sequence with one more at its end.
LEMMA SeqGrows ==
  ASSUME NEW q, IsSeq(q), NEW c
  PROVE  /\ IsSeq(Append(q, c)) /\ Len(q) \in Nat /\ Len(Append(q, c)) = Len(q) + 1
         /\ \A i \in 1..Len(q) : Append(q, c)[i] = q[i]
         /\ Append(q, c)[Len(q) + 1] = c
<1>1. PICK S : q \in Seq(S)
  BY DEF IsSeq
<1>2. q \in Seq(S \cup {c})
  BY <1>1
<1>3. Append(q, c) \in Seq(S \cup {c})
  BY <1>2
<1>4. IsSeq(Append(q, c))
  BY <1>3 DEF IsSeq
<1> QED BY <1>2, <1>4

\* What is used of a sequence without its first.
LEMMA SeqShrinks ==
  ASSUME NEW q, IsSeq(q), q # <<>>
  PROVE  /\ Len(q) \in Nat \ {0} /\ Head(q) = q[1]
         /\ IsSeq(Tail(q)) /\ Len(Tail(q)) = Len(q) - 1
         /\ \A i \in 1..(Len(q) - 1) : Tail(q)[i] = q[i + 1]
<1>1. PICK S : q \in Seq(S)
  BY DEF IsSeq
<1>2. Tail(q) \in Seq(S)
  BY <1>1
<1>3. IsSeq(Tail(q))
  BY <1>2 DEF IsSeq
<1> QED BY <1>1, <1>3

\* A handler's step keeps the invariant.
LEMMA HandlerKeeps ==
  ASSUME LedgerInv, up, NEW q, WriteDown(q), Handled(q),
         UNCHANGED <<up, disk, now, stops, cut>>
  PROVE  LedgerInv'
<1> DEFINE n == Len(pending)
           L == DOMAIN bk.lots
           M == DOMAIN bk'.lots
<1>1. /\ Fit(bk', open', lastHold')
      /\ Balanced(bk, due) => Balanced(bk', due')
      /\ Way(bk, q, bk', sold', M) /\ L \subseteq M
      /\ Sales(sold', spent') /\ Later(sold, spent, sold', spent', L)
      /\ Good(bk, sold, spent) => Good(bk', sold', spent')
  BY DEF Handled, GoesOn
<1>2. /\ Sales(sold, spent) /\ Booked(disk, sold) /\ Booked(bk, sold) /\ DOMAIN disk.lots \subseteq L
      /\ IsSeq(pending)
  BY DEF LedgerInv
<1>3. PICK d : Reaches(d, disk, pending, sold, spent, cut, bk, up)
  BY DEF LedgerInv
<1>4. /\ d[0] = disk /\ d[n] = bk
      /\ \A i \in 1..n : Way(d[i - 1], pending[i], d[i], sold, L) /\ (cut # "cut" => Good(d[i], sold, spent))
  BY <1>3 DEF Reaches, Chain
<1>5. /\ IsSeq(pending') /\ n \in Nat /\ Len(pending') = n + 1
      /\ \A i \in 1..n : pending'[i] = pending[i]
      /\ pending'[n + 1] = q
  BY <1>2, SeqGrows DEF WriteDown
<1> DEFINE f == [i \in 0..(n + 1) |-> IF i = n + 1 THEN bk' ELSE d[i]]
<1>6. f[0] = disk' /\ f[n + 1] = bk' /\ f[n] = bk /\ \A i \in 0..n : f[i] = d[i]
  BY <1>4, <1>5
<1> HIDE DEF f, n, L, M
<1>7. Booked(disk, sold') /\ Booked(bk', sold')
  BY <1>1, <1>2, BookedLater, WayEnds
<1>8. cut # "cut" => Good(bk', sold', spent')
  BY <1>1 DEF LedgerInv
<1>9. cut = "whole" => Good(disk, sold', spent')
  <2>1. cut = "whole" => Good(disk, sold, spent)
    BY DEF LedgerInv
  <2> QED BY <1>1, <1>2, <2>1, GoodLater
<1>10. ASSUME NEW i \in 1..(n + 1)
       PROVE  Way(f[i - 1], pending'[i], f[i], sold', M) /\ (cut # "cut" => Good(f[i], sold', spent'))
  <2>1. CASE i = n + 1
    <3>1. i - 1 = n
      BY <1>5, <2>1
    <3> QED BY <1>1, <1>5, <1>6, <1>8, <2>1, <3>1
  <2>2. CASE i # n + 1
    <3>1. i \in 1..n /\ i \in 0..n /\ i - 1 \in 0..n
      BY <1>5, <2>2
    <3>2. f[i] = d[i] /\ f[i - 1] = d[i - 1] /\ pending'[i] = pending[i]
      BY <1>5, <1>6, <3>1
    <3>3. Way(d[i - 1], pending[i], d[i], sold, L) /\ (cut # "cut" => Good(d[i], sold, spent))
      BY <1>4, <3>1
    <3>4. Way(d[i - 1], pending[i], d[i], sold', M)
      BY <1>1, <3>3, WayLater
    <3>5. Booked(d[i], sold) /\ DOMAIN d[i].lots \subseteq L
      BY <3>3, WayEnds
    <3>6. cut # "cut" => Good(d[i], sold', spent')
      BY <1>1, <1>2, <3>3, <3>5, GoodLater
    <3> QED BY <3>2, <3>4, <3>6
  <2> QED BY <2>1, <2>2
<1>11. Reaches(f, disk', pending', sold', spent', cut', bk', up')
  BY <1>5, <1>6, <1>10 DEF Reaches, Chain, M
<1>12. DOMAIN disk'.lots \subseteq DOMAIN bk'.lots
  BY <1>1, <1>2 DEF L, M
<1>13. /\ stops' \in Nat /\ now' \in 1..MaxTime /\ lastHold' \in HoldIds
       /\ cut' \in {"whole", "inside", "cut"}
  BY <1>1 DEF LedgerInv, Fit
<1>14. stops' = 0 => up' /\ Balanced(bk', due')
  BY <1>1 DEF LedgerInv
<1> QED BY <1>1, <1>5, <1>7, <1>8, <1>9, <1>11, <1>12, <1>13, <1>14 DEF LedgerInv

\* The host's disk takes the next record, or the next handler's records.
LEMMA ReachDiskKeeps ==
  ASSUME LedgerInv, ReachDisk
  PROVE  LedgerInv'
<1> DEFINE n == Len(pending)
           L == DOMAIN bk.lots
           group == Head(pending)
           record == StopInside /\ Len(group) > 1
<1>1. /\ pending # <<>>
      /\ disk' = IF record THEN Execute(disk, Head(group)) ELSE Run(disk, group)
      /\ pending' = IF record THEN <<Tail(group)>> \o Tail(pending) ELSE Tail(pending)
      /\ cut' = IF cut = "cut" THEN cut ELSE IF record THEN "inside" ELSE "whole"
      /\ UNCHANGED <<up, bk, open, lastHold, now, stops, sold, spent, due>>
  BY DEF ReachDisk, history
<1>2. /\ Sales(sold, spent) /\ Booked(disk, sold) /\ Booked(bk, sold) /\ DOMAIN disk.lots \subseteq L
      /\ IsSeq(pending) /\ up /\ cut \in {"whole", "inside", "cut"}
  BY <1>1 DEF LedgerInv
<1>3. PICK d : Reaches(d, disk, pending, sold, spent, cut, bk, up)
  BY DEF LedgerInv
<1>4. /\ d[0] = disk /\ d[n] = bk
      /\ \A i \in 1..n : Way(d[i - 1], pending[i], d[i], sold, L) /\ (cut # "cut" => Good(d[i], sold, spent))
  BY <1>2, <1>3 DEF Reaches, Chain
<1>5. /\ n \in Nat \ {0} /\ group = pending[1]
      /\ IsSeq(Tail(pending)) /\ Len(Tail(pending)) = n - 1
      /\ \A i \in 1..(n - 1) : Tail(pending)[i] = pending[i + 1]
  BY <1>1, <1>2, SeqShrinks
<1>6. Way(disk, group, d[1], sold, L)
  <2>1. 1 \in 1..n /\ 1 - 1 = 0
    BY <1>5
  <2> QED BY <1>4, <1>5, <2>1
<1>7. cut = "cut" <=> cut' = "cut"
  BY <1>1, <1>2
<1> HIDE DEF n, L, group, record
\* What follows from the next disk and what is on its way to it then.
<1>8. ASSUME Booked(disk', sold), DOMAIN disk'.lots \subseteq L, IsSeq(pending'),
             cut' = "whole" => Good(disk', sold, spent),
             \E f : Reaches(f, disk', pending', sold, spent, cut', bk, up)
      PROVE  LedgerInv'
  <2>1. /\ stops' \in Nat /\ now' \in 1..MaxTime /\ lastHold' \in HoldIds
        /\ cut' \in {"whole", "inside", "cut"}
        /\ stops' = 0 => up' /\ Balanced(bk', due')
        /\ up' /\ Fit(bk', open', lastHold')
        /\ cut' # "cut" => Good(bk', sold', spent')
    BY <1>1, <1>2, <1>7 DEF LedgerInv
  <2>2. \E f : Reaches(f, disk', pending', sold', spent', cut', bk', up')
    BY <1>1, <1>8
  <2> QED BY <1>1, <1>2, <1>8, <2>1, <2>2 DEF LedgerInv, L
<1>9. CASE record
  <2>1. /\ disk' = Execute(disk, Head(group)) /\ pending' = <<Tail(group)>> \o Tail(pending)
        /\ cut' # "whole" /\ Len(group) > 1
    BY <1>1, <1>2, <1>9 DEF record
  <2>2. IsSeq(group)
    BY <1>6 DEF Way
  <2> DEFINE m == Len(group)
  <2>3. group # <<>>
    BY <2>1
  <2>4. /\ m \in Nat \ {0} /\ Head(group) = group[1]
        /\ IsSeq(Tail(group)) /\ Len(Tail(group)) = m - 1
        /\ \A i \in 1..(m - 1) : Tail(group)[i] = group[i + 1]
    BY <2>2, <2>3, SeqShrinks
  <2>5. PICK st : /\ Course(st, disk, group, m) /\ st[m] = d[1]
                  /\ \A k \in 0..m : Booked(st[k], sold) /\ DOMAIN st[k].lots \subseteq L
    BY <1>6 DEF Way
  <2> HIDE DEF m
  <2>6. st[0] = disk /\ \A k \in 1..m : st[k] = Execute(st[k - 1], group[k])
    BY <2>5 DEF Course
  <2>7. disk' = st[1]
    <3>1. 1 \in 1..m /\ 1 - 1 = 0
      BY <2>4
    <3> QED BY <2>1, <2>4, <2>6, <3>1
  <2>8. Booked(disk', sold) /\ DOMAIN disk'.lots \subseteq L
    <3>1. 1 \in 0..m
      BY <2>4
    <3> QED BY <2>5, <2>7, <3>1
  <2>9. Way(disk', Tail(group), d[1], sold, L)
    <3> DEFINE tt == [k \in 0..(m - 1) |-> st[k + 1]]
               r == Tail(group)
    <3>1. m - 1 \in Nat /\ \A k \in 0..(m - 1) : k + 1 \in 0..m
      BY <2>4
    <3>3. \A k \in 0..(m - 1) : tt[k] = st[k + 1]
      OBVIOUS
    <3>2. tt[0] = disk' /\ tt[m - 1] = d[1]
      <4>1. 0 \in 0..(m - 1) /\ m - 1 \in 0..(m - 1) /\ 0 + 1 = 1 /\ (m - 1) + 1 = m
        BY <2>4
      <4> HIDE DEF tt
      <4> QED BY <2>5, <2>7, <3>3, <4>1
    <3>4. IsSeq(r) /\ Len(r) = m - 1 /\ DOMAIN r = 1..(m - 1)
          /\ \A k \in 1..(m - 1) : r[k] = group[k + 1]
      <4>1. DOMAIN r = 1..Len(r)
        BY <2>4 DEF IsSeq
      <4> QED BY <2>4, <4>1
    <3> HIDE DEF tt, r
    <3>5. ASSUME NEW k \in 1..(m - 1)
          PROVE  tt[k] = Execute(tt[k - 1], r[k])
      <4>1. k \in 0..(m - 1) /\ k - 1 \in 0..(m - 1) /\ (k - 1) + 1 = k /\ (k + 1) - 1 = k /\ k + 1 \in 1..m
        BY <3>1
      <4>2. tt[k] = st[k + 1] /\ tt[k - 1] = st[k]
        BY <3>3, <4>1
      <4>3. st[k + 1] = Execute(st[k], group[k + 1])
        BY <2>6, <4>1
      <4> QED BY <3>4, <4>2, <4>3
    <3>6. Course(tt, disk', r, m - 1)
      BY <3>1, <3>2, <3>4, <3>5, CourseOf
    <3>7. \A k \in 0..(m - 1) : Booked(tt[k], sold) /\ DOMAIN tt[k].lots \subseteq L
      BY <2>5, <3>1, <3>3
    <3>8. Way(disk', r, d[1], sold, L)
      BY <3>2, <3>4, <3>6, <3>7 DEF Way
    <3> QED BY <3>8 DEF r
  <2>10. /\ IsSeq(pending') /\ Len(pending') = n /\ pending'[1] = Tail(group)
         /\ \A i \in 1..n : i # 1 => pending'[i] = pending[i]
    <3> DEFINE t == Tail(pending)
               g == Tail(group)
    <3>1. PICK S : t \in Seq(S)
      BY <1>5 DEF IsSeq
    <3>2. Len(t) = n - 1 /\ (\A i \in 1..(n - 1) : t[i] = pending[i + 1]) /\ pending' = <<g>> \o t
      BY <1>5, <2>1
    <3> HIDE DEF t, g
    <3>3. t \in Seq(S \cup {g}) /\ <<g>> \in Seq(S \cup {g}) /\ Len(<<g>>) = 1
      BY <3>1
    <3>4. pending' \in Seq(S \cup {g}) /\ Len(pending') = n
      BY <1>5, <3>2, <3>3
    <3>5. pending'[1] = g
      BY <1>5, <3>2, <3>3
    <3>6. \A i \in 1..(n - 1) : pending'[i + 1] = t[i]
      BY <1>5, <3>2, <3>3
    <3>7. ASSUME NEW i \in 1..n, i # 1
          PROVE  pending'[i] = pending[i]
      <4>1. i - 1 \in 1..(n - 1) /\ (i - 1) + 1 = i
        BY <1>5, <3>7
      <4> QED BY <3>2, <3>6, <4>1
    <3>8. IsSeq(pending')
      BY <3>4 DEF IsSeq
    <3> QED BY <3>4, <3>5, <3>7, <3>8 DEF g
  <2> DEFINE f == [i \in 0..n |-> IF i = 0 THEN disk' ELSE d[i]]
  <2>11. f[0] = disk' /\ \A i \in 1..n : f[i] = d[i]
    BY <1>5
  <2> HIDE DEF f
  <2>12. ASSUME NEW i \in 1..n
         PROVE  Way(f[i - 1], pending'[i], f[i], sold, L) /\ (cut' # "cut" => Good(f[i], sold, spent))
    <3>1. f[i] = d[i] /\ (cut' # "cut" => Good(d[i], sold, spent))
      BY <1>4, <1>7, <2>11
    <3>2. CASE i = 1
      <4>1. i - 1 = 0
        BY <3>2
      <4> QED BY <2>9, <2>10, <2>11, <3>1, <3>2, <4>1
    <3>3. CASE i # 1
      <4>1. i - 1 \in 1..n
        BY <1>5, <3>3
      <4>2. f[i - 1] = d[i - 1] /\ pending'[i] = pending[i]
        BY <2>10, <2>11, <3>3, <4>1
      <4> QED BY <1>4, <3>1, <4>2
    <3> QED BY <3>2, <3>3
  <2>13. f[n] = bk
    BY <1>4, <1>5, <2>11
  <2>14. Reaches(f, disk', pending', sold, spent, cut', bk, up)
    BY <2>10, <2>11, <2>12, <2>13 DEF Reaches, Chain, L
  <2> QED BY <1>8, <2>1, <2>8, <2>10, <2>14
<1>10. CASE ~record
  <2>1. disk' = Run(disk, group) /\ pending' = Tail(pending)
    BY <1>1, <1>10
  <2>2. disk' = d[1] /\ Booked(disk', sold) /\ DOMAIN disk'.lots \subseteq L
    BY <1>6, <2>1, WayEnds
  <2>3. cut' # "cut" => Good(disk', sold, spent)
    <3>1. 1 \in 1..n
      BY <1>5
    <3> QED BY <1>4, <1>7, <2>2, <3>1
  <2> DEFINE f == [i \in 0..(n - 1) |-> d[i + 1]]
  <2>4. \A i \in 0..(n - 1) : f[i] = d[i + 1]
    OBVIOUS
  <2> HIDE DEF f
  <2>5. f[0] = disk' /\ f[n - 1] = bk
    <3>1. 0 \in 0..(n - 1) /\ n - 1 \in 0..(n - 1) /\ (n - 1) + 1 = n /\ 0 + 1 = 1
      BY <1>5
    <3> QED BY <1>4, <2>2, <2>4, <3>1
  <2>6. ASSUME NEW i \in 1..(n - 1)
        PROVE  Way(f[i - 1], pending'[i], f[i], sold, L) /\ (cut' # "cut" => Good(f[i], sold, spent))
    <3>1. i \in 0..(n - 1) /\ i - 1 \in 0..(n - 1) /\ i + 1 \in 1..n /\ (i - 1) + 1 = i /\ (i + 1) - 1 = i
      BY <1>5
    <3>2. f[i] = d[i + 1] /\ f[i - 1] = d[i] /\ pending'[i] = pending[i + 1]
      BY <1>5, <2>1, <2>4, <3>1
    <3>3. Way(d[i], pending[i + 1], d[i + 1], sold, L) /\ (cut # "cut" => Good(d[i + 1], sold, spent))
      BY <1>4, <3>1
    <3> QED BY <1>7, <3>2, <3>3
  <2>7. Reaches(f, disk', pending', sold, spent, cut', bk, up)
    BY <1>5, <2>1, <2>5, <2>6 DEF Reaches, Chain, L
  <2>8. cut' = "whole" => Good(disk', sold, spent)
    BY <2>3
  <2> QED BY <1>5, <1>8, <2>1, <2>2, <2>7, <2>8
<1> QED BY <1>9, <1>10

\* What was not on the disk is gone.
LEMMA StopKeeps ==
  ASSUME LedgerInv, Stop
  PROVE  LedgerInv'
<1>1. /\ up /\ up' = FALSE /\ stops' = stops + 1 /\ pending' = <<>> /\ open' = {}
      /\ cut' = IF cut = "whole" THEN cut ELSE "cut"
      /\ UNCHANGED <<bk, disk, lastHold, now, sold, spent, due>>
  BY DEF Stop, history
<1>2. IsSeq(<<>>) /\ Len(<<>>) = 0
  <2>1. <<>> \in Seq({})
    OBVIOUS
  <2> QED BY <2>1 DEF IsSeq
<1> DEFINE f == [i \in 0..0 |-> disk]
<1>3. f[0] = disk
  OBVIOUS
<1> HIDE DEF f
<1>4. Reaches(f, disk', pending', sold', spent', cut', bk', up')
  BY <1>1, <1>2, <1>3 DEF Reaches, Chain
<1>5. stops' \in Nat /\ stops' # 0
  BY <1>1 DEF LedgerInv
<1>6. IsSeq(pending')
  BY <1>1, <1>2
<1> QED BY <1>1, <1>4, <1>5, <1>6 DEF LedgerInv

\* The new process gives back what the last one held and goes on from the disk.
LEMMA StartKeeps ==
  ASSUME LedgerInv, Start
  PROVE  LedgerInv'
<1> DEFINE H == DOMAIN disk.holds
           n == Cardinality(H)
           ids == InIdOrder(H)
           seqs == [i \in 1..Len(ids) |-> Released(ids[i])]
           changes == FlattenSeq(seqs)
<1>1. /\ ~up /\ up' = TRUE /\ bk' = Run(disk, changes)
      /\ pending' = IF changes = <<>> THEN <<>> ELSE <<changes>>
      /\ lastHold' = IF ids = <<>> THEN 0 ELSE ids[Len(ids)]
      /\ UNCHANGED <<disk, open, now, stops, sold, spent, due, cut>>
  BY DEF Start, history
<1>2. /\ Sales(sold, spent) /\ Booked(disk, sold) /\ stops \in Nat /\ stops # 0 /\ now \in 1..MaxTime
      /\ open = {} /\ cut \in {"whole", "cut"}
      /\ cut = "whole" => Good(disk, sold, spent)
  BY <1>1 DEF LedgerInv
<1>3. BookRows(disk, Nat) /\ H \in SUBSET HoldIds /\ H \in SUBSET Nat /\ IsFiniteSet(H)
  BY <1>2 DEF Booked, BookRows, HoldIds
<1>s. seqs = [i \in 1..Len(ids) |-> Released(ids[i])] /\ changes = FlattenSeq(seqs)
  OBVIOUS
<1> HIDE DEF n, ids, seqs, changes
<1>4. /\ ids \in [1..n -> H] /\ n \in Nat
      /\ \A i, j \in 1..n : i # j => ids[i] # ids[j]
      /\ \A x \in H : \E i \in 1..n : ids[i] = x
  BY <1>3, IdsInOrder DEF n, ids
<1>5. Len(ids) = n
  BY <1>4
<1>6. /\ seqs = [i \in 1..n |-> seqs[i]]
      /\ \A i \in 1..n : seqs[i] = Append(Gives(disk.holds[ids[i]].acct, disk.holds[ids[i]].parts),
                                          DeleteHold(ids[i]))
  BY <1>5, <1>s DEF Released
<1>7. PICK st : ReleasedTo(st, disk, changes, ids, n)
  BY <1>3, <1>4, <1>6, <1>s, ReleasedAll
<1>8. /\ Passes(st, disk, changes, H)
      /\ BookRows(bk', Nat) /\ SameLots(disk, bk')
      /\ DOMAIN bk'.holds = H \ {ids[j] : j \in 1..n}
      /\ \A l \in DOMAIN disk.lots : Has(bk', l) = Has(disk, l)
  BY <1>1, <1>7 DEF ReleasedTo, GivenUp
<1>9. DOMAIN bk'.holds = {}
  BY <1>4, <1>8
<1>10. Booked(bk', sold) /\ DOMAIN bk'.lots = DOMAIN disk.lots
  <2>1. DOMAIN bk'.holds \subseteq HoldIds
    BY <1>9
  <2> QED BY <1>2, <1>8, <2>1, BookedAfter DEF SameLots
<1>11. lastHold' \in HoldIds
  <2>1. CASE n = 0
    <3>1. ids = <<>>
      BY <1>4, <2>1
    <3>2. lastHold' = 0
      BY <1>1, <3>1
    <3>3. 0 \in HoldIds
      BY LedgerAssumption DEF HoldIds
    <3> QED BY <3>2, <3>3
  <2>2. CASE n # 0
    <3>1. n \in 1..n
      BY <1>4, <2>2
    <3>2. ids[n] \in HoldIds
      BY <1>3, <1>4, <3>1
    <3>3. ids # <<>>
      BY <1>5, <2>2
    <3>4. lastHold' = ids[n]
      BY <1>1, <1>5, <3>3
    <3> QED BY <3>2, <3>4
  <2> QED BY <2>1, <2>2
<1>12. Fit(bk', open', lastHold')
  BY <1>1, <1>2, <1>8, <1>9, <1>10, <1>11 DEF Fit, Booked
<1>13. cut' # "cut" => Good(bk', sold, spent)
  <2> SUFFICES ASSUME Good(disk, sold, spent)
               PROVE  Good(bk', sold, spent)
    BY <1>1, <1>2
  <2> QED BY <1>8, <1>10 DEF Good, SameLots
<1>14. Way(disk, changes, bk', sold, DOMAIN bk'.lots)
  BY <1>1, <1>2, <1>3, <1>8, <1>10, PassesIsWay
<1>15. IsSeq(pending') /\ \E f : Reaches(f, disk, pending', sold, spent, cut', bk', TRUE)
  <2>1. CASE changes = <<>>
    <3>1. pending' = <<>> /\ IsSeq(<<>>) /\ Len(<<>>) = 0
      <4>1. <<>> \in Seq({})
        OBVIOUS
      <4> QED BY <1>1, <2>1, <4>1 DEF IsSeq
    <3>2. bk' = disk
      BY <1>1, <1>3, <2>1, PassesNothing
    <3> DEFINE f == [i \in 0..0 |-> disk]
    <3>3. f[0] = disk
      OBVIOUS
    <3> HIDE DEF f
    <3>4. Reaches(f, disk, pending', sold, spent, cut', bk', TRUE)
      BY <3>1, <3>2, <3>3 DEF Reaches, Chain
    <3> QED BY <3>1, <3>4
  <2>2. CASE changes # <<>>
    <3>1. pending' = <<changes>>
      BY <1>1, <2>2
    <3>2. IsSeq(pending') /\ Len(pending') = 1 /\ pending'[1] = changes
      <4>1. pending' \in Seq({changes})
        BY <3>1
      <4> QED BY <3>1, <4>1 DEF IsSeq
    <3> DEFINE f == [i \in 0..1 |-> IF i = 0 THEN disk ELSE bk']
    <3>3. f[0] = disk /\ f[1] = bk' /\ 1 - 1 = 0 /\ \A i \in 1..1 : i = 1
      OBVIOUS
    <3> HIDE DEF f
    <3>4. Reaches(f, disk, pending', sold, spent, cut', bk', TRUE)
      BY <1>13, <1>14, <3>2, <3>3 DEF Reaches, Chain
    <3> QED BY <3>2, <3>4
  <2> QED BY <2>1, <2>2
<1>16. /\ \E f : Reaches(f, disk', pending', sold', spent', cut', bk', up')
       /\ IsSeq(pending') /\ Booked(disk', sold') /\ Booked(bk', sold') /\ Sales(sold', spent')
       /\ DOMAIN disk'.lots \subseteq DOMAIN bk'.lots
  BY <1>1, <1>2, <1>10, <1>15
<1>17. /\ cut' = "whole" => Good(disk', sold', spent')
       /\ cut' # "cut" => Good(bk', sold', spent')
       /\ stops' \in Nat /\ stops' # 0 /\ now' \in 1..MaxTime /\ lastHold' \in HoldIds
       /\ cut' \in {"whole", "inside", "cut"} /\ up'
  BY <1>1, <1>2, <1>11, <1>13
<1> QED BY <1>12, <1>16, <1>17 DEF LedgerInv

\* The empty book.
LEMMA LedgerInitially == Init => LedgerInv
<1> SUFFICES ASSUME Init
             PROVE  LedgerInv
  OBVIOUS
<1>1. /\ bk = EmptyBook /\ disk = EmptyBook /\ open = {} /\ lastHold = 0 /\ stops = 0
      /\ now = 1 /\ up /\ pending = <<>> /\ cut = "whole" /\ sold = <<>> /\ spent = <<>>
      /\ due = [a \in Accounts |-> 0]
  BY DEF Init
<1>2. /\ bk.allowance = [a \in Accounts |-> NoAllowance] /\ bk.lots = <<>> /\ bk.holds = <<>>
      /\ bk.payments = {}
      /\ bk = [allowance |-> bk.allowance, lots |-> bk.lots, holds |-> bk.holds, payments |-> bk.payments]
  BY <1>1 DEF EmptyBook
<1>3. DOMAIN <<>> = {} /\ IsFiniteSet({}) /\ Cardinality({}) = 0 /\ 1..0 = {}
  BY FS_EmptySet
<1>4. NoAllowance \in AllowanceRow(Nat)
  BY DEF NoAllowance, AllowanceRow
<1>5. BookRows(bk, Nat)
  <2>1. bk.lots \in [DOMAIN bk.lots -> LotRow(Nat)] /\ bk.holds \in [DOMAIN bk.holds -> HoldRow]
    BY <1>2, <1>3
  <2>2. bk.allowance \in [Accounts -> AllowanceRow(Nat)]
    BY <1>2, <1>4
  <2> QED BY <1>2, <1>3, <2>1, <2>2 DEF BookRows
<1>6. Fit(bk, open, lastHold)
  <2>1. 0 \in HoldIds
    BY LedgerAssumption DEF HoldIds
  <2> QED BY <1>1, <1>2, <1>3, <1>5, <2>1 DEF Fit
<1>7. ASSUME NEW x \in Accounts
      PROVE  Wealth(bk, x) = due[x]
  <2>1. LotsOf(bk, x) = 0 /\ HeldOf(bk, x) = 0
    BY <1>2, <1>3, SumEmpty DEF LotsOf, HeldOf
  <2>2. bk.allowance[x].left = 0
    BY <1>2 DEF NoAllowance
  <2> QED BY <1>1, <2>1, <2>2 DEF Wealth, InPockets
<1>8. Balanced(bk, due)
  BY <1>1, <1>7 DEF Balanced
<1>9. Sales(sold, spent)
  BY <1>1, <1>3 DEF Sales
<1>10. Booked(bk, sold) /\ Good(bk, sold, spent)
  BY <1>2, <1>3, <1>5 DEF Booked, Good
<1>11. disk = bk /\ IsSeq(pending) /\ Len(pending) = 0
  <2>1. <<>> \in Seq({})
    OBVIOUS
  <2> QED BY <1>1, <2>1 DEF IsSeq
<1> DEFINE d == [i \in 0..0 |-> bk]
<1>12. d[0] = bk
  OBVIOUS
<1> HIDE DEF d
<1>13. Reaches(d, disk, pending, sold, spent, cut, bk, up)
  BY <1>11, <1>12 DEF Reaches, Chain
<1>14. up /\ now \in 1..MaxTime /\ lastHold \in HoldIds /\ stops \in Nat /\ cut \in {"whole", "inside", "cut"}
  BY <1>1, LedgerAssumption DEF HoldIds
<1> QED BY <1>6, <1>8, <1>9, <1>10, <1>11, <1>13, <1>14 DEF LedgerInv

\* Every step keeps the invariant: a handler's, the disk's, a stop, a start, the clock's.
LEMMA LedgerStep == LedgerInv /\ [Next]_vars => LedgerInv'
<1> SUFFICES ASSUME LedgerInv, [Next]_vars
             PROVE  LedgerInv'
  OBVIOUS
<1>0. up => Sound
  BY DEF LedgerInv, Sound
\* A step of a handler.
<1>1. ASSUME up, \E q : WriteDown(q) /\ Handled(q), UNCHANGED <<up, disk, now, stops, cut>>
      PROVE  LedgerInv'
  BY <1>1, HandlerKeeps
<1>2. ASSUME NEW a \in Accounts, NEW n \in Amounts, GrantAllowance(a, n)
      PROVE  LedgerInv'
  <2>1. up /\ UNCHANGED <<up, disk, now, stops, cut>>
    BY <1>2 DEF GrantAllowance, PlanWrites
  <2>2. \E q : WriteDown(q) /\ Handled(q)
    BY <1>0, <1>2, <2>1, GrantHandled
  <2> QED BY <1>1, <2>1, <2>2
<1>3. ASSUME NEW a \in Accounts, NEW n \in Amounts, AddAllowance(a, n)
      PROVE  LedgerInv'
  <2>1. up /\ UNCHANGED <<up, disk, now, stops, cut>>
    BY <1>3 DEF AddAllowance, PlanWrites
  <2>2. \E q : WriteDown(q) /\ Handled(q)
    BY <1>0, <1>3, <2>1, AddHandled
  <2> QED BY <1>1, <2>1, <2>2
<1>4. ASSUME NEW a \in Accounts, LapseAllowance(a)
      PROVE  LedgerInv'
  <2>1. up /\ UNCHANGED <<up, disk, now, stops, cut>>
    BY <1>4 DEF LapseAllowance, PlanWrites
  <2>2. \E q : WriteDown(q) /\ Handled(q)
    BY <1>0, <1>4, <2>1, LapseHandled
  <2> QED BY <1>1, <2>1, <2>2
<1>5. ASSUME NEW a \in Accounts, NEW ref \in Refs, NEW n \in Amounts, Purchase(a, ref, n)
      PROVE  LedgerInv'
  <2>1. up /\ UNCHANGED <<up, disk, now, stops, cut>>
    BY <1>5 DEF Purchase
  <2>2. \E q : WriteDown(q) /\ Handled(q)
    BY <1>0, <1>5, <2>1, PurchaseHandled
  <2> QED BY <1>1, <2>1, <2>2
<1>6. ASSUME NEW a \in Accounts, NEW n \in Amounts, Hold(a, n)
      PROVE  LedgerInv'
  <2>1. up /\ UNCHANGED <<up, disk, now, stops, cut>>
    BY <1>6 DEF Hold
  <2>2. \E q : WriteDown(q) /\ Handled(q)
    BY <1>0, <1>6, <2>1, HoldHandled
  <2> QED BY <1>1, <2>1, <2>2
<1>7. ASSUME NEW h \in open, NEW cost \in 0..(Amount(bk.holds[h].parts) + 1), Settle(h, cost)
      PROVE  LedgerInv'
  <2>1. up /\ UNCHANGED <<up, disk, now, stops, cut>>
    BY <1>7 DEF Settle
  <2>2. \E q : WriteDown(q) /\ Handled(q)
    BY <1>0, <1>7, <2>1, SettleHandled
  <2> QED BY <1>1, <2>1, <2>2
<1>8. CASE Tick
  <2>1. now' = now + 1 /\ UNCHANGED <<up, bk, disk, pending, open, lastHold, grants, stops, history, cut>>
    BY <1>8 DEF Tick
  <2>2. now' \in 1..MaxTime
    BY <1>8, <2>1, LedgerAssumption DEF LedgerInv, Tick
  <2> QED BY <2>1, <2>2 DEF LedgerInv, history
<1>9. CASE UNCHANGED vars
  BY <1>9 DEF vars, LedgerInv
<1> QED BY <1>2, <1>3, <1>4, <1>5, <1>6, <1>7, <1>8, <1>9, ReachDiskKeeps, StopKeeps, StartKeeps
        DEF Next, Holding, Settling

\* The invariant always holds.
LEMMA LedgerHolds == Spec => []LedgerInv
BY LedgerInitially, LedgerStep, PTL DEF Spec

\* Type correctness: both books hold rows of their kind, no pocket is below nothing, and
\* the open requests are those that hold (ledger.rs, the tables and `hold`).
THEOREM LedgerTyped == Spec => []TypeOK
<1>1. LedgerInv => TypeOK
  <2> SUFFICES ASSUME LedgerInv
               PROVE  TypeOK
    OBVIOUS
  <2>1. ASSUME NEW b \in {bk, disk}
        PROVE  /\ \A a \in Accounts : b.allowance[a] \in [ends : Nat, granted : Nat, left : Nat]
               /\ \A l \in DOMAIN b.lots : b.lots[l] \in [acct : Accounts, left : Nat, expires : Nat]
               /\ \A h \in DOMAIN b.holds : b.holds[h].acct \in Accounts
               /\ b.payments \subseteq Refs
    <3>1. BookRows(b, Nat)
      BY DEF LedgerInv, Booked
    <3> QED BY <3>1 DEF BookRows, AllowanceRow, LotRow, HoldRow
  <2>2. up \in BOOLEAN
    BY DEF LedgerInv
  <2> QED BY <2>1, <2>2 DEF TypeOK, LedgerInv, Fit, HoldIds
<1> QED BY <1>1, LedgerHolds, PTL

\* Credit does not leak: while nothing stops the enclave what an account bought or was
\* granted, and neither used nor let lapse, is in a pocket or held (ledger.rs).
THEOREM CreditNeverLeaks == Spec => []CreditConserved
<1>1. LedgerInv => CreditConserved
  <2> SUFFICES ASSUME LedgerInv, stops = 0, NEW a \in Accounts
               PROVE  bk.allowance[a].left + LotsOf(bk, a) + HeldOf(bk, a) = due[a]
    BY DEF CreditConserved
  <2>1. Wealth(bk, a) = due[a]
    BY DEF LedgerInv, Balanced
  <2> QED BY <2>1 DEF Wealth, InPockets
<1> QED BY <1>1, LedgerHolds, PTL

\* No credit comes or goes by holding, settling, giving back and stopping between two
\* handlers: no lot has more than it was sold for, and of what it was sold for nothing
\* is gone but what answered requests cost (ledger.rs, `restore` and `settle`).
THEOREM CreditOnlyUsed == Spec => []NeitherMadeNorLost
<1>1. LedgerInv => NeitherMadeNorLost
  <2> SUFFICES ASSUME LedgerInv, cut = "whole"
               PROVE  NeverMinted /\ NeverLost
    BY DEF NeitherMadeNorLost
  <2>1. Good(bk, sold, spent) /\ Good(disk, sold, spent)
    BY DEF LedgerInv
  <2>2. NeverMinted
    BY <2>1 DEF NeverMinted, Good, Has
  <2>3. NeverLost
    <3> SUFFICES ASSUME NEW l \in DOMAIN bk.lots
                 PROVE  bk.lots[l].left + LotHeld(bk, l) + spent[l] >= sold[l].n
      BY DEF NeverLost
    <3>1. sold[l].n \in Nat /\ spent[l] \in Nat
      BY DEF LedgerInv, Booked, Sales
    <3>2. bk.lots[l].left + LotHeld(bk, l) \in Nat
      BY LotsHeld DEF LedgerInv, Booked, Has
    <3>3. sold[l].n <= bk.lots[l].left + LotHeld(bk, l) + spent[l]
      BY <2>1 DEF Good, Has
    <3> QED BY <3>1, <3>2, <3>3
  <2> QED BY <2>2, <2>3
<1> QED BY <1>1, LedgerHolds, PTL

\* A payment is one lot, however often it is sent: never two, wherever a stop falls, and
\* not without its lot if none falls inside a handler (service.rs, `durably`).
THEOREM APaymentIsOneLot == Spec => []PaymentIsOneLot
<1>1. LedgerInv => PaymentIsOneLot
  <2> SUFFICES ASSUME LedgerInv
               PROVE  PaymentIsOneLot
    OBVIOUS
  <2>1. \A b \in {bk, disk} : \A l1, l2 \in DOMAIN b.lots : l1 # l2 => sold[l1].ref # sold[l2].ref
    BY DEF LedgerInv, Booked
  <2>2. cut = "whole" => PaymentCredited
    BY DEF LedgerInv, Good, PaymentCredited
  <2> QED BY <2>1, <2>2 DEF PaymentIsOneLot
<1> QED BY <1>1, LedgerHolds, PTL

=============================================================================
