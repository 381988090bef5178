---------------------------- MODULE ProofFacts -----------------------------
(***************************************************************************)
(* Facts about numbers, recursion and sequences that the proofs of several *)
(* components rest on.  Induction is used as the existence of a least      *)
(* counterexample, which needs no operator as a parameter.                 *)
(***************************************************************************)
EXTENDS Integers, FiniteSets, Sequences, SequencesExt, WellFoundedInduction,
        SequenceTheorems, FiniteSetTheorems, TLAPS

-----------------------------------------------------------------------------
(* Induction and recursion.                                                *)

\* A set of naturals that is not empty has a least element.
LEMMA LeastNumber ==
  ASSUME NEW S \in SUBSET Nat, S # {}
  PROVE  \E m \in S : \A k \in S : m <= k
<1>1. PICK m \in S : \A k \in S : ~ (<<k, m>> \in OpToRel(<, Nat))
  BY NatLessThanWellFounded, WFMin, Zenon
<1>2. \A k \in S : ~ (k < m)
  BY <1>1 DEF OpToRel
<1> QED BY <1>2

\* A set that holds an element as soon as it holds everything of lower rank holds
\* everything.
LEMMA RankedInduction ==
  ASSUME NEW S, NEW rank \in [S -> Nat], NEW T \in SUBSET S,
         \A s \in S : (\A t \in S : rank[t] < rank[s] => t \in T) => s \in T
  PROVE  T = S
<1> SUFFICES ASSUME NEW s0 \in S, s0 \notin T PROVE FALSE
  OBVIOUS
<1> DEFINE R == {rank[s] : s \in S \ T}
<1>1. R \in SUBSET Nat /\ R # {}
  OBVIOUS
<1>2. PICK m \in R : \A k \in R : m <= k
  <2> HIDE DEF R
  <2> QED BY <1>1, LeastNumber
<1>3. PICK s \in S \ T : m = rank[s]
  OBVIOUS
<1>4. ASSUME NEW t \in S, rank[t] < rank[s] PROVE t \in T
  <2>1. t \notin T => rank[t] \in R
    OBVIOUS
  <2>2. ~ (m <= rank[t])
    BY <1>3, <1>4, <1>1
  <2> QED BY <1>2, <2>1, <2>2
<1> QED BY <1>3, <1>4

\* The calls of a recursion over S go from an element to elements of lower rank, and the
\* ranks are below a bound.
Descends(S, rank, bound, calls) ==
  /\ rank \in [S -> Nat] /\ bound \in Nat /\ calls \in [S -> SUBSET S]
  /\ \A s \in S : rank[s] < bound /\ \A t \in calls[s] : rank[t] < rank[s]

\* From the results of its calls, a step makes a result.
Computes(step, S, calls, R) == \A s \in S : \A g \in [calls[s] -> R] : step[s][g] \in R

\* f is what the steps make of f.
Solves(f, step, S, calls, R) ==
  /\ f \in [S -> R]
  /\ \A s \in S : \A g \in [calls[s] -> R] :
       (\A t \in calls[s] : g[t] = f[t]) => f[s] = step[s][g]

\* Such a recursion is satisfied by some function.
LEMMA RankedRecursion ==
  ASSUME NEW S, NEW rank, NEW bound, NEW calls, Descends(S, rank, bound, calls),
         NEW R, NEW step, Computes(step, S, calls, R)
  PROVE  \E f : Solves(f, step, S, calls, R)
<1> USE DEF Descends, Computes
<1> DEFINE Low(k)  == {s \in S : rank[s] < k}
           Sol(k)  == {f \in [Low(k) -> R] :
                         \A s \in Low(k) : f[s] = step[s][[t \in calls[s] |-> f[t]]]}
           Bad     == {k \in Nat : Sol(k) = {}}
<1>1. ASSUME NEW k \in Nat, Sol(k) # {} PROVE Sol(k + 1) # {}
  <2>1. PICK f \in Sol(k) : TRUE
    BY <1>1
  <2> DEFINE below(s) == [t \in calls[s] |-> f[t]]
             g == [s \in Low(k + 1) |-> IF rank[s] < k THEN f[s] ELSE step[s][below(s)]]
  <2>2. \A s \in Low(k + 1) : s \in S /\ \A t \in calls[s] : t \in Low(k) /\ t \in Low(k + 1)
    OBVIOUS
  <2>3. \A s \in Low(k + 1) : below(s) \in [calls[s] -> R]
    BY <2>2
  <2>4. g \in [Low(k + 1) -> R]
    <3> SUFFICES ASSUME NEW s \in Low(k + 1)
                 PROVE  (IF rank[s] < k THEN f[s] ELSE step[s][below(s)]) \in R
      OBVIOUS
    <3>1. step[s][below(s)] \in R
      BY <2>2, <2>3
    <3>2. rank[s] < k => f[s] \in R
      BY <2>2
    <3> QED BY <3>1, <3>2
  <2>5. ASSUME NEW s \in Low(k + 1) PROVE g[s] = step[s][[t \in calls[s] |-> g[t]]]
    <3>1. \A t \in calls[s] : g[t] = f[t]
      BY <2>2
    <3>2. [t \in calls[s] |-> g[t]] = below(s)
      BY <3>1
    <3>3. g[s] = step[s][below(s)]
      <4>1. CASE rank[s] < k
        BY <2>1, <4>1
      <4>2. CASE ~ (rank[s] < k)
        BY <4>2
      <4> QED BY <4>1, <4>2
    <3> QED BY <3>2, <3>3
  <2>6. g \in Sol(k + 1)
    <3> HIDE DEF g
    <3> QED BY <2>4, <2>5
  <2> QED BY <2>6
<1>2. Sol(0) # {}
  <2>1. Low(0) = {}
    OBVIOUS
  <2>2. [s \in {} |-> s] \in Sol(0)
    BY <2>1
  <2> QED BY <2>2
<1>3. Bad = {}
  <2> SUFFICES ASSUME Bad # {} PROVE FALSE
    OBVIOUS
  <2> HIDE DEF Sol
  <2>1. PICK m \in Bad : \A k \in Bad : m <= k
    BY LeastNumber
  <2>2. m # 0
    BY <1>2, <2>1
  <2>3. m - 1 \in Nat /\ m - 1 \notin Bad /\ (m - 1) + 1 = m
    BY <2>1, <2>2
  <2> QED BY <1>1, <2>1, <2>3
<1>4. PICK f \in Sol(bound) : TRUE
  <2> HIDE DEF Sol
  <2> QED BY <1>3
<1>5. Low(bound) = S
  OBVIOUS
<1>6. ASSUME NEW s \in S, NEW g \in [calls[s] -> R], \A t \in calls[s] : g[t] = f[t]
      PROVE  f[s] = step[s][g]
  <2>1. g = [t \in calls[s] |-> f[t]]
    BY <1>6
  <2> QED BY <1>4, <1>5, <2>1
<1> QED BY <1>4, <1>5, <1>6 DEF Solves

\* Numbers that grow from each place to the next grow from each place to every later one.
LEMMA StepsUp ==
  ASSUME NEW n \in Nat, NEW g \in [1 .. n -> Nat], \A j \in 1 .. n - 1 : g[j] < g[j + 1],
         NEW i \in 1 .. n, NEW j \in 1 .. n, i < j
  PROVE  g[i] < g[j]
<1> DEFINE Bad == {k \in 1 .. n : i < k /\ ~ (g[i] < g[k])}
<1> SUFFICES ASSUME Bad # {} PROVE FALSE
  OBVIOUS
<1>1. PICK m \in Bad : \A k \in Bad : m <= k
  <2>1. Bad \in SUBSET Nat
    OBVIOUS
  <2> HIDE DEF Bad
  <2> QED BY <2>1, LeastNumber
<1>2. PICK k \in 1 .. n - 1 : m = k + 1
  <2>1. m - 1 \in 1 .. n - 1 /\ m = (m - 1) + 1
    OBVIOUS
  <2> QED BY <2>1
<1>3. g[k] < g[m] /\ g[i] \in Nat /\ g[k] \in Nat /\ g[m] \in Nat /\ k \notin Bad
  BY <1>1, <1>2
<1>4. i = k \/ (i < k /\ g[i] < g[k])
  BY <1>2, <1>3
<1> QED BY <1>3, <1>4

-----------------------------------------------------------------------------
(* Sequences as stacks: the savers of iom and the frames of a walk.        *)

\* Taking the last element off a sequence leaves the others where they were.
LEMMA FrontAndLast ==
  ASSUME NEW S, NEW s \in Seq(S), s # <<>>
  PROVE  /\ Last(s) \in S /\ Front(s) \in Seq(S)
         /\ Len(Front(s)) = Len(s) - 1
         /\ \A i \in 1 .. Len(s) - 1 : Front(s)[i] = s[i]
<1>1. Len(s) \in Nat /\ Len(s) # 0 /\ \A i \in 1 .. Len(s) : s[i] \in S
  OBVIOUS
<1>2. \A i \in 1 .. Len(s) - 1 : s[i] \in S
  BY <1>1
<1>3. /\ Front(s) \in Seq(S)
      /\ Len(Front(s)) = IF 1 <= Len(s) - 1 THEN Len(s) - 1 - 1 + 1 ELSE 0
      /\ \A i \in 1 .. Len(s) - 1 - 1 + 1 : Front(s)[i] = s[1 + i - 1]
  BY <1>1, <1>2, SubSeqProperties DEF Front
<1>4. Len(Front(s)) = Len(s) - 1
  <2>1. \A n \in Nat : n # 0 => (IF 1 <= n - 1 THEN n - 1 - 1 + 1 ELSE 0) = n - 1
    OBVIOUS
  <2> QED BY <1>1, <1>3, <2>1
<1>5. ASSUME NEW i \in 1 .. Len(s) - 1 PROVE Front(s)[i] = s[i]
  <2>1. i \in 1 .. Len(s) - 1 - 1 + 1 /\ 1 + i - 1 = i
    BY <1>1
  <2> QED BY <2>1, <1>3
<1>6. Last(s) \in S
  BY <1>1 DEF Last
<1> QED BY <1>3, <1>4, <1>5, <1>6

\* A set and its image under a one-to-one function are of a size.
LEMMA SameSize ==
  ASSUME NEW S, NEW T, IsFiniteSet(S), NEW f \in [S -> T],
         \A t \in T : \E x \in S : f[x] = t,
         \A x, y \in S : f[x] = f[y] => x = y
  PROVE  Cardinality(T) = Cardinality(S)
<1>1. f \in Bijection(S, T)
  BY DEF Bijection, Injection, Surjection, IsInjective
<1> QED BY <1>1, FS_Bijection DEF ExistsBijection

\* The sizes of disjoint sets add up.
LEMMA DisjointSizes ==
  ASSUME NEW S, NEW T, IsFiniteSet(S), IsFiniteSet(T), S \cap T = {}
  PROVE  Cardinality(S \cup T) = Cardinality(S) + Cardinality(T)
<1>1. Cardinality(S \cup T) = Cardinality(S) + Cardinality(T) - Cardinality(S \cap T)
  BY FS_Union
<1>2. Cardinality(S) \in Nat /\ Cardinality(T) \in Nat /\ Cardinality(S \cap T) = 0
  BY FS_EmptySet, FS_CardinalityType
<1> QED BY <1>1, <1>2
=============================================================================
