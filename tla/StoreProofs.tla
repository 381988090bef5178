----------------------------- MODULE StoreProofs ------------------------------
(***************************************************************************)
(* Theorems about module TrieStore: in the hands of a client that keeps to *)
(* proper calls the heap stays a radix tree, a search finds every stored   *)
(* path, and the trie implements the map.  What is said of radix trees is  *)
(* said of any number of them in one heap, for tries that share it.        *)
(***************************************************************************)
EXTENDS TrieStore, SearchProofs

-----------------------------------------------------------------------------
(* Paths, character by character.                                          *)

\* s begins t, from the first character to the last of s.
Begins(s, t) == Len(s) <= Len(t) /\ \A i \in 1 .. Len(s) : s[i] = t[i]

\* What SubSeq keeps of the beginning of a sequence.
LEMMA FirstPart ==
  ASSUME NEW s \in Seq(Char), NEW m \in 0 .. Len(s)
  PROVE  /\ SubSeq(s, 1, m) \in Seq(Char) /\ Len(SubSeq(s, 1, m)) = m
         /\ \A i \in 1 .. m : SubSeq(s, 1, m)[i] = s[i]
<1>1. Len(s) \in Nat /\ m \in Nat /\ m <= Len(s)
  OBVIOUS
<1> QED BY <1>1

\* What Drop keeps of the end of a sequence.
LEMMA LastPart ==
  ASSUME NEW s \in Seq(Char), NEW m \in 0 .. Len(s)
  PROVE  /\ Drop(s, m) \in Seq(Char) /\ Len(Drop(s, m)) = Len(s) - m
         /\ \A i \in 1 .. Len(s) - m : Drop(s, m)[i] = s[m + i]
<1>1. Len(s) \in Nat /\ m \in Nat /\ m <= Len(s)
  OBVIOUS
<1> QED BY <1>1 DEF Drop

\* IsPrefix of the community modules, index by index.
LEMMA PrefixMeans ==
  ASSUME NEW s \in Seq(Char), NEW t \in Seq(Char)
  PROVE  IsPrefix(s, t) <=> Begins(s, t)
<1>1. Len(s) \in Nat /\ Len(t) \in Nat
  OBVIOUS
<1>2. CASE Len(s) <= Len(t)
  <2>1. /\ SubSeq(s, 1, Len(s)) \in Seq(Char) /\ Len(SubSeq(s, 1, Len(s))) = Len(s)
        /\ \A i \in 1 .. Len(s) : SubSeq(s, 1, Len(s))[i] = s[i]
    BY <1>1, FirstPart
  <2>2. /\ SubSeq(t, 1, Len(s)) \in Seq(Char) /\ Len(SubSeq(t, 1, Len(s))) = Len(s)
        /\ \A i \in 1 .. Len(s) : SubSeq(t, 1, Len(s))[i] = t[i]
    BY <1>1, <1>2, FirstPart
  <2>3. SubSeq(s, 1, Len(s)) = SubSeq(t, 1, Len(s)) <=> \A i \in 1 .. Len(s) : s[i] = t[i]
    BY <1>1, <2>1, <2>2, SeqEqual
  <2> QED BY <1>2, <2>3 DEF IsPrefix, Begins
<1>3. CASE ~ (Len(s) <= Len(t))
  BY <1>3 DEF IsPrefix, Begins
<1> QED BY <1>2, <1>3

\* A concatenation, character by character.
LEMMA ConcatMeans ==
  ASSUME NEW s \in Seq(Char), NEW t \in Seq(Char), NEW u \in Seq(Char)
  PROVE  u = s \o t <=> /\ Begins(s, u) /\ Len(u) = Len(s) + Len(t)
                        /\ \A i \in 1 .. Len(t) : u[Len(s) + i] = t[i]
<1>1. Len(s) \in Nat /\ Len(t) \in Nat /\ Len(u) \in Nat
  OBVIOUS
<1>2. /\ s \o t \in Seq(Char) /\ Len(s \o t) = Len(s) + Len(t)
      /\ \A i \in 1 .. Len(s) : (s \o t)[i] = s[i]
      /\ \A i \in 1 .. Len(t) : (s \o t)[Len(s) + i] = t[i]
  <2>1. \A i \in 1 .. Len(t) : (s \o t)[Len(s) + i] = t[i]
    OBVIOUS
  <2> QED BY <2>1
<1>3. ASSUME u = s \o t
      PROVE  /\ Begins(s, u) /\ Len(u) = Len(s) + Len(t)
             /\ \A i \in 1 .. Len(t) : u[Len(s) + i] = t[i]
  BY <1>1, <1>2, <1>3 DEF Begins
<1>4. ASSUME Begins(s, u), Len(u) = Len(s) + Len(t),
             \A i \in 1 .. Len(t) : u[Len(s) + i] = t[i]
      PROVE  u = s \o t
  <2>1. ASSUME NEW i \in 1 .. Len(u) PROVE u[i] = (s \o t)[i]
    <3>1. CASE i <= Len(s)
      BY <1>1, <1>2, <1>4, <3>1 DEF Begins
    <3>2. CASE ~ (i <= Len(s))
      <4>1. PICK j \in 1 .. Len(t) : i = Len(s) + j
        <5>1. i - Len(s) \in 1 .. Len(t) /\ i = Len(s) + (i - Len(s))
          BY <1>1, <1>4, <3>2
        <5> QED BY <5>1
      <4> QED BY <1>2, <1>4, <4>1
    <3> QED BY <3>1, <3>2
  <2> QED BY <1>2, <1>4, <2>1, SeqEqual
<1> QED BY <1>3, <1>4

\* A sequence ends in what was appended.
LEMMA AppendEnds ==
  ASSUME NEW s \in Seq(Char), NEW t \in Seq(Char)
  PROVE  IsSuffix(t, s \o t)
<1>1. /\ s \o t \in Seq(Char) /\ Len(s \o t) = Len(s) + Len(t)
      /\ Len(s) \in Nat /\ Len(t) \in Nat
      /\ \A i \in 1 .. Len(t) : (s \o t)[Len(s) + i] = t[i]
  BY ConcatMeans
<1>2. Len(t) <= Len(s \o t) /\ Len(s \o t) - Len(t) = Len(s)
  BY <1>1
<1> QED BY <1>1, <1>2, SuffixMeans

\* Beginnings of one sequence: the shorter begins the longer.
LEMMA BeginsBoth ==
  ASSUME NEW s \in Seq(Char), NEW t \in Seq(Char), NEW u \in Seq(Char)
  PROVE  /\ Begins(s, s)
         /\ Begins(s, t) /\ Begins(t, u) => Begins(s, u)
         /\ Begins(s, t) /\ Begins(t, s) => s = t
         /\ Begins(s, u) /\ Begins(t, u) /\ Len(s) <= Len(t) => Begins(s, t)
<1>1. Len(s) \in Nat /\ Len(t) \in Nat /\ Len(u) \in Nat
  OBVIOUS
<1>2. Begins(s, t) /\ Begins(t, s) => s = t
  BY <1>1, SeqEqual DEF Begins
<1> QED BY <1>1, <1>2 DEF Begins

-----------------------------------------------------------------------------
(* Radix trees.                                                            *)

\* A node with a path: the roots of trees are the nodes that have none.
Titled(n) == node[n].path # <<>>

\* A child's path is its parent's and then its own fragment.
KidExtends(n, k) == Titled(k) /\ node[k].path = node[n].path \o node[k].frag

\* RadixTree with the children of a node as a set, which is what steps change, and of
\* each node by itself: so it can be said of the nodes of several trees too.
Radix == /\ \A n \in Live : IsSuffix(node[n].frag, node[n].path)
         /\ \A n \in Live : Titled(n) => node[n].frag # <<>>
         /\ \A n \in Live : \A k \in Range(node[n].kids) : KidExtends(n, k)
         /\ \A n \in Live : \A k, q \in Range(node[n].kids) :
              node[k].frag[1] = node[q].frag[1] => k = q

\* A heap of radix trees, one or several.
Grove == Wood /\ Radix

\* What lies below a node of the heap, and below its children.
LEMMA WoodBelow ==
  ASSUME Wood, NEW n \in Live
  PROVE  /\ n \in Subtree(n) /\ Subtree(n) \subseteq Live
         /\ \A m \in Subtree(n) : Range(node[m].kids) \subseteq Subtree(n)
         /\ \A k \in Range(node[n].kids) : k \in Live /\ Subtree(k) \subseteq Subtree(n) \ {n}
<1>1. \A m \in Live : Range(node[m].kids) \subseteq Live
  BY WoodKids
<1>2. /\ n \in Subtree(n) /\ Subtree(n) \subseteq Live
      /\ \A m \in Subtree(n) : Range(node[m].kids) \subseteq Subtree(n)
  BY <1>1 DEF Subtree
<1>3. ASSUME NEW k \in Range(node[n].kids)
      PROVE  k \in Live /\ Subtree(k) \subseteq Subtree(n) \ {n}
  <2>1. k \in Live /\ k \in Subtree(n)
    BY <1>1, <1>2, <1>3
  <2>2. Subtree(k) \subseteq Subtree(n)
    BY <1>2, <2>1, SubtreeLeast
  <2>3. PICK rank, bound : Descends(Live, rank, bound, KidsOf)
    BY DEF Wood
  <2>4. /\ rank \in [Live -> Nat]
        /\ \A m \in Live : \A q \in Range(node[m].kids) : rank[q] < rank[m]
    <3>1. \A m \in Live : KidsOf[m] = Range(node[m].kids)
      BY DEF KidsOf
    <3> QED BY <2>3, <3>1 DEF Descends
  <2> DEFINE S == {m \in Live : rank[m] < rank[n]}
  <2>5. k \in S /\ S \in SUBSET Live /\ n \notin S
    BY <1>3, <2>1, <2>4
  <2>6. ASSUME NEW m \in S, NEW q \in Range(node[m].kids) PROVE q \in S
    <3>1. m \in Live /\ q \in Live /\ rank[q] < rank[m] /\ rank[m] < rank[n]
      BY <1>1, <2>4, <2>6
    <3>2. rank[q] \in Nat /\ rank[m] \in Nat /\ rank[n] \in Nat
      BY <2>4, <3>1
    <3>3. rank[q] < rank[n]
      BY <3>1, <3>2
    <3> QED BY <3>1, <3>3
  <2>7. Subtree(k) \subseteq S
    <3> HIDE DEF S
    <3> QED BY <2>1, <2>5, <2>6, SubtreeLeast
  <2> QED BY <2>1, <2>2, <2>5, <2>7
<1> QED BY <1>2, <1>3

\* The number of characters of its path that lie above node n.
Start(n) == Len(node[n].path) - Len(node[n].frag)

\* The fragment of a node is the end of its path; a root has neither.
LEMMA NodePath ==
  ASSUME Grove, NEW n \in Live
  PROVE  /\ node[n].path \in Seq(Char) /\ node[n].frag \in Seq(Char)
         /\ Start(n) \in Nat /\ Len(node[n].frag) \in Nat
         /\ Titled(n) => Len(node[n].frag) # 0
         /\ ~ Titled(n) => Start(n) = 0 /\ node[n].frag = <<>> /\ node[n].path = <<>>
         /\ Len(node[n].path) = Start(n) + Len(node[n].frag)
         /\ \A i \in 1 .. Len(node[n].frag) : node[n].path[Start(n) + i] = node[n].frag[i]
<1>1. node[n].path \in Seq(Char) /\ node[n].frag \in Seq(Char)
  BY DEF Grove, Wood, HeapTypeOK, Fields
<1>2. /\ Len(node[n].frag) <= Len(node[n].path)
      /\ \A i \in 1 .. Len(node[n].frag) : node[n].frag[i] = node[n].path[Start(n) + i]
  <2>1. IsSuffix(node[n].frag, node[n].path)
    BY DEF Grove, Radix
  <2> QED BY <1>1, <2>1, SuffixMeans DEF Start
<1>3. Len(node[n].path) \in Nat /\ Len(node[n].frag) \in Nat
  BY <1>1
<1>4. Start(n) \in Nat /\ Len(node[n].path) = Start(n) + Len(node[n].frag)
  BY <1>2, <1>3 DEF Start
<1>5. ASSUME Titled(n) PROVE Len(node[n].frag) # 0
  BY <1>1, <1>5 DEF Grove, Radix
<1>6. ASSUME ~ Titled(n) PROVE Start(n) = 0 /\ node[n].frag = <<>> /\ node[n].path = <<>>
  <2>1. node[n].path = <<>> /\ Len(node[n].path) = 0
    BY <1>6 DEF Titled
  <2>2. Len(node[n].frag) = 0
    BY <1>2, <1>3, <2>1
  <2> QED BY <1>1, <1>4, <2>1, <2>2
<1> QED BY <1>1, <1>2, <1>3, <1>4, <1>5, <1>6

\* A child begins where its parent ends.
LEMMA KidPath ==
  ASSUME Grove, NEW n \in Live, NEW k \in Range(node[n].kids)
  PROVE  /\ k \in Live /\ Titled(k) /\ node[k].path \in Seq(Char) /\ node[k].frag \in Seq(Char)
         /\ node[n].path \in Seq(Char)
         /\ Begins(node[n].path, node[k].path)
         /\ Start(k) = Len(node[n].path) /\ Start(k) \in Nat
         /\ Len(node[k].frag) \in Nat \ {0}
         /\ Len(node[k].path) = Start(k) + Len(node[k].frag)
         /\ \A i \in 1 .. Len(node[k].frag) : node[k].path[Start(k) + i] = node[k].frag[i]
<1>1. k \in Live /\ Titled(k) /\ node[k].path = node[n].path \o node[k].frag
  BY WoodBelow DEF Grove, Radix, KidExtends
<1>2. /\ node[k].path \in Seq(Char) /\ node[k].frag \in Seq(Char) /\ node[n].path \in Seq(Char)
      /\ Start(k) \in Nat /\ Len(node[k].frag) \in Nat \ {0}
      /\ Len(node[k].path) = Start(k) + Len(node[k].frag)
      /\ \A i \in 1 .. Len(node[k].frag) : node[k].path[Start(k) + i] = node[k].frag[i]
  BY <1>1, NodePath
<1>3. /\ Begins(node[n].path, node[k].path)
      /\ Len(node[k].path) = Len(node[n].path) + Len(node[k].frag)
  BY <1>1, <1>2, ConcatMeans, ZenonT(40)
<1>4. Start(k) = Len(node[n].path)
  <2>1. Len(node[n].path) \in Nat /\ Len(node[k].frag) \in Nat /\ Start(k) \in Nat
    BY <1>2
  <2>2. Start(k) + Len(node[k].frag) = Len(node[n].path) + Len(node[k].frag)
    BY <1>2, <1>3
  <2>3. \A x, y, z \in Nat : x + z = y + z => x = y
    OBVIOUS
  <2> QED BY <2>1, <2>2, <2>3, Zenon
<1> QED BY <1>1, <1>2, <1>3, <1>4

\* What lies below a node lies below one of its children.
LEMMA BelowAKid ==
  ASSUME Wood, NEW n \in Live, NEW m \in Subtree(n), m # n
  PROVE  \E k \in Range(node[n].kids) : m \in Subtree(k)
<1> DEFINE S == {n} \cup {q \in Live : \E k \in Range(node[n].kids) : q \in Subtree(k)}
<1>1. \A k \in Range(node[n].kids) : k \in Live
  BY WoodBelow
<1>2. \A k \in Range(node[n].kids) : k \in S
  BY <1>1, WoodBelow
<1>3. ASSUME NEW q \in S, NEW c \in Range(node[q].kids) PROVE c \in S
  <2>1. CASE q = n
    BY <1>2, <1>3, <2>1
  <2>2. CASE q # n
    <3>1. PICK k \in Range(node[n].kids) : q \in Subtree(k)
      BY <2>2
    <3>2. c \in Subtree(k) /\ c \in Live
      BY <1>1, <1>3, <3>1, WoodBelow
    <3> QED BY <3>1, <3>2
  <2> QED BY <2>1, <2>2
<1>4. S \in SUBSET Live /\ n \in S
  OBVIOUS
<1>5. Subtree(n) \subseteq S
  <2> HIDE DEF S
  <2> QED BY <1>3, <1>4, SubtreeLeast
<1> QED BY <1>5

\* Paths grow downwards.
LEMMA PathsGrow ==
  ASSUME Grove, NEW n \in Live, NEW m \in Subtree(n)
  PROVE  /\ m \in Live /\ Begins(node[n].path, node[m].path)
         /\ m # n => Len(node[n].path) <= Start(m)
<1> DEFINE Grows(x, y) == /\ Begins(node[x].path, node[y].path)
                          /\ y # x => Len(node[x].path) <= Start(y)
           T == {x \in Live : \A y \in Subtree(x) : Grows(x, y)}
<1>0. Wood
  BY DEF Grove
<1>1. ASSUME NEW x \in Live, Range(node[x].kids) \subseteq T PROVE x \in T
  <2> SUFFICES ASSUME NEW y \in Subtree(x) PROVE Grows(x, y)
    OBVIOUS
  <2>1. y \in Live /\ node[x].path \in Seq(Char) /\ node[y].path \in Seq(Char)
    BY <1>0, WoodBelow, NodePath
  <2>2. CASE y = x
    BY <2>1, <2>2, BeginsBoth
  <2>3. CASE y # x
    <3>1. PICK k \in Range(node[x].kids) : y \in Subtree(k)
      BY <1>0, <2>3, BelowAKid
    <3>2. /\ Begins(node[x].path, node[k].path) /\ Start(k) = Len(node[x].path)
          /\ Len(node[k].path) = Start(k) + Len(node[k].frag)
          /\ Start(k) \in Nat /\ Len(node[k].frag) \in Nat /\ node[k].path \in Seq(Char)
      BY <3>1, KidPath
    <3>3. Grows(k, y)
      BY <1>1, <3>1
    <3>4. Begins(node[x].path, node[y].path)
      BY <2>1, <3>2, <3>3, BeginsBoth
    <3>5. Start(y) \in Nat
      BY <2>1, NodePath
    <3>6. Len(node[x].path) <= Start(y)
      <4>1. CASE y = k
        BY <3>2, <4>1
      <4>2. CASE y # k
        <5>1. Len(node[k].path) <= Start(y)
          BY <3>3, <4>2
        <5>2. Len(node[x].path) <= Len(node[k].path)
          BY <3>2 DEF Begins
        <5>3. \A a, b, c \in Nat : a <= b /\ b <= c => a <= c
          OBVIOUS
        <5>4. Len(node[x].path) \in Nat /\ Len(node[k].path) \in Nat
          <6>1. node[x].path \in Seq(Char) /\ node[k].path \in Seq(Char)
            BY <3>1, KidPath
          <6> QED BY <6>1
        <5> HIDE DEF Grows
        <5> QED BY <3>5, <5>1, <5>2, <5>3, <5>4
      <4> QED BY <4>1, <4>2
    <3> QED BY <3>4, <3>6
  <2> QED BY <2>2, <2>3
<1>2. T = Live
  <2> HIDE DEF T
  <2>1. T \in SUBSET Live
    BY DEF T
  <2> QED BY <1>0, <1>1, <2>1, WoodInduction
<1>3. m \in Live
  BY <1>0, WoodBelow
<1> QED BY <1>2, <1>3

-----------------------------------------------------------------------------
(* Searching a radix tree.                                                 *)

\* The fragment of node k, not a root, begins as the key goes on after i characters.
HeadAt(k, key, i) == i < Len(key) /\ node[k].frag[1] = key[i + 1]

\* What a fragment shares with the rest of the key, in terms of the key.
LEMMA SharedIs ==
  ASSUME Grove, NEW n \in Live, NEW key \in Seq(Char), NEW i \in 0 .. Len(key)
  PROVE  LET cp == Shared(n, key, i)  flen == Len(node[n].frag) IN
         /\ cp \in Nat /\ flen \in Nat /\ cp <= flen /\ i + cp \in 0 .. Len(key)
         /\ \A j \in 1 .. cp : node[n].frag[j] = key[i + j]
         /\ cp = flen \/ i + cp = Len(key) \/ node[n].frag[cp + 1] # key[i + cp + 1]
<1> DEFINE rest == Rest(key, i)
           frag == node[n].frag
           cp   == Shared(n, key, i)
<1>1. /\ frag \in Seq(Char) /\ rest \in Seq(Char) /\ Len(rest) = Len(key) - i
      /\ \A j \in 1 .. Len(key) - i : rest[j] = key[i + j]
      /\ cp \in Nat /\ i + cp \in 0 .. Len(key)
  <2>1. Wood
    BY DEF Grove
  <2>2. /\ node[n].frag \in Seq(Char) /\ Drop(key, i) \in Seq(Char)
        /\ Len(Drop(key, i)) = Len(key) - i
        /\ \A j \in 1 .. Len(key) - i : Drop(key, i)[j] = key[i + j]
    BY NodePath, LastPart
  <2>3. cp \in Nat /\ i + cp \in 0 .. Len(key)
    BY <2>1, ChildAsked DEF Rest, Shared
  <2> HIDE DEF cp
  <2> QED BY <2>2, <2>3 DEF Rest
<1>2. /\ cp <= Len(frag) /\ cp <= Len(rest)
      /\ \A j \in 1 .. cp : frag[j] = rest[j]
      /\ cp = Len(frag) \/ cp = Len(rest) \/ frag[cp + 1] # rest[cp + 1]
  <2>1. cp = CommonPrefix(frag, rest)
    BY DEF Shared
  <2> HIDE DEF rest, frag, cp
  <2> QED BY <1>1, <2>1, CommonPrefixIs
<1>3. Len(frag) \in Nat
  BY <1>1
<1> HIDE DEF rest, frag, cp
<1>4. \A j \in 1 .. cp : frag[j] = key[i + j]
  BY <1>1, <1>2
<1>5. ASSUME cp # Len(frag), i + cp # Len(key) PROVE frag[cp + 1] # key[i + cp + 1]
  <2>1. cp # Len(rest)
    BY <1>1, <1>5
  <2>2. PICK j \in 1 .. Len(key) - i : j = cp + 1 /\ i + j = i + cp + 1
    <3>1. cp + 1 \in 1 .. Len(key) - i /\ i + (cp + 1) = i + cp + 1
      BY <1>1, <1>5
    <3> QED BY <3>1
  <2> QED BY <1>1, <1>2, <1>5, <2>1, <2>2
<1> QED BY <1>1, <1>2, <1>3, <1>4, <1>5 DEF frag, cp

\* They share something if they begin alike.
LEMMA SharesHead ==
  ASSUME Grove, NEW n \in Live, Titled(n), NEW key \in Seq(Char), NEW i \in 0 .. Len(key)
  PROVE  Shared(n, key, i) # 0 <=> HeadAt(n, key, i)
<1> DEFINE cp == Shared(n, key, i)  flen == Len(node[n].frag)
<1>1. /\ cp \in Nat /\ flen \in Nat /\ cp <= flen /\ i + cp \in 0 .. Len(key)
      /\ \A j \in 1 .. cp : node[n].frag[j] = key[i + j]
      /\ cp = flen \/ i + cp = Len(key) \/ node[n].frag[cp + 1] # key[i + cp + 1]
  BY SharedIs
<1>2. flen # 0
  BY NodePath
<1> HIDE DEF cp, flen
<1>3. ASSUME cp # 0 PROVE HeadAt(n, key, i)
  <2>1. 1 \in 1 .. cp /\ i < Len(key)
    BY <1>1, <1>3
  <2> QED BY <1>1, <2>1 DEF HeadAt
<1>4. ASSUME cp = 0 PROVE ~ HeadAt(n, key, i)
  BY <1>1, <1>2, <1>4 DEF HeadAt
<1> QED BY <1>3, <1>4 DEF cp

\* A node other than a root has an answer exactly if its fragment begins alike.
LEMMA KidHits ==
  ASSUME Grove, NEW key \in Seq(Char), NEW f, Searches(f, key),
         NEW n \in Live, Titled(n), NEW i \in 0 .. Len(key)
  PROVE  IsHit(f[n][i]) <=> HeadAt(n, key, i)
<1> DEFINE cp == Shared(n, key, i)
           as == Answers(f, n, key, i)
           r  == f[n][i]
<1>1. /\ Len(node[n].kids) \in Nat
      /\ DOMAIN node[n].kids = 1 .. Len(node[n].kids)
  BY ChildAsked DEF Grove
<1>2. DOMAIN as = 1 .. Len(node[n].kids)
  BY <1>1 DEF Answers
<1>3. cp \in Nat /\ (cp # 0 <=> HeadAt(n, key, i))
  BY SharedIs, SharesHead
<1>4. node[n].frag # <<>>
  BY DEF Grove, Radix
<1>5. r = IF cp = 0 THEN Miss
          ELSE IF node[n].frag = Rest(key, i) THEN Matched(n)
          ELSE IF cp < Len(node[n].frag) /\ Len(Rest(key, i)) < Len(node[n].frag)
            THEN Partial(n, cp)
          ELSE FirstHit(as, Partial(n, cp))
  BY <1>4, FindAtCases DEF Searches, Grove
<1> HIDE DEF as, cp, r
<1>6. cp # 0 => IsHit(Matched(n)) /\ IsHit(Partial(n, cp))
  BY <1>3 DEF IsHit, Matched, Partial
<1>7. ~ IsHit(Miss)
  BY DEF IsHit, Miss
<1>8. cp # 0 => IsHit(FirstHit(as, Partial(n, cp)))
  <2> DEFINE N == Len(node[n].kids)  o == Partial(n, cp)
  <2> HIDE DEF N, o
  <2>1. \/ FirstHit(as, o) = o
        \/ \E j \in 1 .. N : FirstHit(as, o) = as[j] /\ IsHit(as[j])
    BY <1>1, <1>2, FirstHitIs DEF N
  <2> QED BY <1>6, <2>1 DEF o
<1> QED BY <1>3, <1>5, <1>6, <1>7, <1>8 DEF r

\* r is what the children of n say of the key after j characters, or o if none begins
\* alike.
Answered(f, n, key, j, r, o) ==
  \/ r = o /\ \A k \in Range(node[n].kids) : ~ HeadAt(k, key, j)
  \/ \E k \in Range(node[n].kids) : r = f[k][j] /\ HeadAt(k, key, j)

\* The children answer for the node: the first hit among them is the only one there can be.
LEMMA KidsAnswer ==
  ASSUME Grove, NEW key \in Seq(Char), NEW f, Searches(f, key),
         NEW n \in Live, NEW i \in 0 .. Len(key), NEW o
  PROVE  Answered(f, n, key, i + Shared(n, key, i), FirstHit(Answers(f, n, key, i), o), o)
<1> DEFINE j  == i + Shared(n, key, i)
           as == Answers(f, n, key, i)
           N  == Len(node[n].kids)
           kid(q) == node[n].kids[q]
<1>1. /\ N \in Nat /\ DOMAIN node[n].kids = 1 .. N
      /\ \A q \in 1 .. N : kid(q) \in Range(node[n].kids) /\ kid(q) \in Live /\ Titled(kid(q))
  <2>1. Wood /\ \A k \in Range(node[n].kids) : k \in Live /\ Titled(k)
    BY KidPath DEF Grove
  <2> QED BY <2>1, ChildAsked
<1>2. DOMAIN as = 1 .. N /\ \A q \in 1 .. N : as[q] = f[kid(q)][j]
  BY <1>1 DEF Answers
<1>3. \A k \in Range(node[n].kids) : \E q \in 1 .. N : k = kid(q)
  BY <1>1 DEF Range
<1>4. j \in 0 .. Len(key)
  BY SharedIs
<1> HIDE DEF as, j, N
<1>5. \A q \in 1 .. N : IsHit(as[q]) <=> HeadAt(kid(q), key, j)
  <2> SUFFICES ASSUME NEW q \in 1 .. N PROVE IsHit(as[q]) <=> HeadAt(kid(q), key, j)
    OBVIOUS
  <2>1. kid(q) \in Live /\ Titled(kid(q)) /\ as[q] = f[kid(q)][j]
    BY <1>1, <1>2
  <2> QED BY <1>4, <2>1, KidHits
<1>6. \/ FirstHit(as, o) = o /\ \A q \in 1 .. N : ~ IsHit(as[q])
      \/ \E q \in 1 .. N : FirstHit(as, o) = as[q] /\ IsHit(as[q])
  BY <1>1, <1>2, FirstHitIs, ZenonT(40)
<1>7. CASE FirstHit(as, o) = o /\ \A q \in 1 .. N : ~ IsHit(as[q])
  <2>1. \A k \in Range(node[n].kids) : ~ HeadAt(k, key, j)
    BY <1>3, <1>5, <1>7
  <2> QED BY <1>7, <2>1 DEF Answered, as, j
<1>8. CASE \E q \in 1 .. N : FirstHit(as, o) = as[q] /\ IsHit(as[q])
  <2>1. PICK q \in 1 .. N : FirstHit(as, o) = as[q] /\ IsHit(as[q])
    BY <1>8
  <2>2. kid(q) \in Range(node[n].kids) /\ as[q] = f[kid(q)][j] /\ HeadAt(kid(q), key, j)
    BY <1>1, <1>2, <1>5, <2>1
  <2> HIDE DEF kid
  <2> QED BY <2>1, <2>2 DEF Answered, as, j
<1> QED BY <1>6, <1>7, <1>8

\* Only one child of a node begins with a character.
LEMMA OneKidBegins ==
  ASSUME Grove, NEW n \in Live, NEW key, NEW j,
         NEW k \in Range(node[n].kids), NEW q \in Range(node[n].kids),
         HeadAt(k, key, j), HeadAt(q, key, j)
  PROVE  k = q
BY DEF Grove, Radix, HeadAt

\* What a search answers at a node.
LEMMA NodeAnswer ==
  ASSUME Grove, NEW key \in Seq(Char), NEW f, Searches(f, key),
         NEW n \in Live, NEW i \in 0 .. Len(key)
  PROVE  LET r == f[n][i]  cp == Shared(n, key, i)  flen == Len(node[n].frag) IN
         /\ ~ Titled(n) => cp = 0 /\ Answered(f, n, key, i, r, Miss)
         /\ Titled(n) =>
              \/ r = Miss /\ cp = 0
              \/ r = Matched(n) /\ cp # 0 /\ node[n].frag = Rest(key, i)
              \/ r = Partial(n, cp) /\ cp # 0 /\ cp < flen /\ Len(key) - i < flen
              \/ /\ Answered(f, n, key, i + cp, r, Partial(n, cp)) /\ cp # 0
                 /\ node[n].frag # Rest(key, i) /\ (cp = flen \/ Len(key) - i >= flen)
<1> DEFINE r == f[n][i]  cp == Shared(n, key, i)  flen == Len(node[n].frag)
           as == Answers(f, n, key, i)
           plen == Len(Rest(key, i))
<1>1. r = IF node[n].frag = <<>> THEN FirstHit(as, Miss)
          ELSE IF cp = 0 THEN Miss
          ELSE IF node[n].frag = Rest(key, i) THEN Matched(n)
          ELSE IF cp < flen /\ plen < flen THEN Partial(n, cp)
          ELSE FirstHit(as, Partial(n, cp))
  BY FindAtCases DEF Searches, Grove
<1>2. cp \in Nat /\ flen \in Nat /\ cp <= flen
  BY SharedIs
<1>3. /\ Answered(f, n, key, i + cp, FirstHit(as, Miss), Miss)
      /\ Answered(f, n, key, i + cp, FirstHit(as, Partial(n, cp)), Partial(n, cp))
  BY KidsAnswer
<1>4. plen \in Nat /\ plen = Len(key) - i
  <2>1. Drop(key, i) \in Seq(Char) /\ Len(Drop(key, i)) = Len(key) - i
    BY LastPart
  <2> QED BY <2>1 DEF Rest
<1> HIDE DEF r, cp, as, plen
<1>5. CASE ~ Titled(n)
  <2>1. node[n].frag = <<>>
    BY <1>5, NodePath
  <2>2. cp = 0
    BY <1>2, <2>1
  <2>3. i + cp = i
    BY <2>2
  <2> QED BY <1>1, <1>3, <1>5, <2>1, <2>2, <2>3 DEF r, cp
<1>6. CASE Titled(n)
  <2>1. node[n].frag # <<>>
    BY <1>6 DEF Grove, Radix
  <2>2. ~ (cp < flen) => cp = flen
    BY <1>2
  <2>3. ~ (plen < flen) => Len(key) - i >= flen
    BY <1>2, <1>4
  <2>4. plen < flen => Len(key) - i < flen
    BY <1>4
  <2> HIDE DEF flen
  <2> QED BY <1>1, <1>3, <1>6, <2>1, <2>2, <2>3, <2>4 DEF r, cp, flen
<1> QED BY <1>5, <1>6

\* A key that begins with the path of n takes the search through n: it shares all of n's
\* fragment with the rest of the key.
LEMMA OnTheWay ==
  ASSUME Grove, NEW n \in Live, NEW key \in Seq(Char), Begins(node[n].path, key)
  PROVE  /\ Start(n) \in 0 .. Len(key)
         /\ Shared(n, key, Start(n)) = Len(node[n].frag)
         /\ Start(n) + Len(node[n].frag) = Len(node[n].path)
         /\ Len(node[n].path) \in 0 .. Len(key)
         /\ \A j \in 1 .. Len(node[n].frag) : node[n].frag[j] = key[Start(n) + j]
<1> DEFINE flen == Len(node[n].frag)  i == Start(n)  cp == Shared(n, key, i)
<1>1. Len(key) \in Nat
  OBVIOUS
<1>2. /\ node[n].path \in Seq(Char) /\ i \in Nat /\ flen \in Nat
      /\ Len(node[n].path) = i + flen
      /\ \A j \in 1 .. flen : node[n].path[i + j] = node[n].frag[j]
  BY NodePath
<1>3. Len(node[n].path) <= Len(key) /\ \A j \in 1 .. Len(node[n].path) : node[n].path[j] = key[j]
  BY DEF Begins
<1>4. i \in 0 .. Len(key) /\ i + flen <= Len(key)
  BY <1>1, <1>2, <1>3
<1>5. /\ cp \in Nat /\ cp <= flen /\ i + cp \in 0 .. Len(key)
      /\ cp = flen \/ i + cp = Len(key) \/ node[n].frag[cp + 1] # key[i + cp + 1]
  BY <1>4, SharedIs
<1> HIDE DEF cp, i, flen
<1>6. \A j \in 1 .. flen : node[n].frag[j] = key[i + j]
  <2> SUFFICES ASSUME NEW j \in 1 .. flen PROVE node[n].frag[j] = key[i + j]
    OBVIOUS
  <2>1. i + j \in 1 .. Len(node[n].path)
    BY <1>2
  <2> QED BY <1>2, <1>3, <2>1
<1>7. cp = flen
  <2> SUFFICES ASSUME cp # flen PROVE FALSE
    OBVIOUS
  <2>1. cp < flen /\ i + cp < Len(key)
    BY <1>1, <1>2, <1>4, <1>5
  <2>2. PICK j \in 1 .. flen : j = cp + 1 /\ i + j = i + cp + 1
    <3>1. cp + 1 \in 1 .. flen /\ i + (cp + 1) = i + cp + 1
      BY <1>2, <1>5, <2>1
    <3> QED BY <3>1
  <2>3. node[n].frag[j] = key[i + j]
    BY <1>6, <2>2
  <2> QED BY <1>5, <2>1, <2>2, <2>3
<1> QED BY <1>1, <1>2, <1>3, <1>4, <1>6, <1>7 DEF cp, i, flen

\* A child of n whose path begins the key is the one that begins as the key goes on
\* after n.
LEMMA KidOnTheWay ==
  ASSUME Grove, NEW n \in Live, NEW k \in Range(node[n].kids),
         NEW key \in Seq(Char), Begins(node[k].path, key)
  PROVE  HeadAt(k, key, Len(node[n].path))
<1> DEFINE i == Start(k)  flen == Len(node[k].frag)
<1>1. /\ k \in Live /\ Titled(k) /\ i = Len(node[n].path) /\ i \in Nat /\ flen \in Nat \ {0}
      /\ Len(node[k].path) = i + flen
      /\ \A j \in 1 .. flen : node[k].path[i + j] = node[k].frag[j]
  BY KidPath
<1>2. Len(node[k].path) <= Len(key) /\ \A j \in 1 .. Len(node[k].path) : node[k].path[j] = key[j]
  BY DEF Begins
<1>3. Len(key) \in Nat
  OBVIOUS
<1> HIDE DEF i, flen
<1>4. 1 \in 1 .. flen /\ i + 1 \in 1 .. Len(node[k].path) /\ i < Len(key)
  BY <1>1, <1>2, <1>3
<1>5. node[k].frag[1] = key[i + 1]
  BY <1>1, <1>2, <1>4
<1> QED BY <1>1, <1>4, <1>5 DEF HeadAt

\* So the search answers what node m answers, for every node m of the tree whose path
\* begins the key.
LEMMA PassesThrough ==
  ASSUME Grove, NEW key \in Seq(Char), NEW f, Searches(f, key),
         NEW top \in Live, ~ Titled(top), NEW m \in Subtree(top), Begins(node[m].path, key)
  PROVE  f[top][0] = f[m][Start(m)]
<1>1. Wood /\ m \in Live
  BY WoodBelow DEF Grove
<1> DEFINE T == {n \in Live : m \in Subtree(n) => f[n][Start(n)] = f[m][Start(m)]}
<1>2. ASSUME NEW n \in Live, Range(node[n].kids) \subseteq T, m \in Subtree(n), m # n
      PROVE  f[n][Start(n)] = f[m][Start(m)]
  <2> DEFINE i == Start(n)  cp == Shared(n, key, i)  flen == Len(node[n].frag)
             r == f[n][i]  plen == Len(node[n].path)
  <2>1. PICK k \in Range(node[n].kids) : m \in Subtree(k)
    BY <1>1, <1>2, BelowAKid
  <2>2. k \in Live /\ node[k].path \in Seq(Char) /\ node[n].path \in Seq(Char)
        /\ node[m].path \in Seq(Char)
    BY <1>1, <2>1, KidPath, NodePath
  <2>3. Begins(node[k].path, key) /\ Begins(node[n].path, key)
    <3>1. Begins(node[k].path, node[m].path) /\ Begins(node[n].path, node[m].path)
      BY <1>2, <2>1, <2>2, PathsGrow
    <3> QED BY <2>2, <3>1, BeginsBoth
  <2>4. HeadAt(k, key, plen)
    BY <2>1, <2>3, KidOnTheWay
  <2>5. \A q \in Range(node[n].kids) : HeadAt(q, key, plen) => q = k
    BY <2>4, OneKidBegins
  <2>6. Start(k) = plen /\ f[k][Start(k)] = f[m][Start(m)]
    BY <1>2, <2>1, KidPath
  <2>7. ASSUME NEW o, Answered(f, n, key, plen, r, o) PROVE r = f[m][Start(m)]
    <3>1. r = f[k][plen]
      <4> HIDE DEF r, plen
      <4> QED BY <2>4, <2>5, <2>7 DEF Answered
    <3> HIDE DEF r, plen
    <3> QED BY <2>6, <3>1
  <2>8. i \in 0 .. Len(key) /\ cp = flen /\ i + flen = plen /\ plen \in 0 .. Len(key)
    BY <2>3, OnTheWay
  <2>9. i \in Nat /\ flen \in Nat
    BY NodePath
  <2>10. CASE ~ Titled(n)
    <3>1. cp = 0 /\ Answered(f, n, key, i, r, Miss)
      BY <2>8, <2>10, NodeAnswer
    <3>2. i = plen
      <4> HIDE DEF i, plen, cp, flen
      <4> QED BY <2>8, <2>9, <3>1
    <3> QED BY <2>7, <3>1, <3>2
  <2>11. CASE Titled(n)
    <3>1. flen # 0
      BY <2>11, NodePath
    <3>2. \/ r = Miss /\ cp = 0
          \/ r = Matched(n) /\ cp # 0 /\ node[n].frag = Rest(key, i)
          \/ r = Partial(n, cp) /\ cp # 0 /\ cp < flen /\ Len(key) - i < flen
          \/ /\ Answered(f, n, key, i + cp, r, Partial(n, cp)) /\ cp # 0
             /\ node[n].frag # Rest(key, i) /\ (cp = flen \/ Len(key) - i >= flen)
      BY <2>8, <2>11, NodeAnswer
    <3>3. node[n].frag # Rest(key, i)
      <4>1. Len(Drop(key, i)) = Len(key) - i
        BY <2>8, LastPart
      <4>2. plen < Len(key)
        BY <2>4 DEF HeadAt
      <4>3. Len(key) - i # flen
        <5> HIDE DEF i, flen, plen
        <5>1. Len(key) \in Nat
          OBVIOUS
        <5> QED BY <2>8, <2>9, <4>2, <5>1
      <4> QED BY <4>1, <4>3 DEF Rest
    <3>4. ~ (cp < flen)
      <4> HIDE DEF cp, flen
      <4> QED BY <2>8, <2>9
    <3>5. Answered(f, n, key, i + cp, r, Partial(n, cp))
      <4> HIDE DEF r, i, cp, flen
      <4> QED BY <2>8, <3>1, <3>2, <3>3, <3>4
    <3>6. i + cp = plen
      <4> HIDE DEF i, cp, flen, plen
      <4> QED BY <2>8
    <3> QED BY <2>7, <3>5, <3>6
  <2> QED BY <2>10, <2>11
<1>3. \A n \in Live : Range(node[n].kids) \subseteq T => n \in T
  BY <1>2
<1>4. T = Live
  <2> HIDE DEF T
  <2>1. T \in SUBSET Live
    BY DEF T
  <2> QED BY <1>1, <1>3, <2>1, WoodInduction
<1>5. Start(top) = 0
  BY <1>1, NodePath
<1> QED BY <1>1, <1>4, <1>5

\* In a radix tree a search for the path of a node other than its root finds that node.
LEMMA PathFound ==
  ASSUME Grove, NEW top \in Live, ~ Titled(top), NEW m \in Subtree(top), Titled(m)
  PROVE  Find(top, node[m].path) = Matched(m)
<1> DEFINE key == node[m].path  i == Start(m)  cp == Shared(m, key, i)
           flen == Len(node[m].frag)
<1>1. Wood /\ m \in Live
  BY WoodBelow DEF Grove
<1>2. key \in Seq(Char) /\ Begins(node[m].path, key)
  BY <1>1, NodePath, BeginsBoth
<1>3. PICK f : Searches(f, key) /\ Find(top, key) = f[top][0]
  BY <1>1, <1>2, FindIs
<1>4. Find(top, key) = f[m][i]
  BY <1>2, <1>3, PassesThrough
<1>5. /\ i \in 0 .. Len(key) /\ cp = flen /\ i + flen = Len(key)
      /\ \A j \in 1 .. flen : node[m].frag[j] = key[i + j]
  BY <1>1, <1>2, OnTheWay
<1>6. node[m].frag \in Seq(Char) /\ flen \in Nat /\ flen # 0 /\ i \in Nat
  BY <1>1, NodePath
<1>7. Drop(key, i) \in Seq(Char) /\ Len(Drop(key, i)) = Len(key) - i
      /\ \A j \in 1 .. Len(key) - i : Drop(key, i)[j] = key[i + j]
  BY <1>2, <1>5, LastPart
<1>8. Len(key) - i = flen
  <2> HIDE DEF key, i, flen
  <2> QED BY <1>5, <1>6
<1>9. node[m].frag = Rest(key, i)
  <2> HIDE DEF key, i
  <2> QED BY <1>5, <1>6, <1>7, <1>8, SeqEqual DEF Rest
<1>10. LET a == f[m][i] IN
       \/ a = Miss /\ cp = 0
       \/ a = Matched(m) /\ cp # 0 /\ node[m].frag = Rest(key, i)
       \/ a = Partial(m, cp) /\ cp # 0 /\ cp < flen /\ Len(key) - i < flen
       \/ /\ Answered(f, m, key, i + cp, a, Partial(m, cp)) /\ cp # 0
          /\ node[m].frag # Rest(key, i) /\ (cp = flen \/ Len(key) - i >= flen)
  BY <1>1, <1>2, <1>3, <1>5, NodeAnswer
<1> HIDE DEF key, i, cp, flen
<1> QED BY <1>4, <1>5, <1>6, <1>9, <1>10 DEF key

-----------------------------------------------------------------------------
(* The tree at Root.                                                       *)

\* A tree of nodes that is a radix tree.
Store == Tree /\ RootHasNoTitle /\ Radix

\* Every node but the root is a child.
LEMMA HasParent ==
  ASSUME Tree, NEW n \in Live \ {Root}
  PROVE  \E d \in Live : n \in Range(node[d].kids)
<1> SUFFICES ASSUME \A d \in Live : n \notin Range(node[d].kids) PROVE FALSE
  OBVIOUS
<1> DEFINE S == Live \ {n}
<1>1. Root \in S /\ \A m \in S : Range(node[m].kids) \subseteq S
  BY DEF Tree, TypeOK, HeapTypeOK, HeapIsTree, NoDanglingKid
<1>2. Live \subseteq S
  BY <1>1, SubtreeLeast DEF Tree, HeapIsTree, AllReachable
<1> QED BY <1>2

\* It is a grove of one tree: only the root has no title.
LEMMA StoreIsGrove ==
  ASSUME Store
  PROVE  /\ Grove /\ Root \in Live /\ ~ Titled(Root) /\ Live = Subtree(Root)
         /\ \A n \in Live \ {Root} : Titled(n)
<1>1. Grove /\ Root \in Live /\ ~ Titled(Root)
  BY TreeIsWood DEF Store, Grove, RootHasNoTitle, Titled, Tree, TypeOK, HeapTypeOK
<1>2. Live = Subtree(Root)
  BY <1>1, WoodBelow DEF Store, Tree, HeapIsTree, AllReachable, Grove
<1>3. ASSUME NEW n \in Live \ {Root} PROVE Titled(n)
  BY <1>1, <1>3, HasParent, KidPath DEF Store
<1> QED BY <1>1, <1>2, <1>3

\* RadixTree says of it what Radix does.
LEMMA RadixMeans ==
  ASSUME Tree, RootHasNoTitle
  PROVE  RadixTree <=> Radix
<1>0. /\ \A n \in Live : node[n] \in Fields
      /\ \A n \in Live : /\ node[n].kids \in Seq(Node)
                         /\ DOMAIN node[n].kids = 1 .. Len(node[n].kids)
  BY DEF Tree, TypeOK, HeapTypeOK, Fields
<1>1. \A n \in Live : Range(node[n].kids) \subseteq Live \ {Root}
  BY DEF Tree, HeapIsTree, NoDanglingKid
<1>2. ASSUME NEW n \in Live
      PROVE  (\A i, j \in DOMAIN node[n].kids : i # j =>
                Head(node[node[n].kids[i]].frag) # Head(node[node[n].kids[j]].frag))
             <=> \A k, q \in Range(node[n].kids) :
                   node[k].frag[1] = node[q].frag[1] => k = q
  <2>1. \A s : Head(s) = s[1]
    OBVIOUS
  <2>2. \A i, j \in DOMAIN node[n].kids : node[n].kids[i] = node[n].kids[j] => i = j
    BY DEF Tree, HeapIsTree, OneParent
  <2> QED BY <2>1, <2>2 DEF Range
<1> DEFINE Heads   == \A n \in Live : \A k, q \in Range(node[n].kids) :
                        node[k].frag[1] = node[q].frag[1] => k = q
           Joined  == \A n \in Live : \A k \in Range(node[n].kids) :
                        node[k].path = node[n].path \o node[k].frag
           Nonempty == \A n \in Live \ {Root} : node[n].frag # <<>>
<1>3. RadixTree <=> Nonempty /\ Joined /\ Heads
  BY <1>2 DEF RadixTree, PathsConcatenate, SiblingsDiffer
<1>4. Radix => Nonempty /\ Joined /\ Heads
  <2> SUFFICES ASSUME Radix PROVE Nonempty /\ Joined /\ Heads
    OBVIOUS
  <2>1. Nonempty
    BY StoreIsGrove DEF Store, Radix
  <2>2. Joined
    BY DEF Radix, KidExtends
  <2> QED BY <2>1, <2>2 DEF Radix
<1>5. ASSUME Nonempty, Joined, Heads PROVE Radix
  <2>1. ASSUME NEW k \in Live \ {Root}
        PROVE  Titled(k) /\ IsSuffix(node[k].frag, node[k].path)
    <3>1. PICK n \in Live : k \in Range(node[n].kids)
      BY HasParent
    <3>2. /\ node[k].path = node[n].path \o node[k].frag /\ node[k].frag # <<>>
          /\ node[n].path \in Seq(Char) /\ node[k].frag \in Seq(Char)
          /\ node[k].path \in Seq(Char)
      BY <1>0, <1>5, <3>1 DEF Fields
    <3>3. IsSuffix(node[k].frag, node[k].path)
      BY <3>2, AppendEnds
    <3>4. node[k].path # <<>>
      <4>1. Len(node[k].frag) \in Nat /\ Len(node[k].frag) # 0
            /\ Len(node[n].path) \in Nat
        BY <3>2
      <4>2. Len(node[k].path) = Len(node[n].path) + Len(node[k].frag)
        BY <3>2, ConcatMeans
      <4>3. Len(node[k].path) # 0
        <5>1. \A x, y \in Nat : y # 0 => x + y # 0
          OBVIOUS
        <5> QED BY <4>1, <4>2, <5>1, Zenon
      <4> QED BY <4>3
    <3> QED BY <3>3, <3>4 DEF Titled
  <2>2. ~ Titled(Root) /\ IsSuffix(node[Root].frag, node[Root].path)
    <3>1. node[Root].frag = <<>> /\ node[Root].path = <<>> /\ <<>> \in Seq(Char)
      BY DEF RootHasNoTitle
    <3>2. <<>> = <<>> \o <<>>
      OBVIOUS
    <3> QED BY <3>1, <3>2, AppendEnds DEF Titled
  <2>3. \A n \in Live : \A k \in Range(node[n].kids) : KidExtends(n, k)
    BY <1>1, <1>5, <2>1 DEF KidExtends
  <2>4. /\ \A n \in Live : IsSuffix(node[n].frag, node[n].path)
        /\ \A n \in Live : Titled(n) => node[n].frag # <<>>
    BY <1>5, <2>1, <2>2
  <2> QED BY <1>5, <2>3, <2>4 DEF Radix
<1> QED BY <1>3, <1>4, <1>5

\* No two of its nodes have the same path.
LEMMA PathsDiffer ==
  ASSUME Store, NEW m \in Live, NEW n \in Live, node[m].path = node[n].path
  PROVE  m = n
<1>1. \A x \in Live \ {Root} : node[x].path # <<>>
  BY StoreIsGrove DEF Titled
<1>2. node[Root].path = <<>>
  BY DEF Store, RootHasNoTitle
<1>3. CASE m # Root /\ n # Root
  <2>1. Matched(m) = Matched(n)
    BY <1>3, StoreIsGrove, PathFound
  <2> QED BY <2>1 DEF Matched
<1> QED BY <1>1, <1>2, <1>3

\* The nodes below n are the ones whose path begins with n's.
LEMMA BelowMeansBegins ==
  ASSUME Store, NEW n \in Live, NEW m \in Live
  PROVE  m \in Subtree(n) <=> Begins(node[n].path, node[m].path)
<1>0. Grove /\ Wood /\ Live = Subtree(Root)
  BY StoreIsGrove DEF Grove
<1>1. m \in Subtree(n) => Begins(node[n].path, node[m].path)
  BY <1>0, PathsGrow
<1>2. ASSUME Begins(node[n].path, node[m].path) PROVE m \in Subtree(n)
  <2> DEFINE T == {x \in Live : n \in Subtree(x) /\ m \in Subtree(x) => m \in Subtree(n)}
  <2>1. ASSUME NEW x \in Live, Range(node[x].kids) \subseteq T,
               n \in Subtree(x), m \in Subtree(x)
        PROVE  m \in Subtree(n)
    <3>1. CASE n = x
      BY <2>1, <3>1
    <3>2. CASE n # x
      <4>1. PICK k \in Range(node[x].kids) : n \in Subtree(k)
        BY <1>0, <2>1, <3>2, BelowAKid
      <4>2. HeadAt(k, node[n].path, Len(node[x].path))
        <5>1. Begins(node[k].path, node[n].path) /\ node[n].path \in Seq(Char)
          BY <1>0, <4>1, KidPath, PathsGrow, NodePath
        <5> QED BY <1>0, <4>1, <5>1, KidOnTheWay
      <4>3. Len(node[x].path) < Len(node[n].path) /\ Len(node[x].path) \in Nat
            /\ node[m].path \in Seq(Char) /\ node[n].path \in Seq(Char)
        <5>1. node[x].path \in Seq(Char) /\ node[n].path \in Seq(Char) /\ node[m].path \in Seq(Char)
          BY <1>0, NodePath
        <5> QED BY <4>2, <5>1 DEF HeadAt
      <4>4. HeadAt(k, node[m].path, Len(node[x].path))
        <5>1. /\ Len(node[n].path) <= Len(node[m].path)
              /\ \A i \in 1 .. Len(node[n].path) : node[n].path[i] = node[m].path[i]
          BY <1>2 DEF Begins
        <5>2. PICK i \in 1 .. Len(node[n].path) : i = Len(node[x].path) + 1
          BY <4>3
        <5>3. Len(node[x].path) < Len(node[m].path)
          <6>1. Len(node[n].path) <= Len(node[m].path)
            BY <5>1
          <6>2. Len(node[n].path) \in Nat /\ Len(node[m].path) \in Nat
            BY <4>3
          <6>3. Len(node[x].path) < Len(node[n].path) /\ Len(node[x].path) \in Nat
            BY <4>3
          <6>4. \A i1, i2, i3 \in Nat : i1 < i2 /\ i2 <= i3 => i1 < i3
            OBVIOUS
          <6> QED BY <6>1, <6>2, <6>3, <6>4, Zenon
        <5>4. node[n].path[i] = node[m].path[i]
          BY <5>1
        <5> QED BY <4>2, <5>2, <5>3, <5>4 DEF HeadAt
      <4>5. m # x
        <5> SUFFICES ASSUME m = x PROVE FALSE
          OBVIOUS
        <5>1. Len(node[x].path) < Len(node[x].path)
          BY <4>4 DEF HeadAt
        <5> QED BY <4>3, <5>1
      <4>6. PICK q \in Range(node[x].kids) : m \in Subtree(q)
        BY <1>0, <2>1, <4>5, BelowAKid
      <4>7. HeadAt(q, node[m].path, Len(node[x].path))
        <5>1. Begins(node[q].path, node[m].path) /\ node[m].path \in Seq(Char)
          BY <1>0, <4>6, KidPath, PathsGrow, NodePath
        <5> QED BY <1>0, <4>6, <5>1, KidOnTheWay
      <4>8. q = k
        BY <1>0, <4>4, <4>7, OneKidBegins
      <4> QED BY <2>1, <4>1, <4>6, <4>8
    <3> QED BY <3>1, <3>2
  <2>2. T = Live
    <3>1. \A x \in Live : Range(node[x].kids) \subseteq T => x \in T
      BY <2>1
    <3> HIDE DEF T
    <3>2. T \in SUBSET Live
      BY DEF T
    <3> QED BY <1>0, <3>1, <3>2, WoodInduction
  <2>3. Root \in Live /\ n \in Subtree(Root) /\ m \in Subtree(Root)
    BY <1>0, StoreIsGrove
  <2> QED BY <2>2, <2>3
<1> QED BY <1>1, <1>2

-----------------------------------------------------------------------------
(* Where a search ends that does not match.                                *)

\* The characters a partial match r has matched begin the key.
Fits(r, key) == /\ Start(r.ptr) + r.pms <= Len(key)
                /\ \A q \in 1 .. Start(r.ptr) + r.pms : node[r.ptr].path[q] = key[q]

\* The key goes on differently there: from the node's fragment, or from those of its
\* children.
Stops(r, key) ==
  IF r.pms = Len(node[r.ptr].frag)
  THEN \A k \in Range(node[r.ptr].kids) : ~ HeadAt(k, key, Len(node[r.ptr].path))
  ELSE Start(r.ptr) + r.pms < Len(key)
         => node[r.ptr].frag[r.pms + 1] # key[Start(r.ptr) + r.pms + 1]

\* r, an answer of node n, is about a node below n, and if it fits the key it stops there.
StopsBelow(r, n, key) ==
  IsHit(r) => /\ r.ptr \in Subtree(n)
              /\ ~ r.matched => /\ r.pms \in 1 .. Len(node[r.ptr].frag)
                                /\ Fits(r, key) => Stops(r, key)

\* An answer of a child that was asked out of step is about a node whose path does not
\* begin the key.
LEMMA OutOfStep ==
  ASSUME Grove, NEW key \in Seq(Char), NEW n \in Live, Start(n) \in 0 .. Len(key),
         Shared(n, key, Start(n)) < Len(node[n].frag),
         Len(key) - Start(n) >= Len(node[n].frag),
         NEW m \in Subtree(n), m # n, NEW pms \in Nat
  PROVE  ~ (/\ Start(m) + pms <= Len(key)
            /\ \A q \in 1 .. Start(m) + pms : node[m].path[q] = key[q])
<1> DEFINE i == Start(n)  cp == Shared(n, key, i)  flen == Len(node[n].frag)
           s == Start(m) + pms  plen == Len(node[n].path)
<1>1. /\ m \in Live /\ Begins(node[n].path, node[m].path) /\ plen <= Start(m)
  BY PathsGrow
<1>2. /\ i \in Nat /\ flen \in Nat /\ plen = i + flen
      /\ \A j \in 1 .. flen : node[n].path[i + j] = node[n].frag[j]
  BY NodePath
<1>3. Start(m) \in Nat
  BY <1>1, NodePath
<1>4. /\ cp \in Nat /\ cp <= flen /\ i + cp \in 0 .. Len(key)
      /\ cp = flen \/ i + cp = Len(key) \/ node[n].frag[cp + 1] # key[i + cp + 1]
  BY SharedIs
<1>5. cp < flen /\ Len(key) - i >= flen /\ Len(key) \in Nat
  OBVIOUS
<1> HIDE DEF i, cp, flen, plen
<1>6. i + cp # Len(key)
  BY <1>2, <1>4, <1>5
<1>7. PICK j \in 1 .. flen : j = cp + 1 /\ i + j = i + cp + 1 /\ i + j \in 1 .. plen
                             /\ i + j \in 1 .. s
  <2>1. cp + 1 \in 1 .. flen /\ i + (cp + 1) = i + cp + 1 /\ i + (cp + 1) \in 1 .. plen
    BY <1>2, <1>4, <1>5
  <2>2. plen <= s /\ plen \in Nat /\ s \in Nat
    <3> HIDE DEF Start
    <3> QED BY <1>1, <1>2, <1>3
  <2>3. i + (cp + 1) \in 1 .. s
    <3> HIDE DEF s
    <3> QED BY <1>2, <1>4, <2>1, <2>2
  <2> QED BY <2>1, <2>3
<1>8. node[m].path[i + j] = node[n].path[i + j]
  BY <1>1, <1>7 DEF Begins, plen
<1>9. node[n].frag[j] = node[n].path[i + j] /\ node[n].frag[j] # key[i + j]
  BY <1>2, <1>4, <1>5, <1>6, <1>7
<1> HIDE DEF s
<1>10. node[m].path[i + j] # key[i + j]
  BY <1>8, <1>9
<1> QED BY <1>7, <1>10 DEF s

\* What the search answers at a node asked in step with its path.
LEMMA Descent ==
  ASSUME Grove, NEW key \in Seq(Char), NEW f, Searches(f, key),
         NEW n \in Live,
         \A k \in Range(node[n].kids), j \in 0 .. Len(key) :
            IsHit(f[k][j]) => /\ f[k][j].ptr \in Subtree(k)
                              /\ ~ f[k][j].matched
                                   => f[k][j].pms \in 1 .. Len(node[f[k][j].ptr].frag),
         \A k \in Range(node[n].kids) :
            Start(k) \in 0 .. Len(key) => StopsBelow(f[k][Start(k)], k, key),
         Start(n) \in 0 .. Len(key)
  PROVE  StopsBelow(f[n][Start(n)], n, key)
<1> DEFINE i == Start(n)  cp == Shared(n, key, i)  flen == Len(node[n].frag)
           r == f[n][i]  plen == Len(node[n].path)
<1>0. Wood /\ n \in Subtree(n)
  BY WoodBelow DEF Grove
<1>1. /\ cp \in Nat /\ flen \in Nat /\ cp <= flen /\ i + cp \in 0 .. Len(key)
      /\ cp = flen \/ i + cp = Len(key) \/ node[n].frag[cp + 1] # key[i + cp + 1]
  BY SharedIs
<1>2. i \in Nat /\ plen = i + flen /\ Len(key) \in Nat
  BY NodePath
<1>3. StopsBelow(Miss, n, key) /\ StopsBelow(Matched(n), n, key)
  BY <1>0 DEF StopsBelow, Miss, Matched, IsHit
<1>4. ASSUME cp # 0, cp < flen \/ \A k \in Range(node[n].kids) : ~ HeadAt(k, key, i + cp)
      PROVE  StopsBelow(Partial(n, cp), n, key)
  <2>1. cp \in 1 .. flen
    <3> HIDE DEF cp, flen
    <3> QED BY <1>1, <1>4
  <2>2. Stops(Partial(n, cp), key)
    <3>1. CASE cp = flen
      <4>1. i + cp = plen /\ ~ (cp < flen)
        <5> HIDE DEF cp, flen, i, plen
        <5> QED BY <1>1, <1>2, <3>1
      <4> QED BY <1>4, <3>1, <4>1 DEF Stops, Partial
    <3>2. CASE cp # flen
      <4>1. i + cp < Len(key) => node[n].frag[cp + 1] # key[i + cp + 1]
        <5> HIDE DEF cp, flen, i
        <5> QED BY <1>1, <1>2, <3>2
      <4> QED BY <3>2, <4>1 DEF Stops, Partial
    <3> QED BY <3>1, <3>2
  <2> QED BY <1>0, <2>1, <2>2 DEF StopsBelow, Partial
<1>5. ASSUME NEW k \in Range(node[n].kids), i + cp = plen
      PROVE  StopsBelow(f[k][i + cp], n, key)
  <2>1. Start(k) = i + cp /\ k \in Live /\ Subtree(k) \subseteq Subtree(n)
    BY <1>0, <1>5, KidPath, WoodBelow
  <2>2. StopsBelow(f[k][i + cp], k, key)
    <3> HIDE DEF cp, i
    <3> QED BY <1>1, <2>1
  <2> QED BY <2>1, <2>2 DEF StopsBelow
<1>6. ASSUME NEW k \in Range(node[n].kids), cp < flen, Len(key) - i >= flen
      PROVE  StopsBelow(f[k][i + cp], n, key)
  <2> DEFINE a == f[k][i + cp]
  <2>1. /\ IsHit(a) => a.ptr \in Subtree(k)
        /\ IsHit(a) /\ ~ a.matched => a.pms \in 1 .. Len(node[a.ptr].frag)
    BY <1>1
  <2>2. Subtree(k) \subseteq Subtree(n) \ {n}
    BY <1>0, WoodBelow
  <2>3. ASSUME IsHit(a), ~ a.matched PROVE ~ Fits(a, key)
    <3>1. a.ptr \in Subtree(n) /\ a.ptr # n /\ a.pms \in Nat
      <4> HIDE DEF a
      <4> QED BY <2>1, <2>2, <2>3
    <3> HIDE DEF a
    <3> QED BY <1>6, <3>1, OutOfStep DEF Fits
  <2> HIDE DEF a
  <2> QED BY <2>1, <2>2, <2>3 DEF StopsBelow, a
<1>7. CASE ~ Titled(n)
  <2>1. cp = 0 /\ Answered(f, n, key, i, r, Miss) /\ flen = 0
    BY <1>7, NodeAnswer, NodePath
  <2>2. i + cp = plen /\ i + cp = i
    <3> HIDE DEF cp, i, plen, flen
    <3> QED BY <1>2, <2>1
  <2>3. r = Miss \/ \E k \in Range(node[n].kids) : r = f[k][i + cp]
    <3> HIDE DEF r, i, cp
    <3> QED BY <2>1, <2>2 DEF Answered
  <2> HIDE DEF cp, i, plen, r
  <2> QED BY <1>3, <1>5, <2>2, <2>3 DEF r, i
<1>8. CASE Titled(n)
  <2>1. \/ r = Miss /\ cp = 0
        \/ r = Matched(n) /\ cp # 0 /\ node[n].frag = Rest(key, i)
        \/ r = Partial(n, cp) /\ cp # 0 /\ cp < flen /\ Len(key) - i < flen
        \/ /\ Answered(f, n, key, i + cp, r, Partial(n, cp)) /\ cp # 0
           /\ node[n].frag # Rest(key, i) /\ (cp = flen \/ Len(key) - i >= flen)
    BY <1>8, NodeAnswer
  <2>2. ASSUME Answered(f, n, key, i + cp, r, Partial(n, cp)), cp # 0,
               cp = flen \/ Len(key) - i >= flen
        PROVE  StopsBelow(r, n, key)
    <3>1. CASE r = Partial(n, cp) /\ \A k \in Range(node[n].kids) : ~ HeadAt(k, key, i + cp)
      <4> HIDE DEF cp, i, r
      <4> QED BY <1>4, <2>2, <3>1
    <3>2. ASSUME NEW k \in Range(node[n].kids), r = f[k][i + cp] PROVE StopsBelow(r, n, key)
      <4>1. CASE cp = flen
        <5>1. i + cp = plen
          <6> HIDE DEF cp, i, flen, plen
          <6> QED BY <1>2, <4>1
        <5> HIDE DEF cp, i, r, plen
        <5> QED BY <1>5, <3>2, <5>1
      <4>2. CASE cp # flen
        <5>1. cp < flen /\ Len(key) - i >= flen
          <6> HIDE DEF cp, flen, i
          <6> QED BY <1>1, <2>2, <4>2
        <5> HIDE DEF cp, i, r, flen
        <5> QED BY <1>6, <3>2, <5>1
      <4> QED BY <4>1, <4>2
    <3> HIDE DEF r, cp, i
    <3> QED BY <2>2, <3>1, <3>2 DEF Answered
  <2> HIDE DEF cp, i, r, flen
  <2> QED BY <1>3, <1>4, <2>1, <2>2 DEF r, i
<1> QED BY <1>7, <1>8

\* What the search answers at a node, whatever it was asked.
LEMMA AnswersBelow ==
  ASSUME Grove, NEW key \in Seq(Char), NEW f, Searches(f, key),
         NEW n \in Live, NEW i \in 0 .. Len(key),
         \A k \in Range(node[n].kids), j \in 0 .. Len(key) :
            IsHit(f[k][j]) => /\ f[k][j].ptr \in Subtree(k) /\ Titled(f[k][j].ptr)
                              /\ ~ f[k][j].matched
                                   => f[k][j].pms \in 1 .. Len(node[f[k][j].ptr].frag)
  PROVE  IsHit(f[n][i]) => /\ f[n][i].ptr \in Subtree(n) /\ Titled(f[n][i].ptr)
                           /\ ~ f[n][i].matched
                                => f[n][i].pms \in 1 .. Len(node[f[n][i].ptr].frag)
<1> DEFINE cp == Shared(n, key, i)  flen == Len(node[n].frag)  r == f[n][i]
           Good(a, x) == IsHit(a) => /\ a.ptr \in Subtree(x) /\ Titled(a.ptr)
                                     /\ ~ a.matched => a.pms \in 1 .. Len(node[a.ptr].frag)
<1>0. Wood /\ n \in Subtree(n)
  BY WoodBelow DEF Grove
<1>1. cp \in Nat /\ flen \in Nat /\ cp <= flen /\ i + cp \in 0 .. Len(key)
  BY SharedIs
<1>2. Good(Miss, n) /\ (Titled(n) => Good(Matched(n), n))
  BY <1>0 DEF Miss, Matched, IsHit
<1>3. Titled(n) /\ cp # 0 => Good(Partial(n, cp), n)
  <2> HIDE DEF cp
  <2> QED BY <1>0, <1>1 DEF Partial, IsHit
<1>4. ASSUME NEW k \in Range(node[n].kids), NEW j \in 0 .. Len(key)
      PROVE  Good(f[k][j], n)
  <2>1. Subtree(k) \subseteq Subtree(n)
    BY <1>0, WoodBelow
  <2>2. Good(f[k][j], k)
    OBVIOUS
  <2> QED BY <2>1, <2>2
<1>5. ~ Titled(n) => i + cp = i
  BY NodeAnswer
<1>6. r = Miss \/ (r = Matched(n) /\ Titled(n)) \/ (r = Partial(n, cp) /\ Titled(n) /\ cp # 0)
      \/ \E k \in Range(node[n].kids) : r = f[k][i + cp]
  <2>1. CASE ~ Titled(n)
    <3>1. cp = 0 /\ Answered(f, n, key, i, r, Miss)
      BY <2>1, NodeAnswer
    <3> HIDE DEF cp, r
    <3> QED BY <1>5, <2>1, <3>1 DEF Answered
  <2>2. CASE Titled(n)
    <3>1. \/ r = Miss /\ cp = 0
          \/ r = Matched(n) /\ cp # 0 /\ node[n].frag = Rest(key, i)
          \/ r = Partial(n, cp) /\ cp # 0 /\ cp < flen /\ Len(key) - i < flen
          \/ /\ Answered(f, n, key, i + cp, r, Partial(n, cp)) /\ cp # 0
             /\ node[n].frag # Rest(key, i) /\ (cp = flen \/ Len(key) - i >= flen)
      BY <2>2, NodeAnswer
    <3> HIDE DEF cp, r, flen
    <3> QED BY <2>2, <3>1 DEF Answered
  <2> QED BY <2>1, <2>2
<1>7. Good(r, n)
  <2> HIDE DEF cp, r, Good
  <2> QED BY <1>1, <1>2, <1>3, <1>4, <1>6
<1> QED BY <1>7

\* What fast_find answers for a key on a radix tree.
LEMMA FindStops ==
  ASSUME Grove, NEW key \in Seq(Char), NEW top \in Live, ~ Titled(top)
  PROVE  LET r == Find(top, key) IN
         /\ r \in Answer
         /\ r = Miss => \A k \in Range(node[top].kids) : ~ HeadAt(k, key, 0)
         /\ IsHit(r) => r.ptr \in Subtree(top) /\ r.ptr \in Live /\ Titled(r.ptr)
         /\ IsHit(r) /\ ~ r.matched => r.pms \in 1 .. Len(node[r.ptr].frag)
         /\ IsHit(r) /\ ~ r.matched /\ Fits(r, key) => Stops(r, key)
<1>0. Wood /\ 0 \in 0 .. Len(key) /\ Start(top) = 0
  BY NodePath DEF Grove
<1>1. PICK f : Searches(f, key) /\ Find(top, key) = f[top][0]
  BY <1>0, FindIs
<1> DEFINE Found(a, n) == IsHit(a) => /\ a.ptr \in Subtree(n) /\ Titled(a.ptr)
                                      /\ ~ a.matched => a.pms \in 1 .. Len(node[a.ptr].frag)
           P(n) == /\ \A j \in 0 .. Len(key) : Found(f[n][j], n)
                   /\ Start(n) \in 0 .. Len(key) => StopsBelow(f[n][Start(n)], n, key)
           T == {n \in Live : P(n)}
<1>2. ASSUME NEW n \in Live, Range(node[n].kids) \subseteq T PROVE n \in T
  <2>1. \A k \in Range(node[n].kids) : P(k)
    BY <1>2
  <2>2. ASSUME NEW j \in 0 .. Len(key) PROVE Found(f[n][j], n)
    BY <1>1, <2>1, AnswersBelow
  <2>3. ASSUME Start(n) \in 0 .. Len(key) PROVE StopsBelow(f[n][Start(n)], n, key)
    BY <1>1, <2>1, <2>3, Descent
  <2> QED BY <2>2, <2>3
<1>3. T = Live
  <2> HIDE DEF T
  <2>1. T \in SUBSET Live
    BY DEF T
  <2> QED BY <1>0, <1>2, <2>1, WoodInduction
<1>4. P(top)
  BY <1>0, <1>3
<1>5. Subtree(top) \subseteq Live
  BY <1>0, WoodBelow
<1>6. Find(top, key) \in Answer
  BY <1>0, <1>1 DEF Searches, Asked
<1>7. ASSUME Find(top, key) = Miss PROVE \A k \in Range(node[top].kids) : ~ HeadAt(k, key, 0)
  <2>1. Answered(f, top, key, 0, Miss, Miss)
    <3>1. Answered(f, top, key, 0, f[top][0], Miss)
      <4> HIDE DEF P, T
      <4> QED BY <1>0, <1>1, NodeAnswer
    <3> QED BY <1>1, <1>7, <3>1, Zenon
  <2>2. ASSUME NEW k \in Range(node[top].kids), HeadAt(k, key, 0) PROVE Miss # f[k][0]
    <3>1. k \in Live /\ Titled(k)
      BY <1>0, KidPath
    <3>2. IsHit(f[k][0])
      BY <1>0, <1>1, <2>2, <3>1, KidHits
    <3> QED BY <3>2 DEF IsHit, Miss
  <2> QED BY <2>1, <2>2 DEF Answered
<1> HIDE DEF P
<1>8. Found(Find(top, key), top) /\ StopsBelow(Find(top, key), top, key)
  BY <1>0, <1>1, <1>4 DEF P
<1> QED BY <1>5, <1>6, <1>7, <1>8 DEF StopsBelow

\* What a node answers is about a node below it.
LEMMA FoundBelow ==
  ASSUME Grove, NEW key \in Seq(Char), NEW f, Searches(f, key),
         NEW n \in Live, NEW i \in 0 .. Len(key), IsHit(f[n][i])
  PROVE  f[n][i].ptr \in Subtree(n)
<1> DEFINE Found(a, x) == IsHit(a) => /\ a.ptr \in Subtree(x) /\ Titled(a.ptr)
                                      /\ ~ a.matched => a.pms \in 1 .. Len(node[a.ptr].frag)
           T == {x \in Live : \A j \in 0 .. Len(key) : Found(f[x][j], x)}
<1>1. ASSUME NEW x \in Live, Range(node[x].kids) \subseteq T PROVE x \in T
  <2>1. \A k \in Range(node[x].kids), j \in 0 .. Len(key) : Found(f[k][j], k)
    BY <1>1
  <2>2. ASSUME NEW j \in 0 .. Len(key) PROVE Found(f[x][j], x)
    BY <2>1, AnswersBelow
  <2> QED BY <2>2
<1>2. T = Live
  <2> HIDE DEF T
  <2>1. T \in SUBSET Live
    BY DEF T
  <2> QED BY <1>1, <2>1, WoodInduction DEF Grove
<1>3. Found(f[n][i], n)
  BY <1>2
<1> QED BY <1>3

\* The search for a key that goes on after the path of n ends below n, or in n itself
\* with the whole of its fragment shared.
LEMMA SearchStaysBelow ==
  ASSUME Grove, NEW top \in Live, ~ Titled(top), NEW n \in Subtree(top), Titled(n),
         NEW key \in Seq(Char), Begins(node[n].path, key), Len(node[n].path) < Len(key)
  PROVE  /\ IsHit(Find(top, key))
         /\ \/ Find(top, key) = Partial(n, Len(node[n].frag))
            \/ Find(top, key).ptr \in Subtree(n) \ {n}
<1> DEFINE i == Start(n)  cp == Shared(n, key, i)  flen == Len(node[n].frag)
           plen == Len(node[n].path)
<1>0. n \in Live
  BY WoodBelow DEF Grove
<1>1. PICK f : Searches(f, key) /\ Find(top, key) = f[top][0]
  BY FindIs DEF Grove
<1>2. Find(top, key) = f[n][i]
  BY <1>1, PassesThrough
<1>3. i \in 0 .. Len(key) /\ cp = flen /\ i + flen = plen /\ plen \in 0 .. Len(key)
  BY <1>0, OnTheWay
<1>4. flen \in Nat /\ flen # 0 /\ i \in Nat
  BY <1>0, NodePath
<1>5. LET a == f[n][i] IN
      \/ a = Miss /\ cp = 0
      \/ a = Matched(n) /\ cp # 0 /\ node[n].frag = Rest(key, i)
      \/ a = Partial(n, cp) /\ cp # 0 /\ cp < flen /\ Len(key) - i < flen
      \/ /\ Answered(f, n, key, i + cp, a, Partial(n, cp)) /\ cp # 0
         /\ node[n].frag # Rest(key, i) /\ (cp = flen \/ Len(key) - i >= flen)
  BY <1>0, <1>1, <1>3, NodeAnswer
<1>6. node[n].frag # Rest(key, i)
  <2>1. Len(Drop(key, i)) = Len(key) - i
    BY <1>3, LastPart
  <2>2. Len(key) - i # flen
    <3> HIDE DEF i, flen
    <3>1. Len(key) \in Nat
      OBVIOUS
    <3> QED BY <1>3, <1>4, <3>1
  <2> QED BY <2>1, <2>2 DEF Rest
<1>7. Answered(f, n, key, plen, Find(top, key), Partial(n, flen))
  <2> HIDE DEF i, cp, flen, plen
  <2> QED BY <1>2, <1>3, <1>4, <1>5, <1>6
<1>8. CASE Find(top, key) = Partial(n, flen)
  <2>1. IsHit(Partial(n, flen))
    <3> HIDE DEF flen
    <3> QED BY <1>4 DEF IsHit, Partial
  <2> QED BY <1>8, <2>1
<1>9. ASSUME NEW k \in Range(node[n].kids), Find(top, key) = f[k][plen], HeadAt(k, key, plen)
      PROVE  IsHit(Find(top, key)) /\ Find(top, key).ptr \in Subtree(n) \ {n}
  <2>1. k \in Live /\ Titled(k)
    BY <1>0, KidPath
  <2>2. IsHit(f[k][plen])
    BY <1>1, <1>3, <1>9, <2>1, KidHits
  <2>3. f[k][plen].ptr \in Subtree(k)
    BY <1>1, <1>3, <2>1, <2>2, FoundBelow
  <2>4. Subtree(k) \subseteq Subtree(n) \ {n}
    BY <1>0, WoodBelow DEF Grove
  <2> QED BY <1>9, <2>2, <2>3, <2>4
<1> HIDE DEF plen, flen
<1> QED BY <1>7, <1>8, <1>9 DEF Answered, flen

-----------------------------------------------------------------------------
(* The steps of the store keep the radix tree.                             *)

\* Cutting the end off a path.
LEMMA ChopMeans ==
  ASSUME Grove, NEW n \in Live, NEW pms \in 0 .. Len(node[n].frag)
  PROVE  LET base == Chop(node[n].path, Len(node[n].frag) - pms) IN
         /\ base \in Seq(Char) /\ Len(base) = Start(n) + pms
         /\ \A q \in 1 .. Start(n) + pms : base[q] = node[n].path[q]
<1> DEFINE path == node[n].path  flen == Len(node[n].frag)  i == Start(n)
<1>1. path \in Seq(Char) /\ i \in Nat /\ flen \in Nat /\ Len(path) = i + flen
  BY NodePath
<1>2. pms \in 0 .. flen
  OBVIOUS
<1> HIDE DEF flen, i, path
<1>3. flen - pms <= Len(path) /\ Len(path) - (flen - pms) = i + pms /\ i + pms \in 0 .. Len(path)
  BY <1>1, <1>2
<1>4. Chop(path, flen - pms) = SubSeq(path, 1, i + pms)
  BY <1>3 DEF Chop
<1> QED BY <1>1, <1>3, <1>4, FirstPart DEF path, flen, i

\* What a proper insert knows of the search that ended part of the way.
LEMMA ProperEnds ==
  ASSUME Grove, NEW top \in Live, ~ Titled(top), NEW key \in Key, ProperInsert(top, key),
         NEW n \in Live, NEW pms \in 1 .. Len(node[n].frag), Find(top, key) = Partial(n, pms)
  PROVE  /\ key \in Seq(Char)
         /\ Start(n) + pms < Len(key)
         /\ \A q \in 1 .. Start(n) + pms : node[n].path[q] = key[q]
         /\ Stops(Partial(n, pms), key)
         /\ pms < Len(node[n].frag) => node[n].kids = <<>>
<1> DEFINE r == Partial(n, pms)  base == Chop(node[n].path, Len(node[n].frag) - pms)
<1>1. key \in Seq(Char) /\ Len(key) \in Nat
  BY KeyAssumption
<1>2. Len(node[n].frag) \in Nat /\ Start(n) \in Nat
  BY NodePath
<1>3. IsHit(r) /\ ~ r.matched /\ r.ptr = n /\ r.pms = pms
  BY <1>2 DEF Partial, IsHit
<1>4. Located(r) = base
  BY <1>3 DEF Located
<1>5. /\ base \in Seq(Char) /\ Len(base) = Start(n) + pms
      /\ \A q \in 1 .. Start(n) + pms : base[q] = node[n].path[q]
  BY <1>2, ChopMeans
<1>6. /\ IsPrefix(base, key) /\ Len(base) < Len(key)
      /\ pms < Len(node[n].frag) => node[n].kids = <<>>
  BY <1>3, <1>4 DEF ProperInsert
<1>7. Begins(base, key)
  BY <1>1, <1>5, <1>6, PrefixMeans
<1>8. \A q \in 1 .. Start(n) + pms : node[n].path[q] = key[q]
  BY <1>5, <1>7 DEF Begins
<1>9. Start(n) + pms < Len(key)
  BY <1>5, <1>6
<1>10. Fits(r, key)
  <2>1. Start(n) + pms <= Len(key)
    <3> HIDE DEF Start
    <3> QED BY <1>1, <1>2, <1>9
  <2> QED BY <1>3, <1>8, <2>1 DEF Fits
<1>11. Stops(r, key)
  BY <1>1, <1>3, <1>10, FindStops
<1> QED BY <1>1, <1>6, <1>8, <1>9, <1>11

\* Node n gets one more child a, a leaf for the rest of the key.
GrowsTo(n, a, key) ==
  /\ Live' = Live \cup {a} /\ a \notin Live
  /\ \A m \in Live : node'[m].path = node[m].path /\ node'[m].frag = node[m].frag
  /\ Range(node'[n].kids) = Range(node[n].kids) \cup {a}
  /\ \A m \in Live \ {n} : node'[m].kids = node[m].kids
  /\ node'[a].kids = <<>> /\ node'[a].path = key
  /\ node'[a].frag = Drop(key, Len(node[n].path))

\* The key goes on below n, and none of n's children goes the same way.
LEMMA RadixGrows ==
  ASSUME Grove, NEW key \in Seq(Char), NEW n \in Live, NEW a, GrowsTo(n, a, key),
         Begins(node[n].path, key), Len(node[n].path) < Len(key),
         \A k \in Range(node[n].kids) : ~ HeadAt(k, key, Len(node[n].path))
  PROVE  Radix'
<1> DEFINE plen == Len(node[n].path)  title == Drop(key, plen)
<1>1. node[n].path \in Seq(Char) /\ plen \in Nat /\ Len(key) \in Nat
  BY NodePath
<1>2. /\ title \in Seq(Char) /\ Len(title) = Len(key) - plen
      /\ \A i \in 1 .. Len(key) - plen : title[i] = key[plen + i]
  <2>1. plen \in 0 .. Len(key)
    BY <1>1
  <2> HIDE DEF plen
  <2> QED BY <2>1, LastPart
<1>3. title # <<>> /\ title[1] = key[plen + 1]
  <2>1. Len(title) # 0 /\ 1 \in 1 .. Len(key) - plen
    <3> HIDE DEF title, plen
    <3> QED BY <1>1, <1>2 DEF plen
  <2> HIDE DEF title, plen
  <2> QED BY <1>2, <2>1
<1>4. key = node[n].path \o title
  <2>1. Len(key) = plen + Len(title)
    <3> HIDE DEF title, plen
    <3> QED BY <1>1, <1>2
  <2> HIDE DEF title
  <2> QED BY <1>1, <1>2, <2>1, ConcatMeans
<1>5. \A m \in Live : Range(node[m].kids) \subseteq Live /\ a # m
  BY WoodKids DEF Grove, GrowsTo
<1>6. \A m \in Live' : m = a \/ (m \in Live /\ m # a)
  BY DEF GrowsTo
<1>7. Range(node'[a].kids) = {}
  BY DEF GrowsTo, Range
<1> HIDE DEF title
<1>8. ASSUME NEW m \in Live'
      PROVE  /\ IsSuffix(node'[m].frag, node'[m].path)
             /\ Titled(m)' => node'[m].frag # <<>>
  <2>1. IsSuffix(title, key)
    BY <1>1, <1>2, <1>4, AppendEnds
  <2>2. CASE m = a
    BY <1>3, <2>1, <2>2 DEF GrowsTo, title
  <2>3. CASE m \in Live /\ m # a
    BY <2>3 DEF Grove, GrowsTo, Radix, Titled
  <2> QED BY <1>6, <1>8, <2>2, <2>3
<1>9. ASSUME NEW m \in Live, NEW k \in Range(node'[m].kids)
      PROVE  \/ k \in Range(node[m].kids) /\ k \in Live
             \/ k = a /\ m = n
  BY <1>5 DEF GrowsTo
<1>10. ASSUME NEW m \in Live', NEW k \in Range(node'[m].kids) PROVE KidExtends(m, k)'
  <2>1. m \in Live
    BY <1>6, <1>7, <1>10
  <2>2. CASE k \in Range(node[m].kids) /\ k \in Live
    <3>1. node[k].path = node[m].path \o node[k].frag
      BY <2>1, <2>2 DEF Grove, Radix, KidExtends
    <3>2. Titled(k)
      BY <2>1, <2>2 DEF Grove, Radix, KidExtends
    <3> QED BY <2>1, <2>2, <3>1, <3>2 DEF GrowsTo, KidExtends, Titled
  <2>3. CASE k = a /\ m = n
    <3>1. Len(key) # 0 /\ key # <<>>
      BY <1>1
    <3> QED BY <1>4, <2>3, <3>1 DEF GrowsTo, KidExtends, Titled, title
  <2> QED BY <1>9, <1>10, <2>1, <2>2, <2>3
<1>11. ASSUME NEW m \in Live', NEW k \in Range(node'[m].kids), NEW q \in Range(node'[m].kids),
              node'[k].frag[1] = node'[q].frag[1]
       PROVE  k = q
  <2>1. m \in Live
    BY <1>6, <1>7, <1>11
  <2>2. \A x \in Range(node[n].kids) : node[x].frag[1] # node'[a].frag[1]
    BY <1>3 DEF GrowsTo, HeadAt, title
  <2>3. \A x \in Live : node'[x].frag = node[x].frag
    BY DEF GrowsTo
  <2>4. CASE k \in Range(node[m].kids) /\ k \in Live /\ q \in Range(node[m].kids) /\ q \in Live
    BY <1>11, <2>1, <2>3, <2>4 DEF Grove, Radix
  <2>5. CASE k = a /\ m = n /\ q \in Range(node[m].kids) /\ q \in Live
    BY <1>11, <2>2, <2>3, <2>5
  <2>6. CASE q = a /\ m = n /\ k \in Range(node[m].kids) /\ k \in Live
    BY <1>11, <2>2, <2>3, <2>6
  <2> QED BY <1>9, <1>11, <2>1, <2>4, <2>5, <2>6
<1> QED BY <1>8, <1>10, <1>11 DEF Radix

\* Node n cut after pms characters: the path down to the cut, the fragment above and
\* below it, and what is left of the key there.
Base(n, pms)      == Chop(node[n].path, Len(node[n].frag) - pms)
Kept(n, pms)       == SubSeq(node[n].frag, 1, pms)
Off(n, pms)       == Drop(node[n].frag, pms)
Left(key, n, pms) == Drop(key, Len(Base(n, pms)))

HalvesFit(key, n, pms) ==
  LET base == Base(n, pms)
      top  == Kept(n, pms)
      off  == Off(n, pms)
      rest == Left(key, n, pms)
      frag == node[n].frag
  IN /\ Len(base) = Start(n) + pms /\ Len(base) <= Len(key)
     /\ node[n].path = base \o off /\ key = base \o rest
     /\ \A d \in Live : n \in Range(node[d].kids) => base = node[d].path \o top
     /\ top # <<>> /\ off # <<>> /\ rest # <<>> /\ base # <<>>
     /\ IsSuffix(top, base) /\ IsSuffix(off, node[n].path) /\ IsSuffix(rest, key)
     /\ top[1] = frag[1] /\ off[1] = frag[pms + 1] /\ rest[1] = key[Start(n) + pms + 1]

\* The two halves of a node that is cut, and the leaf for the key.
LEMMA Halves ==
  ASSUME Grove, NEW key \in Seq(Char), NEW n \in Live, Titled(n),
         NEW pms \in 1 .. Len(node[n].frag) - 1,
         Start(n) + pms < Len(key),
         \A q \in 1 .. Start(n) + pms : node[n].path[q] = key[q]
  PROVE  HalvesFit(key, n, pms)
<1> DEFINE frag == node[n].frag
           path == node[n].path
           flen == Len(frag)
           i    == Start(n)
           base == Base(n, pms)
           top  == Kept(n, pms)
           off  == Off(n, pms)
           rest == Left(key, n, pms)
<1>1. /\ path \in Seq(Char) /\ frag \in Seq(Char) /\ i \in Nat /\ flen \in Nat
      /\ Len(path) = i + flen /\ Len(key) \in Nat
      /\ \A q \in 1 .. flen : path[i + q] = frag[q]
  BY NodePath
<1>2. /\ pms \in 1 .. flen - 1 /\ pms \in 0 .. flen /\ pms \in Nat /\ pms # 0
      /\ pms <= flen
  <2>1. pms \in 1 .. flen - 1
    OBVIOUS
  <2> HIDE DEF flen
  <2> QED BY <1>1, <2>1
<1>3. /\ base \in Seq(Char) /\ Len(base) = i + pms
      /\ \A q \in 1 .. i + pms : base[q] = path[q]
  BY <1>2, ChopMeans DEF Base
<1>4. /\ top \in Seq(Char) /\ Len(top) = pms /\ \A q \in 1 .. pms : top[q] = frag[q]
  <2> HIDE DEF frag
  <2> QED BY <1>1, <1>2, FirstPart DEF Kept, frag
<1>5. /\ off \in Seq(Char) /\ Len(off) = flen - pms
      /\ \A q \in 1 .. flen - pms : off[q] = frag[pms + q]
  <2> HIDE DEF frag
  <2> QED BY <1>1, <1>2, LastPart DEF Off, frag
<1>6. i + pms < Len(key) /\ \A q \in 1 .. i + pms : path[q] = key[q]
  OBVIOUS
<1> HIDE DEF base, top, off, path, frag, i, flen
<1>7. Len(base) \in 0 .. Len(key) /\ Len(base) <= Len(key)
  BY <1>1, <1>2, <1>3, <1>6
<1>8. /\ rest \in Seq(Char) /\ Len(rest) = Len(key) - Len(base)
      /\ \A q \in 1 .. Len(key) - Len(base) : rest[q] = key[Len(base) + q]
  BY <1>7, LastPart DEF Left, base
<1> HIDE DEF rest
<1>9. path = base \o off
  <2>1. Begins(base, path)
    BY <1>1, <1>2, <1>3 DEF Begins
  <2>2. Len(path) = Len(base) + Len(off)
    BY <1>1, <1>2, <1>3, <1>5
  <2>3. ASSUME NEW q \in 1 .. Len(off) PROVE path[Len(base) + q] = off[q]
    <3>1. PICK x \in 1 .. flen : x = pms + q /\ i + x = Len(base) + q
      <4>1. q \in 1 .. flen - pms
        BY <1>5
      <4>2. pms + q \in 1 .. flen /\ i + (pms + q) = Len(base) + q
        BY <1>1, <1>2, <1>3, <4>1
      <4> QED BY <4>2
    <3>2. off[q] = frag[x]
      BY <1>5, <3>1
    <3> QED BY <1>1, <3>1, <3>2
  <2> QED BY <1>1, <1>3, <1>5, <2>1, <2>2, <2>3, ConcatMeans
<1>10. key = base \o rest
  <2>1. Begins(base, key)
    BY <1>3, <1>6, <1>7 DEF Begins
  <2>2. Len(key) = Len(base) + Len(rest)
    BY <1>1, <1>7, <1>8
  <2>3. \A q \in 1 .. Len(rest) : key[Len(base) + q] = rest[q]
    BY <1>8
  <2> QED BY <1>3, <1>8, <2>1, <2>2, <2>3, ConcatMeans
<1>11. ASSUME NEW d \in Live, n \in Range(node[d].kids) PROVE base = node[d].path \o top
  <2> DEFINE up == node[d].path
  <2>1. up \in Seq(Char) /\ Len(up) = i /\ Begins(up, path)
    BY <1>11, KidPath DEF i, path
  <2> HIDE DEF up
  <2>2. Begins(up, base)
    <3>1. Len(up) <= Len(base) /\ \A q \in 1 .. Len(up) : q \in 1 .. i + pms
      BY <1>1, <1>2, <1>3, <2>1
    <3>2. \A q \in 1 .. Len(up) : up[q] = path[q]
      BY <2>1 DEF Begins
    <3> QED BY <1>3, <3>1, <3>2 DEF Begins
  <2>3. Len(base) = Len(up) + Len(top)
    BY <1>3, <1>4, <2>1
  <2>4. ASSUME NEW q \in 1 .. Len(top) PROVE base[Len(up) + q] = top[q]
    <3>1. PICK x \in 1 .. i + pms : x = Len(up) + q /\ x = i + q
      <4>1. i + q \in 1 .. i + pms /\ Len(up) + q = i + q
        BY <1>1, <1>2, <1>4, <2>1
      <4> QED BY <4>1
    <3>2. q \in 1 .. flen /\ q \in 1 .. pms
      <4>1. q \in 1 .. pms
        BY <1>4
      <4> QED BY <1>1, <1>2, <4>1
    <3>3. base[x] = path[x] /\ path[i + q] = frag[q] /\ top[q] = frag[q]
      BY <1>1, <1>3, <1>4, <3>1, <3>2
    <3> QED BY <3>1, <3>3
  <2>5. base = up \o top
    BY <1>3, <1>4, <2>1, <2>2, <2>3, <2>4, ConcatMeans
  <2> QED BY <2>5 DEF up
<1>12. top # <<>> /\ off # <<>> /\ rest # <<>> /\ base # <<>>
  <2>1. Len(top) # 0 /\ Len(off) # 0 /\ Len(rest) # 0 /\ Len(base) # 0
    BY <1>1, <1>2, <1>3, <1>4, <1>5, <1>6, <1>8
  <2> QED BY <1>3, <1>4, <1>5, <1>8, <2>1
<1>13. top[1] = frag[1] /\ off[1] = frag[pms + 1] /\ rest[1] = key[i + pms + 1]
  <2>1. 1 \in 1 .. pms /\ 1 \in 1 .. flen - pms /\ 1 \in 1 .. Len(key) - Len(base)
    BY <1>1, <1>2, <1>3, <1>6
  <2> QED BY <1>3, <1>4, <1>5, <1>8, <2>1
<1>14. IsSuffix(top, base) /\ IsSuffix(off, path) /\ IsSuffix(rest, key)
  <2>1. IsSuffix(frag, path)
    BY DEF Grove, Radix, frag, path
  <2>2. IsSuffix(top, base)
    BY <1>1, <1>2, <2>1, CutKeepsSuffix DEF top, base, Kept, Base, frag, path, flen
  <2> QED BY <1>3, <1>5, <1>8, <1>9, <1>10, <2>2, AppendEnds
<1> QED BY <1>3, <1>7, <1>9, <1>10, <1>11, <1>12, <1>13, <1>14
        DEF HalvesFit, base, top, off, rest, frag, path, i, flen

\* Cutting a node that has no children keeps the radix tree, if the key goes on
\* differently from where it is cut.
LEMMA RadixSplits ==
  ASSUME Grove, NEW key \in Seq(Char), NEW v, NEW n \in Live, Titled(n),
         NEW b \in Node \ Live, NEW c \in Node \ (Live \cup {b}),
         NEW pms \in 1 .. Len(node[n].frag) - 1,
         Splits(key, v, n, pms, b, c, Drop(key, CutAt(n, pms))),
         Start(n) + pms < Len(key),
         \A q \in 1 .. Start(n) + pms : node[n].path[q] = key[q],
         node[n].frag[pms + 1] # key[Start(n) + pms + 1],
         node[n].kids = <<>>
  PROVE  Radix'
<1> DEFINE frag == node[n].frag
           base == Base(n, pms)
           top  == Kept(n, pms)
           off  == Off(n, pms)
           rest == Left(key, n, pms)
<1>1. /\ node[n].path = base \o off /\ key = base \o rest
      /\ \A d \in Live : n \in Range(node[d].kids) => base = node[d].path \o top
      /\ top # <<>> /\ off # <<>> /\ rest # <<>>
      /\ base # <<>> /\ node[n].path # <<>> /\ key # <<>>
      /\ IsSuffix(top, base) /\ IsSuffix(off, node[n].path) /\ IsSuffix(rest, key)
      /\ top[1] = frag[1] /\ off[1] # rest[1]
  <2>1. HalvesFit(key, n, pms)
    BY Halves
  <2>2. Start(n) \in Nat /\ pms \in Nat /\ Len(key) \in Nat /\ key # <<>>
    <3>1. Start(n) \in Nat /\ pms \in Nat /\ Len(key) \in Nat
      BY NodePath
    <3>2. Len(key) # 0
      BY <3>1
    <3> QED BY <3>1, <3>2
  <2> QED BY <2>1, <2>2 DEF HalvesFit, Titled
<1>2. /\ node'[n].path = base /\ node'[n].frag = top /\ node'[n].kids = <<>> \o <<b, c>>
      /\ node'[b].path = node[n].path /\ node'[b].frag = off /\ node'[b].kids = <<>>
      /\ node'[c].path = key /\ node'[c].frag = rest /\ node'[c].kids = <<>>
      /\ \A m \in Live \ {n} : node'[m] = node[m]
      /\ Live' = Live \cup {b, c}
  BY DEF Splits, CutNode, CutOff, Leaf, CutAt, Base, Kept, Off, Left
<1> HIDE DEF frag, base, top, off, rest
<1>3. Range(node'[n].kids) = {b, c} /\ Range(node'[b].kids) = {} /\ Range(node'[c].kids) = {}
  BY <1>2 DEF Range
<1>4. /\ \A m \in Live : Range(node[m].kids) \subseteq Live
      /\ n # b /\ n # c /\ b # c /\ Range(node[n].kids) = {}
  BY WoodKids DEF Grove, Range
<1>5. \A m \in Live' : m = n \/ m = b \/ m = c \/ m \in Live \ {n}
  BY <1>2
<1>6. ASSUME NEW m \in Live'
      PROVE  /\ IsSuffix(node'[m].frag, node'[m].path)
             /\ Titled(m)' => node'[m].frag # <<>>
  <2>1. CASE m \in Live \ {n}
    BY <1>2, <2>1 DEF Grove, Radix, Titled
  <2>2. CASE m = n
    BY <1>1, <1>2, <2>2
  <2>3. CASE m = b
    BY <1>1, <1>2, <2>3
  <2>4. CASE m = c
    BY <1>1, <1>2, <2>4
  <2> QED BY <1>5, <1>6, <2>1, <2>2, <2>3, <2>4
<1>7. ASSUME NEW m \in Live \ {n}, NEW k \in Range(node'[m].kids)
      PROVE  /\ k \in Range(node[m].kids) /\ k \in Live
             /\ KidExtends(m, k)' /\ node'[k].frag[1] = node[k].frag[1]
  <2>1. k \in Range(node[m].kids) /\ k \in Live /\ node'[m] = node[m]
    BY <1>2, <1>4, <1>7
  <2>2. node[k].path = node[m].path \o node[k].frag /\ Titled(k)
    BY <2>1 DEF Grove, Radix, KidExtends
  <2>3. CASE k = n
    BY <1>1, <1>2, <2>1, <2>3, ZenonT(40) DEF KidExtends, Titled, frag
  <2>4. CASE k # n
    BY <1>2, <2>1, <2>2, <2>4 DEF KidExtends, Titled
  <2> QED BY <2>1, <2>3, <2>4
<1>8. ASSUME NEW m \in Live', NEW k \in Range(node'[m].kids) PROVE KidExtends(m, k)'
  <2>1. CASE m = n
    BY <1>1, <1>2, <1>3, <1>8, <2>1 DEF KidExtends, Titled
  <2> QED BY <1>3, <1>5, <1>7, <1>8, <2>1
<1>9. ASSUME NEW m \in Live', NEW k \in Range(node'[m].kids), NEW q \in Range(node'[m].kids),
             node'[k].frag[1] = node'[q].frag[1]
      PROVE  k = q
  <2>1. CASE m = n
    <3>1. k \in {b, c} /\ q \in {b, c}
      BY <1>3, <1>9, <2>1
    <3>2. node'[b].frag[1] # node'[c].frag[1]
      BY <1>1, <1>2
    <3> QED BY <1>9, <3>1, <3>2
  <2>2. CASE m \in Live \ {n}
    <3>1. /\ k \in Range(node[m].kids) /\ q \in Range(node[m].kids)
          /\ node[k].frag[1] = node[q].frag[1]
      BY <1>7, <1>9, <2>2
    <3> QED BY <2>2, <3>1 DEF Grove, Radix
  <2> QED BY <1>3, <1>5, <1>9, <2>1, <2>2
<1> QED BY <1>6, <1>8, <1>9 DEF Radix

\* Taking nodes and children away, and setting values, keeps the radix tree.
LEMMA RadixShrinks ==
  ASSUME Radix, Live' \subseteq Live,
         \A m \in Live' : /\ node'[m].path = node[m].path /\ node'[m].frag = node[m].frag
                          /\ Range(node'[m].kids) \subseteq Range(node[m].kids)
                          /\ Range(node'[m].kids) \subseteq Live'
  PROVE  Radix'
<1>1. \A m \in Live' : /\ IsSuffix(node'[m].frag, node'[m].path)
                       /\ Titled(m)' => node'[m].frag # <<>>
  BY DEF Radix, Titled
<1>2. ASSUME NEW m \in Live', NEW k \in Range(node'[m].kids)
      PROVE  KidExtends(m, k)' /\ k \in Range(node[m].kids) /\ node'[k].frag = node[k].frag
  <2>1. k \in Range(node[m].kids) /\ k \in Live' /\ m \in Live
    BY <1>2
  <2>2. node[k].path = node[m].path \o node[k].frag /\ Titled(k)
    <3>1. \A x \in Live : \A y \in Range(node[x].kids) : KidExtends(x, y)
      BY Zenon DEF Radix
    <3> QED BY <2>1, <3>1, Zenon DEF KidExtends
  <2> QED BY <2>1, <2>2 DEF KidExtends, Titled
<1>3. ASSUME NEW m \in Live', NEW k \in Range(node'[m].kids), NEW q \in Range(node'[m].kids),
             node'[k].frag[1] = node'[q].frag[1]
      PROVE  k = q
  BY <1>2, <1>3 DEF Radix
<1> QED BY <1>1, <1>2, <1>3 DEF Radix

\* Appending a child adds it to the set of children.
LEMMA AppendRange ==
  ASSUME NEW s \in Seq(Node), NEW a
  PROVE  Range(Append(s, a)) = Range(s) \cup {a}
<1>1. Len(s) \in Nat /\ DOMAIN s = 1 .. Len(s) /\ DOMAIN Append(s, a) = 1 .. Len(s) + 1
  OBVIOUS
<1>2. /\ \A i \in 1 .. Len(s) : Append(s, a)[i] = s[i]
      /\ Append(s, a)[Len(s) + 1] = a
  BY <1>1
<1>3. ASSUME NEW x \in Range(Append(s, a)) PROVE x \in Range(s) \cup {a}
  <2>1. PICK i \in 1 .. Len(s) + 1 : x = Append(s, a)[i]
    BY <1>1 DEF Range
  <2>2. i \in 1 .. Len(s) \/ i = Len(s) + 1
    BY <1>1
  <2> QED BY <1>1, <1>2, <2>1, <2>2 DEF Range
<1>4. ASSUME NEW x \in Range(s) \cup {a} PROVE x \in Range(Append(s, a))
  <2>1. CASE x = a
    <3>1. Len(s) + 1 \in 1 .. Len(s) + 1
      BY <1>1
    <3> QED BY <1>1, <1>2, <2>1, <3>1 DEF Range
  <2>2. CASE x \in Range(s)
    <3>1. PICK i \in 1 .. Len(s) : x = s[i]
      BY <1>1, <2>2 DEF Range
    <3>2. i \in 1 .. Len(s) + 1
      BY <1>1
    <3> QED BY <1>1, <1>2, <3>1, <3>2 DEF Range
  <2> QED BY <1>4, <2>1, <2>2
<1> QED BY <1>3, <1>4

\* Setting a value changes no path and no child.
LEMMA RadixSetsValue ==
  ASSUME Grove, NEW n \in Live, NEW x, SetsValue(n, x)
  PROVE  Radix'
<1>1. node \in [Live -> Fields] /\ Radix
      /\ \A m \in Live : Range(node[m].kids) \subseteq Live
  BY WoodKids DEF Grove, Wood, HeapTypeOK
<1>2. Live' = Live
  BY DEF SetsValue
<1>3. \A m \in Live : /\ node'[m].path = node[m].path /\ node'[m].frag = node[m].frag
                      /\ node'[m].kids = node[m].kids
  BY <1>1 DEF SetsValue, Fields
<1> QED BY <1>1, <1>2, <1>3, RadixShrinks

\* A proper insert below a node.
LEMMA RadixAddChild ==
  ASSUME Grove, NEW top \in Live, ~ Titled(top), NEW key \in Key, NEW v \in Value,
         ProperInsert(top, key), AddChild(top, Find(top, key), key, v)
  PROVE  Radix'
<1>1. PICK n \in Live, a \in Node \ Live :
        /\ Find(top, key) = Partial(n, Len(node[n].frag))
        /\ \E title \in RestTitle(key, Len(node[n].path)) : AddsChild(key, v, n, a, title)
  BY AddChildStep DEF Grove, Wood
<1>2. PICK title \in RestTitle(key, Len(node[n].path)) : AddsChild(key, v, n, a, title)
  BY <1>1
<1> DEFINE flen == Len(node[n].frag)  plen == Len(node[n].path)
<1>3. flen \in Nat \ {0} /\ plen = Start(n) + flen /\ plen \in Nat
  <2>1. key \in Seq(Char) /\ IsHit(Partial(n, flen)) /\ Partial(n, flen).ptr = n
    <3>1. Find(top, key).pms > 0
      BY DEF AddChild
    <3>2. key \in Seq(Char)
      BY KeyAssumption
    <3> QED BY <1>1, <3>1, <3>2 DEF IsHit, Partial
  <2>2. Titled(n)
    BY <1>1, <2>1, FindStops
  <2> QED BY <2>2, NodePath
<1>4. flen \in 1 .. flen
  <2> HIDE DEF flen
  <2> QED BY <1>3
<1>5. /\ key \in Seq(Char)
      /\ Start(n) + flen < Len(key)
      /\ \A q \in 1 .. Start(n) + flen : node[n].path[q] = key[q]
      /\ Stops(Partial(n, flen), key)
  BY <1>1, <1>4, ProperEnds
<1>6. plen < Len(key) /\ Len(key) \in Nat /\ \A q \in 1 .. plen : node[n].path[q] = key[q]
  <2> HIDE DEF plen
  <2> QED BY <1>3, <1>5
<1>7. Begins(node[n].path, key)
  <2>1. plen <= Len(key)
    <3> HIDE DEF plen
    <3> QED BY <1>3, <1>6
  <2> QED BY <1>6, <2>1 DEF Begins
<1>8. \A k \in Range(node[n].kids) : ~ HeadAt(k, key, plen)
  BY <1>5 DEF Stops, Partial
<1>9. title = Drop(key, plen)
  <2>1. plen <= Len(key)
    BY <1>7 DEF Begins
  <2> QED BY <1>2, <2>1 DEF RestTitle
<1>10. GrowsTo(n, a, key)
  <2>1. node[n] \in Fields /\ node[n].kids \in Seq(Node)
    BY DEF Grove, Wood, HeapTypeOK, Fields
  <2>2. /\ node'[n] = Adopt(node[n], a) /\ node'[a] = Leaf(key, title, v)
        /\ \A m \in Live \ {n} : node'[m] = node[m]
        /\ Live' = Live \cup {a}
    BY <1>2 DEF AddsChild
  <2>3. /\ Adopt(node[n], a).path = node[n].path /\ Adopt(node[n], a).frag = node[n].frag
        /\ Adopt(node[n], a).kids = Append(node[n].kids, a)
    BY <2>1 DEF Adopt, Fields
  <2>4. Range(node'[n].kids) = Range(node[n].kids) \cup {a}
    BY <2>1, <2>2, <2>3, AppendRange
  <2> QED BY <1>9, <2>2, <2>3, <2>4 DEF GrowsTo, Leaf
<1> QED BY <1>5, <1>6, <1>7, <1>8, <1>10, RadixGrows

\* A proper insert that cuts a node.
LEMMA RadixSplit ==
  ASSUME Grove, NEW top \in Live, ~ Titled(top), NEW key \in Key, NEW v \in Value,
         ProperInsert(top, key), Split(top, Find(top, key), key, v)
  PROVE  Radix'
<1>1. PICK n \in Live, b \in Node \ Live :
      \E c \in Node \ (Live \cup {b}), pms \in 1 .. Len(node[n].frag) - 1 :
        /\ Find(top, key) = Partial(n, pms)
        /\ \E title \in RestTitle(key, CutAt(n, pms)) : Splits(key, v, n, pms, b, c, title)
  BY SplitStep DEF Grove, Wood
<1>2. PICK c \in Node \ (Live \cup {b}), pms \in 1 .. Len(node[n].frag) - 1 :
        /\ Find(top, key) = Partial(n, pms)
        /\ \E title \in RestTitle(key, CutAt(n, pms)) : Splits(key, v, n, pms, b, c, title)
  BY <1>1
<1>3. PICK title \in RestTitle(key, CutAt(n, pms)) : Splits(key, v, n, pms, b, c, title)
  BY <1>2
<1> DEFINE flen == Len(node[n].frag)
<1>4. flen \in Nat /\ Start(n) \in Nat
  BY NodePath
<1>5. pms \in 1 .. flen /\ pms < flen /\ pms \in 0 .. flen /\ pms # flen
  <2>1. pms \in 1 .. flen - 1
    OBVIOUS
  <2> HIDE DEF flen
  <2> QED BY <1>4, <2>1
<1>6. /\ key \in Seq(Char)
      /\ Start(n) + pms < Len(key)
      /\ \A q \in 1 .. Start(n) + pms : node[n].path[q] = key[q]
      /\ Stops(Partial(n, pms), key)
      /\ node[n].kids = <<>>
  BY <1>2, <1>5, ProperEnds
<1>7. node[n].frag[pms + 1] # key[Start(n) + pms + 1]
  BY <1>5, <1>6 DEF Stops, Partial
<1>8. CutAt(n, pms) = Start(n) + pms
  BY <1>5, ChopMeans DEF CutAt
<1>9. title = Drop(key, CutAt(n, pms))
  <2>1. CutAt(n, pms) <= Len(key)
    <3>1. Len(key) \in Nat
      BY <1>6
    <3> HIDE DEF CutAt, Start
    <3> QED BY <1>4, <1>5, <1>6, <1>8, <3>1
  <2> QED BY <1>3, <2>1 DEF RestTitle
<1>10. Titled(n)
  <2>1. IsHit(Partial(n, pms)) /\ Partial(n, pms).ptr = n
    BY <1>5 DEF IsHit, Partial
  <2> QED BY <1>2, <1>6, <2>1, FindStops
<1> QED BY <1>3, <1>6, <1>7, <1>9, <1>10, RadixSplits

\* A proper insert below a root.
LEMMA RadixAddAtRoot ==
  ASSUME Grove, NEW top \in Live, ~ Titled(top), NEW key \in Key, NEW v \in Value,
         ProperInsert(top, key), AddAtRoot(top, Find(top, key), key, v)
  PROVE  Radix'
<1>1. HeapTypeOK /\ node[top] \in Fields /\ node[top].kids \in Seq(Node)
  BY DEF Grove, Wood, HeapTypeOK, Fields
<1>2. Find(top, key) = Miss /\ \E x \in Node \ Live : AddsAtRoot(top, key, v, x)
  BY <1>1, AddAtRootStep
<1>3. PICK a \in Node \ Live : AddsAtRoot(top, key, v, a)
  BY <1>2
<1>4. key \in Seq(Char) /\ key # <<>> /\ 0 < Len(key)
  <2>1. key \in Seq(Char) /\ key # <<>>
    BY KeyAssumption DEF ProperInsert
  <2> QED BY <2>1
<1>5. node[top].path = <<>> /\ Len(node[top].path) = 0
  BY DEF Titled
<1>6. \A k \in Range(node[top].kids) : ~ HeadAt(k, key, 0)
  BY <1>2, <1>4, FindStops
<1>7. Begins(node[top].path, key)
  BY <1>4, <1>5 DEF Begins
<1>8. Drop(key, 0) = key
  BY <1>4 DEF Drop
<1>9. GrowsTo(top, a, key)
  <2>1. /\ node'[top] = [Adopt(node[top], a) EXCEPT !.value = NoValue, !.type = "branch"]
        /\ node'[a] = Leaf(key, key, v)
        /\ \A m \in Live \ {top} : node'[m] = node[m]
        /\ Live' = Live \cup {a}
    BY <1>1, <1>3 DEF AddsAtRoot
  <2>2. /\ node'[top].path = node[top].path /\ node'[top].frag = node[top].frag
        /\ node'[top].kids = Append(node[top].kids, a)
    BY <1>1, <2>1 DEF Adopt, Fields
  <2>3. Range(node'[top].kids) = Range(node[top].kids) \cup {a}
    BY <1>1, <2>2, AppendRange
  <2>4. Drop(key, Len(node[top].path)) = key
    <3>1. Len(node[top].path) = 0
      BY <1>5
    <3> QED BY <1>8, <3>1
  <2>5. node'[a].kids = <<>> /\ node'[a].path = key /\ node'[a].frag = key
    BY <2>1 DEF Leaf
  <2>6. \A m \in Live : node'[m].path = node[m].path /\ node'[m].frag = node[m].frag
    BY <2>1, <2>2
  <2> QED BY <2>1, <2>3, <2>4, <2>5, <2>6 DEF GrowsTo
<1> QED BY <1>1, <1>4, <1>5, <1>6, <1>7, <1>9, RadixGrows

\* remove with include_children.
LEMMA RadixRemoves ==
  ASSUME Store, NEW n \in Live \ {Root}, NEW d \in Live, NEW j \in DOMAIN node[d].kids,
         RemovesTree(n, d, j)
  PROVE  Radix'
<1>1. TypeOK /\ HeapIsTree /\ node[d] \in Fields /\ node[d].kids \in Seq(Node)
  BY DEF Store, Tree, TypeOK, HeapTypeOK, Fields
<1>2. NoDanglingKid'
  BY <1>1, TreeRemoves DEF HeapIsTree
<1>3. /\ Live' \subseteq Live
      /\ \A m \in Live' : node'[m] = IF m = d THEN [node[d] EXCEPT !.kids = RemoveAt(@, j)]
                                             ELSE node[m]
  BY DEF RemovesTree
<1>4. \A m \in Live' : /\ node'[m].path = node[m].path /\ node'[m].frag = node[m].frag
                       /\ node'[m].kids = IF m = d THEN RemoveAt(node[d].kids, j)
                                                   ELSE node[m].kids
  BY <1>1, <1>3 DEF Fields
<1>5. Range(RemoveAt(node[d].kids, j)) \subseteq Range(node[d].kids)
  BY <1>1, RemoveAtPlaces DEF Range
<1>6. \A m \in Live' : Range(node'[m].kids) \subseteq Range(node[m].kids)
  BY <1>4, <1>5
<1>7. \A m \in Live' : Range(node'[m].kids) \subseteq Live'
  BY <1>2 DEF NoDanglingKid
<1> QED BY <1>3, <1>4, <1>6, <1>7, RadixShrinks DEF Store

-----------------------------------------------------------------------------
(* The invariant of the store.                                             *)

\* RadixTree is not inductive by itself: where an insert puts its nodes is decided by a
\* search, which is right on a finite tree whose root has neither fragment nor path.
StoreInv == SearchInv /\ RadixTree

\* The invariant without its definitions, in this state
LEMMA StoreInvMeans == StoreInv <=> IInv /\ Store
<1>1. IInv => TypeOK /\ HeapIsTree
  BY DEF IInv
<1>2. Tree /\ RootHasNoTitle => (RadixTree <=> Radix)
  BY RadixMeans
<1> QED BY <1>1, <1>2 DEF StoreInv, SearchInv, Store, Tree

\* and in the next.
LEMMA StoreInvMeansNext == (StoreInv <=> IInv /\ Store)'
BY StoreInvMeans, PTL

\* A proper insert keeps it.
LEMMA InsertKeepsRadix ==
  ASSUME Grove, NEW top \in Live, ~ Titled(top), NEW key \in Key, NEW v \in Value,
         StoreInsert(top, key, v)
  PROVE  Radix'
<1>1. ProperInsert(top, key) /\ InsertKey(top, key, v) /\ HeapTypeOK
  BY DEF StoreInsert, Grove, Wood
<1>2. CASE Replace(top, Find(top, key), v)
  BY <1>1, <1>2, ReplaceStep, RadixSetsValue
<1> QED BY <1>1, <1>2, RadixAddChild, RadixSplit, RadixAddAtRoot DEF InsertKey

\* Any remove keeps it.
LEMMA RemoveKeepsRadix ==
  ASSUME Store, NEW key \in Key, NEW include_children \in BOOLEAN,
         RemoveKey(Root, key, include_children)
  PROVE  Radix'
<1>1. Grove /\ TypeOK
  BY StoreIsGrove DEF Store, Tree
<1>2. PICK r : RemoveTree(Root, r) \/ RemoveValue(Root, r) \/ RemoveNone(r)
  BY DEF RemoveKey
<1>3. CASE RemoveTree(Root, r)
  <2>1. PICK n \in Live \ {Root}, d \in Live :
          \E j \in DOMAIN node[d].kids : RemovesTree(n, d, j)
    BY <1>1, <1>3, RemoveTreeStep DEF TypeOK
  <2> QED BY <2>1, RadixRemoves
<1>4. CASE RemoveValue(Root, r)
  BY <1>1, <1>4, RemoveValueStep, RadixSetsValue DEF TypeOK
<1>5. CASE RemoveNone(r)
  <2>1. node' = node /\ Live' = Live
    BY <1>5 DEF RemoveNone, vars, Live
  <2>2. Radix /\ \A m \in Live : Range(node[m].kids) \subseteq Live
    BY DEF Store, Tree, HeapIsTree, NoDanglingKid
  <2> QED BY <2>1, <2>2, RadixShrinks
<1> QED BY <1>2, <1>3, <1>4, <1>5

\* A step of the store is a step of the trie, and keeps the invariant.
LEMMA StoreInvStep ==
  ASSUME StoreInv, [StoreNext]_vars
  PROVE  [Next]_vars /\ StoreInv'
<1>1. [Next]_vars
  BY DEF StoreNext, Next, StoreInsert, StoreRemove
<1>2. Store /\ SearchInv
  BY StoreInvMeans DEF StoreInv
<1>3. SearchInv'
  BY <1>1, <1>2, SearchInvStep
<1>4. (IInv /\ Tree /\ RootHasNoTitle)'
  BY <1>3 DEF SearchInv, IInv, Tree
<1>5. Radix'
  <2>1. CASE UNCHANGED vars
    <3>1. node' = node /\ Live' = Live
      BY <2>1 DEF vars, Live
    <3>2. Radix /\ \A m \in Live : Range(node[m].kids) \subseteq Live
      BY <1>2 DEF Store, Tree, HeapIsTree, NoDanglingKid
    <3> QED BY <3>1, <3>2, RadixShrinks
  <2>2. CASE StoreNext
    <3>1. PICK key \in Key :
            \/ \E v \in Value : StoreInsert(Root, key, v)
            \/ \E include_children \in BOOLEAN : StoreRemove(Root, key, include_children)
      BY <2>2 DEF StoreNext
    <3> QED BY <1>2, <3>1, StoreIsGrove, InsertKeepsRadix, RemoveKeepsRadix DEF StoreRemove
  <2> QED BY <2>1, <2>2
<1> QED BY <1>1, <1>4, <1>5, StoreInvMeansNext DEF Store

\* The heap ensure_root makes is a radix tree.
LEMMA StoreInvInit == Init => StoreInv
<1> SUFFICES ASSUME Init PROVE StoreInv
  OBVIOUS
<1>1. Live = {Root} /\ node[Root].kids = <<>>
  BY DEF Init, Live
<1>2. Range(node[Root].kids) = {} /\ DOMAIN node[Root].kids = {}
  BY <1>1 DEF Range
<1>3. RadixTree
  BY <1>1, <1>2 DEF RadixTree, PathsConcatenate, SiblingsDiffer
<1> QED BY <1>3, SearchInvInit DEF StoreInv

\* Proper calls keep the invariant of the store, and are calls of the trie.
THEOREM StoreInvariant == StoreSpec => []StoreInv
BY StoreInvInit, StoreInvStep, PTL DEF StoreSpec

\* Under proper calls, in whatever order, every path is the fragments from the root down
\* and no two children of a node begin alike.
THEOREM StoreIsRadixTree == StoreSpec => []RadixTree
<1>1. StoreInv => RadixTree
  BY DEF StoreInv
<1> QED BY <1>1, StoreInvariant, PTL

\* And a search with the path of any node ends in that node: no call makes a stored key
\* unreachable.
THEOREM EveryKeyIsFound == StoreSpec => []EveryPathIsFound
<1>1. StoreInv => EveryPathIsFound
  BY StoreInvMeans, StoreIsGrove, PathFound DEF EveryPathIsFound
<1> QED BY <1>1, StoreInvariant, PTL

-----------------------------------------------------------------------------
(* The trie implements the map.                                            *)

\* The map holds what the nodes hold.
KvHolds == /\ kv \in [Key -> Value \cup {NoValue}]
           /\ \A k \in Key, v \in Value : kv[k] = v <=> <<k, v>> \in Contents

\* The map a trie stands for, key by key, in this state
LEMMA KvMeans == StoreInv => KvHolds
<1> SUFFICES ASSUME StoreInv PROVE KvHolds
  OBVIOUS
<1>1. Store /\ IInv
  BY StoreInvMeans
<1>2. \A n \in Live : node[n].value \in Value \cup {NoValue}
  BY <1>1 DEF IInv, TypeOK, HeapTypeOK, Fields
<1> DEFINE ns(k)  == {n \in Live : node[n].path = k}
           val(k) == IF ns(k) = {} THEN NoValue ELSE node[CHOOSE n \in ns(k) : TRUE].value
<1>3. kv = [k \in Key |-> val(k)]
  BY DEF kv
<1>4. ASSUME NEW k, NEW n \in Live, node[n].path = k PROVE val(k) = node[n].value
  <2>1. n \in ns(k) /\ \A m \in ns(k) : m = n
    BY <1>1, <1>4, PathsDiffer
  <2>2. (CHOOSE m \in ns(k) : TRUE) = n
    <3> HIDE DEF ns
    <3> QED BY <2>1
  <2> QED BY <2>1, <2>2
<1>5. ASSUME NEW k, \A n \in Live : node[n].path # k PROVE val(k) = NoValue
  BY <1>5
<1>6. \A k \in Key : val(k) \in Value \cup {NoValue}
  <2> HIDE DEF val
  <2> QED BY <1>2, <1>4, <1>5
<1>7. ASSUME NEW k \in Key, NEW v \in Value PROVE val(k) = v <=> <<k, v>> \in Contents
  <2>1. ASSUME val(k) = v PROVE <<k, v>> \in Contents
    <3>1. PICK n \in Live : node[n].path = k
      <4> HIDE DEF val
      <4> QED BY <1>5, <2>1, ValueAssumption
    <3>2. node[n].value = v /\ node[n].value # NoValue
      <4> HIDE DEF val
      <4> QED BY <1>4, <2>1, <3>1, ValueAssumption
    <3> QED BY <3>1, <3>2 DEF Contents
  <2>2. ASSUME <<k, v>> \in Contents PROVE val(k) = v
    <3>1. PICK n \in Live : <<k, v>> = <<node[n].path, node[n].value>>
      BY <2>2 DEF Contents
    <3>2. node[n].path = k /\ node[n].value = v
      BY <3>1
    <3> HIDE DEF val
    <3> QED BY <1>4, <3>2
  <2> QED BY <2>1, <2>2
<1> HIDE DEF val
<1> QED BY <1>3, <1>6, <1>7 DEF KvHolds

\* and in the next.
LEMMA KvMeansNext == StoreInv' => KvHolds'
BY KvMeans, PTL

\* If what the nodes hold changes for the keys in K at most, so does the map.
LEMMA KvOutside ==
  ASSUME KvHolds, KvHolds', NEW k \in Key,
         \A v \in Value : <<k, v>> \in Contents' <=> <<k, v>> \in Contents
  PROVE  kv'[k] = kv[k]
BY ValueAssumption DEF KvHolds

\* A key the nodes hold nothing for has no value.
LEMMA KvNothing ==
  ASSUME KvHolds, NEW k \in Key, \A v \in Value : <<k, v>> \notin Contents
  PROVE  kv[k] = NoValue
BY DEF KvHolds

\* A proper insert that allocates nothing sets the value of the node the key is the path of.
LEMMA InsertOverwrites ==
  ASSUME TypeOK, NEW key \in Key, NEW v \in Value, ProperInsert(Root, key), InsertKey(Root, key, v),
         Live' \ Live = {}
  PROVE  \E n \in Live : SetsValue(n, v) /\ node[n].path = key
<1>1. ~ AddChild(Root, Find(Root, key), key, v)
  BY AddChildStep DEF AddsChild, TypeOK
<1>2. ~ Split(Root, Find(Root, key), key, v)
  BY SplitStep DEF Splits, TypeOK
<1>3. ~ AddAtRoot(Root, Find(Root, key), key, v)
  BY AddAtRootStep DEF AddsAtRoot, TypeOK
<1>4. Replace(Root, Find(Root, key), v)
  BY <1>1, <1>2, <1>3 DEF InsertKey
<1>5. PICK n \in Live \ {Root} : Find(Root, key) = Matched(n) /\ SetsValue(n, v)
  BY <1>4, ReplaceStep DEF TypeOK
<1>6. node[n].path = key
  BY <1>5 DEF ProperInsert, Matched, Located
<1> QED BY <1>5, <1>6

\* set is Put.
LEMMA InsertIsPut ==
  ASSUME StoreInv, NEW key \in Key, NEW v \in Value, StoreInsert(Root, key, v)
  PROVE  Map!Put(key, v)
<1>1. Store /\ IInv /\ KvHolds
  BY StoreInvMeans, KvMeans
<1>2. KvHolds'
  <2>1. StoreNext
    BY DEF StoreNext
  <2> QED BY <2>1, StoreInvStep, KvMeansNext
<1>3. ProperInsert(Root, key) /\ InsertKey(Root, key, v)
  BY DEF StoreInsert
<1>4. SUFFICES /\ <<key, v>> \in Contents'
               /\ \A q \in Key \ {key}, w \in Value :
                    <<q, w>> \in Contents' <=> <<q, w>> \in Contents
  <2> SUFFICES ASSUME <<key, v>> \in Contents',
                      \A q \in Key \ {key}, w \in Value :
                        <<q, w>> \in Contents' <=> <<q, w>> \in Contents
               PROVE  Map!Put(key, v)
    OBVIOUS
  <2>1. kv'[key] = v
    BY <1>2 DEF KvHolds
  <2>2. \A q \in Key \ {key} : kv'[q] = kv[q]
    BY <1>1, <1>2, KvOutside
  <2>3. kv' = [kv EXCEPT ![key] = v]
    BY <1>1, <1>2, <2>1, <2>2 DEF KvHolds
  <2> QED BY <2>3 DEF Map!Put
<1>5. CASE Live' \ Live # {}
  <2>1. Contents' = Contents \cup {<<key, v>>}
    BY <1>1, <1>3, <1>5, IInvInsert DEF GrowsContents
  <2> QED BY <2>1
<1>6. CASE Live' \ Live = {}
  <2>1. PICK n \in Live : SetsValue(n, v) /\ node[n].path = key
    BY <1>1, <1>3, <1>6, InsertOverwrites DEF IInv
  <2>2. /\ Live' = Live
        /\ \A m \in Live : /\ node'[m].path = node[m].path
                           /\ node'[m].value = IF m = n THEN v ELSE node[m].value
    BY <1>1, <2>1 DEF SetsValue, IInv, TypeOK, HeapTypeOK, Fields
  <2>3. <<key, v>> \in Contents'
    BY <2>1, <2>2, ValueAssumption DEF Contents
  <2>4. ASSUME NEW q \in Key \ {key}, NEW w \in Value
        PROVE  <<q, w>> \in Contents' <=> <<q, w>> \in Contents
    <3>1. <<q, w>> \in Contents <=>
            \E m \in Live : node[m].path = q /\ node[m].value = w
      BY ValueAssumption DEF Contents
    <3>2. <<q, w>> \in Contents' <=>
            \E m \in Live' : node'[m].path = q /\ node'[m].value = w
      BY ValueAssumption DEF Contents
    <3> QED BY <2>1, <2>2, <3>1, <3>2
  <2> QED BY <2>3, <2>4
<1> QED BY <1>5, <1>6

\* A key that holds a value is the path of a node, and remove's search ends there.
LEMMA HeldIsLocated ==
  ASSUME StoreInv, NEW key \in Key, NEW w \in Value, <<key, w>> \in Contents
  PROVE  /\ Locate(Root, key).matched
         /\ Locate(Root, key).ptr \in Live \ {Root}
         /\ node[Locate(Root, key).ptr].path = key
<1>1. Store /\ RootIsEmpty /\ SearchInv
  BY StoreInvMeans DEF IInv, Titles, StoreInv
<1>2. PICK m \in Live : node[m].path = key /\ node[m].value = w
  BY DEF Contents
<1>3. m # Root
  BY <1>1, <1>2, ValueAssumption DEF RootIsEmpty
<1>4. Find(Root, key) = Matched(m)
  BY <1>1, <1>2, <1>3, StoreIsGrove, PathFound
<1>5. SameAnswer(Find(Root, key), Locate(Root, key))
  BY <1>1, KeyAssumption, AgreeOnKey
<1>6. Locate(Root, key).ptr = m /\ Locate(Root, key).matched = TRUE
  <2>1. SameAnswer(Matched(m), Locate(Root, key))
    BY <1>4, <1>5
  <2>2. Matched(m).ptr = m /\ Matched(m).matched = TRUE
    BY DEF Matched
  <2> QED BY <2>1, <2>2 DEF SameAnswer
<1> QED BY <1>2, <1>3, <1>6

\* So whatever node a proper remove takes, its path is the key or the key with the
\* delimiter, and nothing is left of the key's own value once that node has lost its own.
LEMMA TakenIsNamed ==
  ASSUME StoreInv, NEW key \in Key, ProperRemove(Root, key),
         NEW n \in Live \ {Root}, Takes(Locate(Root, key), n)
  PROVE  /\ node[n].path \in Map!Named(key)
         /\ \A w \in Value : <<key, w>> \in Contents => node[n].path = key
<1>1. Locate(Root, key).ptr = n /\ (Locate(Root, key).matched \/ EndsInDelim(Locate(Root, key)))
  BY DEF Takes
<1>2. node[n].path \in {key, Append(key, Delim)}
  BY <1>1 DEF ProperRemove
<1> QED BY <1>1, <1>2, HeldIsLocated DEF Map!Named

\* The map loses, key by key, what the nodes lose.
LEMMA KvLoses ==
  ASSUME KvHolds, KvHolds', NEW K \in SUBSET Key,
         \A q \in Key, w \in Value :
           <<q, w>> \in Contents' <=> <<q, w>> \in Contents /\ q \notin K
  PROVE  kv' = [q \in Key |-> IF q \in K THEN NoValue ELSE kv[q]]
<1>1. \A q \in Key \ K : kv'[q] = kv[q]
  BY KvOutside
<1>2. ASSUME NEW q \in K PROVE kv'[q] = NoValue
  <2>1. q \in Key /\ kv'[q] \in Value \cup {NoValue}
    BY DEF KvHolds
  <2>2. \A w \in Value : kv'[q] # w
    BY <2>1 DEF KvHolds
  <2> QED BY <2>1, <2>2
<1>3. kv' = [q \in Key |-> kv'[q]]
  BY DEF KvHolds
<1> QED BY <1>1, <1>2, <1>3

\* A remove that finds nothing to take leaves a key that holds nothing.
LEMMA NothingToRemove ==
  ASSUME StoreInv, NEW key \in Key, RemoveNone(Locate(Root, key))
  PROVE  kv' = kv /\ kv'[key] = NoValue
<1>1. KvHolds
  BY KvMeans
<1>2. kv' = kv
  <2>1. node' = node
    BY DEF RemoveNone, vars
  <2> QED BY <2>1 DEF kv, Live
<1>3. \A w \in Value : <<key, w>> \notin Contents
  BY HeldIsLocated DEF RemoveNone
<1> QED BY <1>1, <1>2, <1>3, KvNothing

\* remove with include_children is Erase.
LEMMA RemoveIsErase ==
  ASSUME StoreInv, NEW key \in Key, StoreRemove(Root, key, TRUE)
  PROVE  Map!Erase(key)
<1>1. Store /\ IInv /\ KvHolds /\ TypeOK
  BY StoreInvMeans, KvMeans DEF IInv
<1>2. KvHolds'
  <2>1. StoreNext
    BY DEF StoreNext
  <2> QED BY <2>1, StoreInvStep, KvMeansNext
<1>3. /\ ProperRemove(Root, key)
      /\ RemoveTree(Root, Locate(Root, key)) \/ RemoveNone(Locate(Root, key))
  BY DEF StoreRemove, RemoveKey
<1>4. CASE RemoveNone(Locate(Root, key))
  BY <1>4, NothingToRemove DEF Map!Erase
<1>5. CASE RemoveTree(Root, Locate(Root, key))
  <2>1. PICK n \in Live \ {Root}, d \in Live :
          Takes(Locate(Root, key), n) /\ \E j \in DOMAIN node[d].kids : RemovesTree(n, d, j)
    BY <1>1, <1>5, RemoveTreeStep DEF TypeOK
  <2> DEFINE p == node[n].path  K == {q \in Key : IsPrefix(p, q)}
  <2>2. /\ Live' = Live \ Subtree(n)
        /\ \A m \in Live' : node'[m].path = node[m].path /\ node'[m].value = node[m].value
    BY <1>1, <2>1 DEF RemovesTree, TypeOK, HeapTypeOK, Fields
  <2>3. p \in Seq(Char) /\ p \in Map!Named(key)
    BY <1>1, <1>3, <2>1, TakenIsNamed, StoreIsGrove, NodePath
  <2>4. ASSUME NEW m \in Live, node[m].path \in Key
        PROVE  m \in Subtree(n) <=> node[m].path \in K
    <3>1. m \in Subtree(n) <=> Begins(p, node[m].path)
      BY <1>1, BelowMeansBegins
    <3>2. IsPrefix(p, node[m].path) <=> Begins(p, node[m].path)
      BY <2>3, <2>4, KeyAssumption, PrefixMeans
    <3> QED BY <2>4, <3>1, <3>2
  <2>5. ASSUME NEW q \in Key, NEW w \in Value
        PROVE  <<q, w>> \in Contents' <=> <<q, w>> \in Contents /\ q \notin K
    <3> HIDE DEF K, p
    <3>1. <<q, w>> \in Contents <=>
            \E m \in Live : node[m].path = q /\ node[m].value = w
      BY ValueAssumption DEF Contents
    <3>2. <<q, w>> \in Contents' <=>
            \E m \in Live' : node'[m].path = q /\ node'[m].value = w
      BY ValueAssumption DEF Contents
    <3> QED BY <2>2, <2>4, <3>1, <3>2
  <2>6. kv' = [q \in Key |-> IF q \in K THEN NoValue ELSE kv[q]]
    <3> HIDE DEF K
    <3>1. K \in SUBSET Key
      BY DEF K
    <3> QED BY <1>1, <1>2, <2>5, <3>1, KvLoses
  <2>7. kv' = [q \in Key |-> IF IsPrefix(p, q) THEN NoValue ELSE kv[q]]
    BY <2>6
  <2>8. \A w \in Value : <<key, w>> \in Contents => key \in K
    <3> SUFFICES ASSUME NEW w \in Value, <<key, w>> \in Contents PROVE IsPrefix(p, key)
      OBVIOUS
    <3>1. p = key
      BY <1>3, <2>1, TakenIsNamed
    <3>2. Begins(p, p)
      <4> HIDE DEF p
      <4> QED BY <2>3, BeginsBoth
    <3> QED BY <2>3, <3>1, <3>2, PrefixMeans
  <2>9. kv'[key] = NoValue
    <3> HIDE DEF K
    <3>1. CASE key \in K
      BY <2>6, <3>1
    <3>2. CASE key \notin K
      BY <1>1, <2>6, <2>8, <3>2, KvNothing
    <3> QED BY <3>1, <3>2
  <2> QED BY <2>3, <2>7, <2>9 DEF Map!Erase, Map!IsPrefix, IsPrefix
<1> QED BY <1>3, <1>4, <1>5

\* remove without them is Clear.
LEMMA RemoveIsClear ==
  ASSUME StoreInv, NEW key \in Key, StoreRemove(Root, key, FALSE)
  PROVE  Map!Clear(key)
<1>1. Store /\ IInv /\ KvHolds /\ TypeOK
  BY StoreInvMeans, KvMeans DEF IInv
<1>2. KvHolds'
  <2>1. StoreNext
    BY DEF StoreNext
  <2> QED BY <2>1, StoreInvStep, KvMeansNext
<1>3. /\ ProperRemove(Root, key)
      /\ RemoveValue(Root, Locate(Root, key)) \/ RemoveNone(Locate(Root, key))
  BY DEF StoreRemove, RemoveKey
<1>4. CASE RemoveNone(Locate(Root, key))
  <2>1. kv' = kv /\ kv'[key] = NoValue
    BY <1>4, NothingToRemove
  <2>2. kv' = [q \in Key |-> IF q = key THEN NoValue ELSE kv[q]]
    BY <1>1, <2>1 DEF KvHolds
  <2>3. key \in Map!Named(key)
    BY DEF Map!Named
  <2> QED BY <2>1, <2>2, <2>3 DEF Map!Clear
<1>5. CASE RemoveValue(Root, Locate(Root, key))
  <2>1. PICK n \in Live \ {Root} : Takes(Locate(Root, key), n) /\ SetsValue(n, NoValue)
    BY <1>1, <1>5, RemoveValueStep DEF TypeOK
  <2> DEFINE p == node[n].path  K == {q \in Key : q = p}
  <2>2. /\ Live' = Live
        /\ \A m \in Live : /\ node'[m].path = node[m].path
                           /\ node'[m].value = IF m = n THEN NoValue ELSE node[m].value
    BY <1>1, <2>1 DEF SetsValue, TypeOK, HeapTypeOK, Fields
  <2>3. p \in Map!Named(key)
    BY <1>3, <2>1, TakenIsNamed
  <2>4. \A m \in Live : node[m].path = p => m = n
    BY <1>1, PathsDiffer
  <2>5. ASSUME NEW q \in Key, NEW w \in Value
        PROVE  <<q, w>> \in Contents' <=> <<q, w>> \in Contents /\ q # p
    <3> HIDE DEF p
    <3>1. <<q, w>> \in Contents <=>
            \E m \in Live : node[m].path = q /\ node[m].value = w
      BY ValueAssumption DEF Contents
    <3>2. <<q, w>> \in Contents' <=>
            \E m \in Live' : node'[m].path = q /\ node'[m].value = w
      BY ValueAssumption DEF Contents
    <3>3. p = node[n].path
      BY DEF p
    <3> QED BY <2>2, <2>4, <3>1, <3>2, <3>3, ValueAssumption
  <2>6. kv' = [q \in Key |-> IF q \in K THEN NoValue ELSE kv[q]]
    <3>1. \A q \in Key : q \in K <=> q = p
      OBVIOUS
    <3> HIDE DEF K, p
    <3>2. K \in SUBSET Key
      BY DEF K
    <3> QED BY <1>1, <1>2, <2>5, <3>1, <3>2, KvLoses
  <2>7. kv' = [q \in Key |-> IF q = p THEN NoValue ELSE kv[q]]
    BY <2>6
  <2>8. kv'[key] = NoValue
    <3>1. \A w \in Value : <<key, w>> \in Contents => key = p
      BY <1>3, <2>1, TakenIsNamed
    <3> HIDE DEF p
    <3>2. CASE key = p
      BY <2>7, <3>2
    <3>3. CASE key # p
      BY <1>1, <2>7, <3>1, <3>3, KvNothing
    <3> QED BY <3>2, <3>3
  <2> QED BY <2>3, <2>7, <2>8 DEF Map!Clear
<1> QED BY <1>3, <1>4, <1>5

\* A step of the store is a step of the map, or leaves it as it is.
LEMMA StepIsMapStep ==
  ASSUME StoreInv, [StoreNext]_vars
  PROVE  [Map!Next]_kv
<1>1. CASE UNCHANGED vars
  <2>1. node' = node
    BY <1>1 DEF vars
  <2> QED BY <2>1 DEF kv, Live
<1>2. CASE StoreNext
  <2>1. PICK key \in Key :
          \/ \E v \in Value : StoreInsert(Root, key, v)
          \/ StoreRemove(Root, key, TRUE) \/ StoreRemove(Root, key, FALSE)
    BY <1>2 DEF StoreNext
  <2>2. (\E v \in Value : Map!Put(key, v)) \/ Map!Erase(key) \/ Map!Clear(key)
    BY <2>1, InsertIsPut, RemoveIsErase, RemoveIsClear
  <2> QED BY <2>2 DEF Map!Next
<1> QED BY <1>1, <1>2

\* An empty trie is an empty map.
LEMMA InitIsMapInit == Init => Map!Init
<1> SUFFICES ASSUME Init PROVE Map!Init
  OBVIOUS
<1>1. KvHolds
  BY StoreInvInit, KvMeans
<1>2. Contents = {}
  BY DEF Init, Live, Contents
<1>3. \A q \in Key : kv[q] = NoValue
  BY <1>1, <1>2, KvNothing
<1> QED BY <1>1, <1>3 DEF KvHolds, Map!Init

\* Under proper calls the trie implements the map: a client that looks only at which value
\* each key holds cannot tell it from one.
THEOREM TrieIsMap == StoreSpec => ImplementsMap
BY StoreInvariant, InitIsMapInit, StepIsMapStep, PTL DEF StoreSpec, ImplementsMap, Map!Spec

\* And each call does to the map what its name says: set overwrites its own key and no
\* other, remove takes the key with all that extends it, or its own value alone.
THEOREM CallsAreMapOperations == StoreSpec => CallsImplementMap
<1> DEFINE Ops ==
      \A key \in Key :
        /\ ProperInsert(Root, key) =>
             \A v \in Value : ~ Map!Put(key, v) => ~ InsertKey(Root, key, v)
        /\ ProperRemove(Root, key) =>
             /\ ~ Map!Erase(key) => ~ RemoveKey(Root, key, TRUE)
             /\ ~ Map!Clear(key) => ~ RemoveKey(Root, key, FALSE)
<1>1. ASSUME StoreInv PROVE Ops
  BY <1>1, InsertIsPut, RemoveIsErase, RemoveIsClear DEF StoreInsert, StoreRemove
<1>2. StoreInv /\ [StoreNext]_vars => [Ops]_vars
  BY <1>1
<1> QED BY <1>2, StoreInvariant, PTL DEF StoreSpec, CallsImplementMap
=============================================================================
