---------------------------- MODULE HandleProofs -----------------------------
(***************************************************************************)
(* Theorems about module TrieHandles: whatever the calls on the tries and  *)
(* the ends of other scopes, what a handle points to is a node that lives  *)
(* and lies on the way to its key, and nothing outlives its last owner.    *)
(***************************************************************************)
EXTENDS TrieHandles, StoreProofs

-----------------------------------------------------------------------------
(* Prefixes.                                                               *)

\* IsPrefix of the community modules is an order, on the sequences over any set.
LEMMA PrefixOfPrefix ==
  ASSUME NEW S, NEW s \in Seq(S), NEW t \in Seq(S), NEW u \in Seq(S),
         IsPrefix(s, t), IsPrefix(t, u)
  PROVE  IsPrefix(s, u)
<1>1. /\ Len(s) \in Nat /\ Len(t) \in Nat /\ Len(u) \in Nat
      /\ Len(s) <= Len(t) /\ Len(t) <= Len(u)
      /\ SubSeq(s, 1, Len(s)) = SubSeq(t, 1, Len(s))
      /\ SubSeq(t, 1, Len(t)) = SubSeq(u, 1, Len(t))
  BY DEF IsPrefix
<1>2. \A i \in 1 .. Len(t) : t[i] = u[i]
  <2> SUFFICES ASSUME NEW i \in 1 .. Len(t) PROVE t[i] = u[i]
    OBVIOUS
  <2>1. SubSeq(t, 1, Len(t))[i] = t[i] /\ SubSeq(u, 1, Len(t))[i] = u[i]
    BY <1>1
  <2> QED BY <1>1, <2>1
<1>3. SubSeq(t, 1, Len(s)) = SubSeq(u, 1, Len(s))
  BY <1>1, <1>2
<1> QED BY <1>1, <1>3 DEF IsPrefix

\* A sequence is a prefix of itself; the empty one is a prefix of every other, and has
\* no prefix but itself.
LEMMA PrefixEnds ==
  ASSUME NEW S, NEW s \in Seq(S)
  PROVE  IsPrefix(s, s) /\ IsPrefix(<<>>, s) /\ (IsPrefix(s, <<>>) => s = <<>>)
<1>1. Len(s) \in Nat
  OBVIOUS
<1>2. SubSeq(<<>>, 1, 0) = SubSeq(s, 1, 0)
  OBVIOUS
<1> QED BY <1>1, <1>2 DEF IsPrefix

\* A path with its end cut off is a prefix of the path.
LEMMA ChopIsPrefix ==
  ASSUME NEW s \in Seq(Char), NEW i \in Nat
  PROVE  IsPrefix(Chop(s, i), s)
<1>1. CASE i <= Len(s)
  <2>1. Len(s) - i \in 0 .. Len(s) /\ Chop(s, i) = SubSeq(s, 1, Len(s) - i)
    BY <1>1 DEF Chop
  <2>2. Chop(s, i) \in Seq(Char) /\ Begins(Chop(s, i), s)
    BY <2>1, FirstPart DEF Begins
  <2> QED BY <2>2, PrefixMeans
<1>2. CASE ~ (i <= Len(s))
  BY <1>2, PrefixEnds DEF Chop
<1> QED BY <1>1, <1>2

-----------------------------------------------------------------------------
(* Ownership.                                                              *)

Closed(heap, T) == \A m \in T : Range(heap[m].kids) \subseteq T

\* What Owned(heap, S) is: it holds S and is closed under children...
LEMMA OwnedClosed ==
  ASSUME NEW heap, Closed(heap, DOMAIN heap), NEW S \in SUBSET DOMAIN heap
  PROVE  /\ S \subseteq Owned(heap, S) /\ Owned(heap, S) \subseteq DOMAIN heap
         /\ Closed(heap, Owned(heap, S))
BY DEF Owned, Closed

\* ... and lies in every set of nodes of which that is true.
LEMMA OwnedLeast ==
  ASSUME NEW heap, NEW S, NEW T \in SUBSET DOMAIN heap, S \subseteq T, Closed(heap, T)
  PROVE  Owned(heap, S) \subseteq T
BY DEF Owned, Closed

\* A node is owned if it is in every such set.
LEMMA OwnedIf ==
  ASSUME NEW heap, NEW S, NEW n \in DOMAIN heap,
         \A T \in SUBSET DOMAIN heap : S \subseteq T /\ Closed(heap, T) => n \in T
  PROVE  n \in Owned(heap, S)
BY DEF Owned, Closed

-----------------------------------------------------------------------------
(* The shape of a heap of several trees.                                   *)

\* The searches end: a rank falls from every node to its children.
Founded(heap) ==
  \E rank, bound :
    Descends(DOMAIN heap, rank, bound, [n \in DOMAIN heap |-> Range(heap[n].kids)])

SingleParent(heap) ==
  \A m, n \in DOMAIN heap : \A i \in DOMAIN heap[m].kids, j \in DOMAIN heap[n].kids :
    heap[m].kids[i] = heap[n].kids[j] => m = n /\ i = j

Suffixed(heap) == \A n \in DOMAIN heap : IsSuffix(heap[n].frag, heap[n].path)

\* What tells the children from the roots.
KidsHavePaths(heap) ==
  \A n \in DOMAIN heap : \A k \in Range(heap[n].kids) : heap[k].path # <<>>

\* What a radix tree is, of each of the trees.
Forked(heap) ==
  /\ \A n \in DOMAIN heap : heap[n].path # <<>> => heap[n].frag # <<>>
  /\ \A n \in DOMAIN heap : \A k \in Range(heap[n].kids) :
       heap[k].path = heap[n].path \o heap[k].frag
  /\ \A n \in DOMAIN heap : \A k, q \in Range(heap[n].kids) :
       heap[k].frag[1] = heap[q].frag[1] => k = q

Shape(heap) == /\ Founded(heap) /\ SingleParent(heap)
               /\ Suffixed(heap) /\ KidsHavePaths(heap) /\ Forked(heap)

\* The last three of the heap as it is, in this state
LEMMA RadixIs == Radix <=> Suffixed(node) /\ KidsHavePaths(node) /\ Forked(node)
BY DEF Radix, Suffixed, KidsHavePaths, Forked, KidExtends, Titled, Live

\* and in the next.
LEMMA RadixIsNext == (Radix <=> Suffixed(node) /\ KidsHavePaths(node) /\ Forked(node))'
BY RadixIs, PTL

\* The children of n are those it had, but for one perhaps.
Loses(heap, old, n) ==
  \/ heap[n].kids = old[n].kids
  \/ \E j \in DOMAIN old[n].kids : heap[n].kids = RemoveAt(old[n].kids, j)

Lesser(heap, old) ==
  /\ DOMAIN heap \subseteq DOMAIN old /\ Closed(heap, DOMAIN heap)
  /\ \A n \in DOMAIN heap : /\ heap[n].path = old[n].path /\ heap[n].frag = old[n].frag
                            /\ Loses(heap, old, n)

\* A place of a child that is left was a place of that child.
LEMMA PlaceBefore ==
  ASSUME NEW heap, NEW old, NEW n, old[n].kids \in Seq(Node), Loses(heap, old, n),
         NEW i \in DOMAIN heap[n].kids
  PROVE  \E p \in DOMAIN old[n].kids : heap[n].kids[i] = old[n].kids[p]
<1>1. CASE heap[n].kids = old[n].kids
  BY <1>1
<1>2. CASE \E j \in DOMAIN old[n].kids : heap[n].kids = RemoveAt(old[n].kids, j)
  BY <1>2, RemoveAtPlaces
<1> QED BY <1>1, <1>2 DEF Loses

\* Two places of a child that is left are one if they were.
LEMMA PlacesApart ==
  ASSUME NEW heap, NEW old, NEW n, old[n].kids \in Seq(Node), Loses(heap, old, n),
         \A p, q \in DOMAIN old[n].kids : old[n].kids[p] = old[n].kids[q] => p = q,
         NEW i \in DOMAIN heap[n].kids, NEW k \in DOMAIN heap[n].kids,
         heap[n].kids[i] = heap[n].kids[k]
  PROVE  i = k
<1>1. CASE heap[n].kids = old[n].kids
  BY <1>1
<1>2. ASSUME NEW j \in DOMAIN old[n].kids, heap[n].kids = RemoveAt(old[n].kids, j)
      PROVE  i = k
  <2>1. /\ Place(i, j) \in DOMAIN old[n].kids /\ heap[n].kids[i] = old[n].kids[Place(i, j)]
        /\ Place(k, j) \in DOMAIN old[n].kids /\ heap[n].kids[k] = old[n].kids[Place(k, j)]
        /\ i \in Nat /\ k \in Nat
    <3>1. PICK s \in Seq(Node) : s = old[n].kids
      OBVIOUS
    <3>2. i \in DOMAIN RemoveAt(s, j) /\ k \in DOMAIN RemoveAt(s, j) /\ j \in DOMAIN s
      BY <1>2, <3>1
    <3>3. /\ Place(i, j) \in DOMAIN s /\ RemoveAt(s, j)[i] = s[Place(i, j)] /\ i \in Nat
          /\ Place(k, j) \in DOMAIN s /\ RemoveAt(s, j)[k] = s[Place(k, j)] /\ k \in Nat
      BY <3>2, RemoveAtPlaces
    <3> QED BY <1>2, <3>1, <3>3
  <2>2. Place(i, j) = Place(k, j)
    BY <1>2, <2>1
  <2>3. j \in Nat
    BY <1>2
  <2> QED BY <2>1, <2>2, <2>3 DEF Place
<1> QED BY <1>1, <1>2 DEF Loses

\* Nodes and children may go: what is left has the shape.
LEMMA ShapeOfLess ==
  ASSUME NEW old, old \in [DOMAIN old -> Fields], Shape(old), NEW heap, Lesser(heap, old)
  PROVE  Shape(heap)
<1>1. /\ DOMAIN heap \subseteq DOMAIN old
      /\ \A n \in DOMAIN heap : Range(heap[n].kids) \subseteq DOMAIN heap
      /\ \A n \in DOMAIN heap : old[n].kids \in Seq(Node) /\ Loses(heap, old, n)
  BY DEF Lesser, Closed, Fields
<1>2. ASSUME NEW n \in DOMAIN heap PROVE Range(heap[n].kids) \subseteq Range(old[n].kids)
  <2> SUFFICES ASSUME NEW i \in DOMAIN heap[n].kids
               PROVE  heap[n].kids[i] \in Range(old[n].kids)
    BY DEF Range
  <2>1. PICK p \in DOMAIN old[n].kids : heap[n].kids[i] = old[n].kids[p]
    BY <1>1, PlaceBefore
  <2> QED BY <2>1 DEF Range
<1>3. Founded(heap)
  <2> DEFINE S == DOMAIN heap  was == [n \in DOMAIN old |-> Range(old[n].kids)]
             calls == [n \in S |-> Range(heap[n].kids)]
  <2>1. PICK rank, bound : Descends(DOMAIN old, rank, bound, was)
    BY DEF Shape, Founded
  <2> DEFINE less == [n \in S |-> rank[n]]
  <2>2. /\ rank \in [DOMAIN old -> Nat] /\ bound \in Nat
        /\ \A n \in DOMAIN old : rank[n] < bound /\ \A k \in Range(old[n].kids) : rank[k] < rank[n]
    BY <2>1 DEF Descends
  <2>3. less \in [S -> Nat] /\ calls \in [S -> SUBSET S]
    BY <1>1, <2>2
  <2>4. ASSUME NEW n \in S
        PROVE  less[n] < bound /\ \A k \in calls[n] : less[k] < less[n]
    <3>1. n \in DOMAIN old /\ calls[n] = Range(heap[n].kids) /\ less[n] = rank[n]
      BY <1>1
    <3>2. \A k \in calls[n] : k \in S /\ k \in Range(old[n].kids)
      BY <1>1, <1>2, <3>1
    <3>3. \A k \in calls[n] : less[k] = rank[k]
      BY <3>2
    <3> HIDE DEF less, calls, S
    <3> QED BY <2>2, <3>1, <3>2, <3>3
  <2>5. Descends(S, less, bound, calls)
    <3> HIDE DEF S, less, calls
    <3> QED BY <2>2, <2>3, <2>4 DEF Descends
  <2> HIDE DEF less
  <2> QED BY <2>5 DEF Founded
<1>4. SingleParent(heap)
  <2> SUFFICES ASSUME NEW m \in DOMAIN heap, NEW n \in DOMAIN heap,
                      NEW i \in DOMAIN heap[m].kids, NEW k \in DOMAIN heap[n].kids,
                      heap[m].kids[i] = heap[n].kids[k]
               PROVE  m = n /\ i = k
    BY DEF SingleParent
  <2>1. PICK p \in DOMAIN old[m].kids : heap[m].kids[i] = old[m].kids[p]
    BY <1>1, PlaceBefore
  <2>2. PICK q \in DOMAIN old[n].kids : heap[n].kids[k] = old[n].kids[q]
    BY <1>1, PlaceBefore
  <2>3. m = n
    <3>1. m \in DOMAIN old /\ n \in DOMAIN old /\ old[m].kids[p] = old[n].kids[q]
      BY <1>1, <2>1, <2>2
    <3> QED BY <3>1 DEF Shape, SingleParent
  <2>4. \A x, y \in DOMAIN old[n].kids : old[n].kids[x] = old[n].kids[y] => x = y
    BY <1>1 DEF Shape, SingleParent
  <2> QED BY <1>1, <2>3, <2>4, PlacesApart
<1>5. Suffixed(heap)
  BY <1>1 DEF Lesser, Shape, Suffixed
<1>6. KidsHavePaths(heap)
  BY <1>1, <1>2 DEF Lesser, Shape, KidsHavePaths
<1>7. Forked(heap)
  <2>1. \A n \in DOMAIN heap : heap[n].path = old[n].path /\ heap[n].frag = old[n].frag
    BY DEF Lesser
  <2>2. \A n \in DOMAIN heap : \A k \in Range(heap[n].kids) :
          /\ k \in DOMAIN heap /\ n \in DOMAIN old /\ k \in Range(old[n].kids)
          /\ heap[k].path = old[k].path /\ heap[k].frag = old[k].frag
    BY <1>1, <1>2, <2>1
  <2>3. Forked(old)
    BY DEF Shape
  <2>4. \A n \in DOMAIN heap : heap[n].path # <<>> => heap[n].frag # <<>>
    BY <1>1, <2>1, <2>3 DEF Forked
  <2>5. \A n \in DOMAIN heap : \A k \in Range(heap[n].kids) :
          heap[k].path = heap[n].path \o heap[k].frag
    <3> SUFFICES ASSUME NEW n \in DOMAIN heap, NEW k \in Range(heap[n].kids)
                 PROVE  heap[k].path = heap[n].path \o heap[k].frag
      OBVIOUS
    <3>1. old[k].path = old[n].path \o old[k].frag
      <4>1. \A m \in DOMAIN old : \A x \in Range(old[m].kids) :
              old[x].path = old[m].path \o old[x].frag
        BY <2>3, Zenon DEF Forked
      <4> QED BY <2>2, <4>1, Zenon
    <3>2. heap[k].path = old[k].path /\ heap[k].frag = old[k].frag /\ heap[n].path = old[n].path
      BY <2>1, <2>2
    <3> QED BY <3>1, <3>2, Zenon
  <2>6. \A n \in DOMAIN heap : \A k, q \in Range(heap[n].kids) :
          heap[k].frag[1] = heap[q].frag[1] => k = q
    BY <2>2, <2>3 DEF Forked
  <2> QED BY <2>4, <2>5, <2>6 DEF Forked
<1> QED BY <1>3, <1>4, <1>5, <1>6, <1>7 DEF Shape


HeapOK == HeapTypeOK /\ Closed(node, Live)

\* A node more without path and children leaves it.
LEMMA ShapeOfFresh ==
  ASSUME Shape(node), HeapOK, NEW heap, NEW a \in Node \ Live, DOMAIN heap = Live \cup {a},
         \A n \in Live : heap[n] = node[n],
         heap[a].kids = <<>>, heap[a].path = <<>>, heap[a].frag = <<>>
  PROVE  Shape(heap)
<1>1. /\ Range(heap[a].kids) = {} /\ DOMAIN heap[a].kids = {} /\ Live = DOMAIN node
      /\ \A n \in Live : Range(node[n].kids) \subseteq Live
  BY DEF Range, Live, HeapOK, Closed
<1>2. Founded(heap)
  <2> DEFINE was == [n \in DOMAIN node |-> Range(node[n].kids)]
             S == DOMAIN heap  calls == [n \in S |-> Range(heap[n].kids)]
  <2>1. PICK rank, bound : Descends(DOMAIN node, rank, bound, was)
    BY DEF Shape, Founded
  <2>2. /\ rank \in [Live -> Nat] /\ bound \in Nat
        /\ \A n \in Live : rank[n] < bound /\ \A k \in Range(node[n].kids) : rank[k] < rank[n]
    BY <1>1, <2>1 DEF Descends
  <2> DEFINE more == [n \in S |-> IF n \in Live THEN rank[n] ELSE 0]
  <2>3. more \in [S -> Nat] /\ calls \in [S -> SUBSET S] /\ bound + 1 \in Nat
    BY <1>1, <2>2
  <2>4. ASSUME NEW n \in S
        PROVE  more[n] < bound + 1 /\ \A k \in calls[n] : more[k] < more[n]
    <3>1. CASE n \in Live
      <4>1. more[n] = rank[n] /\ calls[n] = Range(node[n].kids)
        BY <3>1
      <4>2. \A k \in calls[n] : k \in Live /\ k \in S
        BY <1>1, <3>1, <4>1
      <4>3. \A k \in calls[n] : more[k] = rank[k]
        BY <4>2
      <4> HIDE DEF more, calls
      <4> QED BY <2>2, <3>1, <4>1, <4>3
    <3>2. CASE n \notin Live
      BY <1>1, <2>2, <3>2
    <3> QED BY <3>1, <3>2
  <2>5. Descends(S, more, bound + 1, calls)
    <3> HIDE DEF S, more, calls
    <3> QED BY <2>3, <2>4 DEF Descends
  <2> HIDE DEF more
  <2> QED BY <2>5 DEF Founded
<1>3. SingleParent(heap)
  BY <1>1 DEF Shape, SingleParent
<1>4. Suffixed(heap)
  <2>1. <<>> \in Seq(Char)
    OBVIOUS
  <2> QED BY <1>1, <2>1, SuffixRefl DEF Shape, Suffixed
<1>5. KidsHavePaths(heap)
  BY <1>1 DEF Shape, KidsHavePaths
<1>6. Forked(heap)
  <2>1. Forked(node)
    BY DEF Shape
  <2>2. \A n \in DOMAIN heap : \A k \in Range(heap[n].kids) :
          /\ n \in Live /\ k \in Live /\ heap[n] = node[n] /\ heap[k] = node[k]
          /\ k \in Range(node[n].kids)
    BY <1>1
  <2>3. \A n \in DOMAIN heap : heap[n].path # <<>> => heap[n].frag # <<>>
    BY <1>1, <2>1 DEF Forked
  <2>4. \A n \in DOMAIN heap : \A k \in Range(heap[n].kids) :
          heap[k].path = heap[n].path \o heap[k].frag
    <3> SUFFICES ASSUME NEW n \in DOMAIN heap, NEW k \in Range(heap[n].kids)
                 PROVE  heap[k].path = heap[n].path \o heap[k].frag
      OBVIOUS
    <3>1. \A m \in Live : \A x \in Range(node[m].kids) :
            node[x].path = node[m].path \o node[x].frag
      BY <2>1, Zenon DEF Forked, Live
    <3>2. node[k].path = node[n].path \o node[k].frag
      BY <2>2, <3>1, Zenon
    <3> QED BY <2>2, <3>2, Zenon
  <2>5. \A n \in DOMAIN heap : \A k, q \in Range(heap[n].kids) :
          heap[k].frag[1] = heap[q].frag[1] => k = q
    BY <1>1, <2>1, <2>2 DEF Forked
  <2> QED BY <2>3, <2>4, <2>5 DEF Forked
<1> QED BY <1>2, <1>3, <1>4, <1>5, <1>6 DEF Shape

\* Nodes without path and children have it.
LEMMA ShapeOfRoots ==
  ASSUME NEW heap,
         \A n \in DOMAIN heap : heap[n].kids = <<>> /\ heap[n].path = <<>> /\ heap[n].frag = <<>>
  PROVE  Shape(heap)
<1>1. \A n \in DOMAIN heap : Range(heap[n].kids) = {} /\ DOMAIN heap[n].kids = {}
  BY DEF Range
<1>2. Founded(heap)
  <2> DEFINE calls == [m \in DOMAIN heap |-> Range(heap[m].kids)]  rank == [m \in DOMAIN heap |-> 0]
  <2>1. rank \in [DOMAIN heap -> Nat] /\ 1 \in Nat /\ calls \in [DOMAIN heap -> SUBSET DOMAIN heap]
    BY <1>1
  <2>2. \A m \in DOMAIN heap : rank[m] < 1 /\ \A k \in calls[m] : rank[k] < rank[m]
    BY <1>1
  <2>3. Descends(DOMAIN heap, rank, 1, calls)
    <3> HIDE DEF rank, calls
    <3> QED BY <2>1, <2>2 DEF Descends
  <2> HIDE DEF rank
  <2> QED BY <2>3 DEF Founded
<1>3. Suffixed(heap)
  <2>1. <<>> \in Seq(Char)
    OBVIOUS
  <2> QED BY <2>1, SuffixRefl DEF Suffixed
<1> QED BY <1>1, <1>2, <1>3 DEF Shape, SingleParent, KidsHavePaths, Forked

\* New children without children of their own leave the shape of radix trees, if it is one
\* of radix trees.
LEMMA ShapeGrows ==
  ASSUME HeapOK, Shape(node), NEW n \in Live, NEW s \in Seq(Node \ Live),
         \A i, j \in DOMAIN s : s[i] = s[j] => i = j, GrowsAt(n, s), Radix'
  PROVE  Shape(node')
<1>1. /\ Live' = Live \cup Range(s) /\ Live = DOMAIN node /\ Live' = DOMAIN node'
      /\ \A m \in Live : Range(node[m].kids) \subseteq Live
      /\ node[n].kids \in Seq(Node) /\ s \in Seq(Node)
  BY DEF GrowsAt, Live, HeapOK, HeapTypeOK, Closed, Fields
<1>2. /\ Range(node'[n].kids) \subseteq Range(node[n].kids) \cup Range(s)
      /\ \A m \in Live \ {n} : node'[m].kids = node[m].kids
      /\ \A m \in Range(s) : m \notin Live /\ Range(node'[m].kids) = {}
  <2>1. node'[n].kids = node[n].kids \o s
    BY DEF GrowsAt
  <2>2. \A m \in Range(s) : m \notin Live /\ node'[m].kids = <<>>
    BY DEF GrowsAt, Range
  <2>3. Range(<<>>) = {}
    BY DEF Range
  <2>4. Range(node[n].kids \o s) \subseteq Range(node[n].kids) \cup Range(s)
    BY <1>1, ConcatRange
  <2> QED BY <2>1, <2>2, <2>3, <2>4 DEF GrowsAt
\* A child in the new heap was the same node's, or is one of s.
<1>3. \A m \in Live' : \A k \in Range(node'[m].kids) :
        \/ m \in Live /\ k \in Range(node[m].kids) /\ k \in Live
        \/ m \in Live /\ k \in Range(s)
  BY <1>1, <1>2
<1>4. Founded(node')
  <2> DEFINE was == [m \in DOMAIN node |-> Range(node[m].kids)]
             S == DOMAIN node'  calls == [m \in S |-> Range(node'[m].kids)]
  <2>1. PICK rank, bound : Descends(DOMAIN node, rank, bound, was)
    BY DEF Shape, Founded
  <2>2. /\ rank \in [Live -> Nat] /\ bound \in Nat
        /\ \A m \in Live : rank[m] < bound /\ \A k \in Range(node[m].kids) : rank[k] < rank[m]
    BY <1>1, <2>1 DEF Descends
  <2> DEFINE more == [m \in S |-> IF m \in Live THEN rank[m] + 1 ELSE 0]
  <2>3. more \in [S -> Nat] /\ calls \in [S -> SUBSET S] /\ bound + 1 \in Nat
    BY <1>1, <1>3, <2>2
  <2>4. ASSUME NEW m \in S
        PROVE  more[m] < bound + 1 /\ \A k \in calls[m] : more[k] < more[m]
    <3>1. more[m] < bound + 1
      BY <2>2
    <3>2. ASSUME NEW k \in calls[m] PROVE more[k] < more[m]
      <4>1. k \in Range(node'[m].kids) /\ m \in Live /\ more[m] = rank[m] + 1 /\ k \in S
        BY <1>1, <1>3
      <4>2. CASE k \in Range(node[m].kids) /\ k \in Live
        <5>1. more[k] = rank[k] + 1 /\ rank[k] < rank[m] /\ rank[k] \in Nat /\ rank[m] \in Nat
          BY <2>2, <4>1, <4>2
        <5> HIDE DEF more
        <5> QED BY <4>1, <5>1
      <4>3. CASE k \in Range(s)
        <5>1. more[k] = 0 /\ rank[m] \in Nat
          BY <1>2, <2>2, <4>1, <4>3
        <5> HIDE DEF more
        <5> QED BY <4>1, <5>1
      <4> QED BY <1>1, <1>3, <4>1, <4>2, <4>3
    <3> QED BY <3>1, <3>2
  <2>5. Descends(S, more, bound + 1, calls)
    <3> HIDE DEF S, more, calls
    <3> QED BY <2>3, <2>4 DEF Descends
  <2> HIDE DEF more
  <2> QED BY <2>5 DEF Founded
<1>5. SingleParent(node')
  <2>1. OneParent
    BY <1>1 DEF Shape, SingleParent, OneParent
  <2>2. OneParent'
    BY <1>1, <2>1, OneParentGrows DEF HeapOK
  <2> QED BY <1>1, <2>2 DEF SingleParent, OneParent
<1> QED BY <1>4, <1>5, RadixIsNext DEF Shape

\* The trees of a heap with a shape are radix trees.
LEMMA ShapeIsGrove ==
  ASSUME HeapTypeOK, Shape(node)
  PROVE  Grove
<1>1. [n \in DOMAIN node |-> Range(node[n].kids)] = KidsOf /\ DOMAIN node = Live
  BY DEF KidsOf, Live
<1>2. Wood
  BY <1>1 DEF Shape, Founded, Wood
<1> QED BY <1>2, RadixIs DEF Shape, Grove

\* What a proper insert below the root of a tree knows of where the search ended.
LEMMA ProperMeans ==
  ASSUME NEW top, NEW key \in Key, ProperInsert(top, key),
         NEW n, NEW pms, pms > 0, Find(top, key) = Partial(n, pms)
  PROVE  /\ IsPrefix(Chop(node[n].path, Len(node[n].frag) - pms), key)
         /\ Len(Chop(node[n].path, Len(node[n].frag) - pms)) < Len(key)
         /\ key # <<>>
<1>1. IsHit(Partial(n, pms)) /\ ~ Partial(n, pms).matched
  BY DEF Partial, IsHit
<1>2. Located(Partial(n, pms)) = Chop(node[n].path, Len(node[n].frag) - pms)
  BY DEF Partial, Located
<1> QED BY <1>1, <1>2 DEF ProperInsert

\* Nothing chopped off.
LEMMA ChopNothing ==
  ASSUME NEW s \in Seq(Char)
  PROVE  Chop(s, 0) = s
<1>1. Len(s) \in Nat /\ Len(s) - 0 = Len(s) /\ 0 <= Len(s)
  OBVIOUS
<1>2. SubSeq(s, 1, Len(s)) = s
  BY <1>1
<1> QED BY <1>1, <1>2 DEF Chop

\* Every branch of a proper insert leaves the shape, and reads no key past its end.
LEMMA InsertKeepsShape ==
  ASSUME HeapOK, Shape(node), ~ oob, NEW top \in Live, node[top].path = <<>>,
         NEW key \in Key, NEW v \in Value, StoreInsert(top, key, v)
  PROVE  Shape(node') /\ ~ oob'
<1>1. /\ HeapTypeOK /\ node \in [Live -> Fields] /\ Live = DOMAIN node /\ Live' = DOMAIN node'
      /\ ProperInsert(top, key) /\ key \in Seq(Char) /\ key # <<>>
      /\ \A m \in Live : Range(node[m].kids) \subseteq Live
  BY KeyAssumption DEF HeapOK, HeapTypeOK, Live, StoreInsert, ProperInsert, Closed
<1>2. /\ \A m \in Live : node[m].path \in Seq(Char) /\ node[m].frag \in Seq(Char)
      /\ \A m \in Live : IsSuffix(node[m].frag, node[m].path)
      /\ Radix'
  BY <1>1, ShapeIsGrove, InsertKeepsRadix DEF Fields, Shape, Suffixed, Titled
<1> DEFINE r == Find(top, key)
<1> HIDE DEF r
<1>3. CASE Replace(top, r, v)
  <2>1. PICK n \in Live : SetsValue(n, v)
    BY <1>1, <1>3, ReplaceStep
  <2>2. /\ oob' = oob /\ Live' = Live
        /\ \A m \in Live : /\ node'[m].path = node[m].path /\ node'[m].frag = node[m].frag
                           /\ node'[m].kids = node[m].kids
    BY <1>1, <2>1 DEF SetsValue, Fields
  <2>3. Lesser(node', node)
    BY <1>1, <2>2 DEF Lesser, Loses, Closed
  <2> QED BY <1>1, <2>2, <2>3, ShapeOfLess
<1>4. CASE AddChild(top, r, key, v)
  <2>1. PICK n \in Live, a \in Node \ Live :
          /\ r = Partial(n, Len(node[n].frag))
          /\ \E title \in RestTitle(key, Len(node[n].path)) : AddsChild(key, v, n, a, title)
    BY <1>1, <1>4, AddChildStep
  <2>2. PICK title \in RestTitle(key, Len(node[n].path)) : AddsChild(key, v, n, a, title)
    BY <2>1
  <2>3. Len(node[n].path) < Len(key) /\ Len(node[n].path) \in Nat
    <3>1. Len(node[n].frag) > 0 /\ Len(node[n].frag) - Len(node[n].frag) = 0
      BY <1>2, <2>2 DEF AddsChild
    <3>2. Len(Chop(node[n].path, Len(node[n].frag) - Len(node[n].frag))) < Len(key)
      BY <1>1, <2>1, <3>1, ProperMeans DEF r
    <3>3. Chop(node[n].path, 0) = node[n].path
      BY <1>2, ChopNothing
    <3> QED BY <1>2, <3>1, <3>2, <3>3
  <2>4. ~ oob'
    <3>1. oob' = (oob \/ Len(node[n].path) > Len(key))
      BY <2>2 DEF AddsChild
    <3>2. ~ (Len(node[n].path) > Len(key))
      BY <1>1, <2>3
    <3> QED BY <3>1, <3>2
  <2>5. GrowsAt(n, <<a>>) /\ Range(<<a>>) = {a} /\ <<a>> \in Seq(Node \ Live)
    BY <1>1, <2>2, AddChildGrows DEF Range
  <2>6. \A i, j \in DOMAIN <<a>> : <<a>>[i] = <<a>>[j] => i = j
    OBVIOUS
  <2>7. Shape(node')
    BY <1>1, <1>2, <2>5, <2>6, ShapeGrows
  <2> QED BY <2>4, <2>7
<1>5. CASE Split(top, r, key, v)
  <2>1. PICK n \in Live, b \in Node \ Live :
        \E c \in Node \ (Live \cup {b}), pms \in 1 .. Len(node[n].frag) - 1 :
          /\ r = Partial(n, pms)
          /\ \E title \in RestTitle(key, CutAt(n, pms)) : Splits(key, v, n, pms, b, c, title)
    BY <1>1, <1>5, SplitStep
  <2>2. PICK c \in Node \ (Live \cup {b}), pms \in 1 .. Len(node[n].frag) - 1 :
          /\ r = Partial(n, pms)
          /\ \E title \in RestTitle(key, CutAt(n, pms)) : Splits(key, v, n, pms, b, c, title)
    BY <2>1
  <2>3. PICK title \in RestTitle(key, CutAt(n, pms)) : Splits(key, v, n, pms, b, c, title)
    BY <2>2
  <2>4. /\ pms \in Nat /\ pms > 0 /\ pms <= Len(node[n].frag) /\ Len(node[n].frag) - pms \in Nat
        /\ Len(node[n].frag) > 0
    <3>1. Len(node[n].frag) \in Nat
      BY <1>2
    <3> QED BY <3>1
  <2>5. CutAt(n, pms) < Len(key) /\ CutAt(n, pms) \in Nat
    <3>1. CutAt(n, pms) < Len(key)
      BY <1>1, <2>2, <2>4, ProperMeans DEF r, CutAt
    <3> QED BY <1>2, <2>4, <3>1, ChopType DEF CutAt
  <2>6. ~ oob'
    <3>1. oob' = (oob \/ CutAt(n, pms) > Len(key))
      BY <2>3 DEF Splits
    <3>2. ~ (CutAt(n, pms) > Len(key))
      BY <1>1, <2>5
    <3> QED BY <3>1, <3>2
  <2>7. GrowsAt(n, <<b, c>>) /\ Range(<<b, c>>) = {b, c} /\ <<b, c>> \in Seq(Node \ Live) /\ b # c
    BY <1>1, <2>3, SplitGrows DEF Range
  <2>8. \A i, j \in DOMAIN <<b, c>> : <<b, c>>[i] = <<b, c>>[j] => i = j
    BY <2>7
  <2>9. Shape(node')
    BY <1>1, <1>2, <2>7, <2>8, ShapeGrows
  <2> QED BY <2>6, <2>9
<1>6. CASE AddAtRoot(top, r, key, v)
  <2>1. PICK a \in Node \ Live : AddsAtRoot(top, key, v, a)
    BY <1>1, <1>6, AddAtRootStep
  <2>2. GrowsAt(top, <<a>>) /\ Range(<<a>>) = {a} /\ <<a>> \in Seq(Node \ Live)
    BY <1>1, <2>1, AddAtRootGrows DEF Range
  <2>3. oob' = oob
    BY <2>1 DEF AddsAtRoot
  <2>4. \A i, j \in DOMAIN <<a>> : <<a>>[i] = <<a>>[j] => i = j
    OBVIOUS
  <2>5. Shape(node')
    BY <1>1, <1>2, <2>2, <2>4, ShapeGrows
  <2> QED BY <2>3, <2>5
<1>7. InsertKey(top, key, v)
  BY DEF StoreInsert
<1> QED BY <1>3, <1>4, <1>5, <1>6, <1>7 DEF InsertKey, r

-----------------------------------------------------------------------------
(* Searches in one tree of several.                                        *)

\* An answer about a node of T that has no more of its fragment matched than there is.
EndsIn(r, T) == IsHit(r) => r.ptr \in T /\ r.pms <= Len(node[r.ptr].frag)

\* A search ends where it began, or below.
LEMMA SearchEndsIn ==
  ASSUME Wood, NEW T \in SUBSET Live, Closed(node, T), NEW top \in T, NEW key \in Seq(Char)
  PROVE  EndsIn(Find(top, key), T)
<1>1. PICK f : Searches(f, key) /\ Find(top, key) = f[top][0]
  BY FindIs
<1> DEFINE P(n) == \A i \in 0 .. Len(key) : EndsIn(f[n][i], T)
           U == {n \in Live : n \in T => P(n)}
<1>2. ASSUME NEW n \in Live, Range(node[n].kids) \subseteq U PROVE n \in U
  <2> SUFFICES ASSUME n \in T, NEW i \in 0 .. Len(key) PROVE EndsIn(f[n][i], T)
    OBVIOUS
  <2> DEFINE x == node[n]  cp == Shared(n, key, i)  as == Answers(f, n, key, i)
  <2>1. /\ i + cp \in 0 .. Len(key) /\ cp \in Nat
        /\ Len(x.kids) \in Nat /\ DOMAIN x.kids = 1 .. Len(x.kids)
        /\ \A j \in 1 .. Len(x.kids) : x.kids[j] \in Range(x.kids)
        /\ x.frag \in Seq(Char) /\ Rest(key, i) \in Seq(Char)
    BY <1>2, ChildAsked DEF Shared, Rest
  <2>2. \A j \in 1 .. Len(x.kids) : EndsIn(as[j], T)
    <3> SUFFICES ASSUME NEW j \in 1 .. Len(x.kids) PROVE EndsIn(as[j], T)
      OBVIOUS
    <3>1. as[j] = f[x.kids[j]][i + cp]
      BY <2>1 DEF Answers
    <3>2. x.kids[j] \in T /\ x.kids[j] \in U
      BY <1>2, <2>1 DEF Closed
    <3>3. P(x.kids[j])
      BY <3>2
    <3> QED BY <2>1, <3>1, <3>3
  <2>3. DOMAIN as = 1 .. Len(x.kids)
    BY <2>1 DEF Answers
  <2>4. EndsIn(Miss, T) /\ EndsIn(Matched(n), T) /\ EndsIn(Partial(n, cp), T)
    <3>1. cp <= Len(x.frag)
      BY <2>1, CommonPrefixIs DEF Shared
    <3>2. Len(x.frag) \in Nat
      BY <2>1
    <3> QED BY <3>1, <3>2 DEF EndsIn, IsHit, Miss, Matched, Partial
  <2>5. ASSUME NEW other, EndsIn(other, T) PROVE EndsIn(FirstHit(as, other), T)
    <3> HIDE DEF as
    <3> DEFINE A == {other} \cup {as[j] : j \in 1 .. Len(x.kids)}
    <3>1. other \in A /\ \A j \in 1 .. Len(x.kids) : as[j] \in A
      OBVIOUS
    <3>2. \A r \in A : EndsIn(r, T)
      BY <2>2, <2>5
    <3> HIDE DEF A
    <3>3. PICK m \in Nat : m = Len(x.kids)
      BY <2>1
    <3>4. FirstHit(as, other) \in A
      BY <2>3, <3>1, <3>3, FirstHitIn
    <3> QED BY <3>2, <3>4
  <2>6. f[n][i] = FindAt(n, key, i, f)
    BY <1>1 DEF Searches
  <2>7. FindAt(n, key, i, f) \in {Miss, Matched(n), Partial(n, cp), FirstHit(as, Miss),
                                 FirstHit(as, Partial(n, cp))}
    BY FindAtCases
  <2> HIDE DEF as, cp
  <2> QED BY <2>4, <2>5, <2>6, <2>7
<1> HIDE DEF U
<1>3. U = Live
  BY <1>2, WoodInduction DEF U
<1>4. 0 \in 0 .. Len(key)
  OBVIOUS
<1> QED BY <1>1, <1>3, <1>4 DEF U


\* What a search of one of the tries ends in: a node of its tree.
LEMMA SearchBelow ==
  ASSUME HeapOK, Shape(node), NEW top \in Live, node[top].path = <<>>, NEW key \in Seq(Char)
  PROVE  LET f == Find(top, key)  l == Locate(top, key) IN
         /\ SameAnswer(f, l) /\ f \in Answer /\ l \in LocAnswer
         /\ IsHit(f) => /\ Hangs(l) /\ f.ptr \in Owned(node, {top})
                        /\ f.pms <= Len(node[f.ptr].frag)
<1>1. Wood
  BY ShapeIsGrove DEF HeapOK, Grove
<1>2. node[top].frag = <<>>
  <2>1. node[top].frag \in Seq(Char) /\ <<>> \in Seq(Char)
    BY DEF HeapOK, HeapTypeOK, Fields
  <2>2. IsSuffix(node[top].frag, <<>>)
    BY DEF Shape, Suffixed, Live
  <2>3. Len(node[top].frag) <= Len(<<>>)
    BY <2>1, <2>2, SuffixMeans
  <2> QED BY <2>1, <2>3
<1> DEFINE T == Owned(node, {top})
<1>3. T \in SUBSET Live /\ Closed(node, T) /\ top \in T
  BY OwnedClosed DEF HeapOK, Live
<1> HIDE DEF T
<1>4. EndsIn(Find(top, key), T)
  BY <1>1, <1>3, SearchEndsIn
<1> QED BY <1>1, <1>2, <1>4, AgreeBelow DEF EndsIn, T

\* What is appended comes last, and the rest stays in its place.
LEMMA AppendMeans ==
  ASSUME NEW S, NEW s \in Seq(S), NEW d \in S
  PROVE  /\ Len(s) \in Nat /\ Append(s, d) \in Seq(S) /\ Len(Append(s, d)) = Len(s) + 1
         /\ Append(s, d)[Len(s) + 1] = d
         /\ \A i \in 1 .. Len(s) : Append(s, d)[i] = s[i]
<1>1. Len(s) \in Nat /\ Append(s, d) \in Seq(S) /\ Len(Append(s, d)) = Len(s) + 1
  OBVIOUS
<1>2. Append(s, d)[Len(s) + 1] = d
  OBVIOUS
<1>3. \A i \in 1 .. Len(s) : Append(s, d)[i] = s[i]
  OBVIOUS
<1> QED BY <1>1, <1>2, <1>3

\* What a sequence is with one more at its end begins with the sequence.
LEMMA AppendBegins ==
  ASSUME NEW S, NEW s \in Seq(S), NEW d \in S
  PROVE  IsPrefix(s, Append(s, d))
<1>1. Len(s) \in Nat /\ Append(s, d) \in Seq(S) /\ Len(Append(s, d)) = Len(s) + 1
  BY AppendMeans
<1>2. SubSeq(Append(s, d), 1, Len(s)) = SubSeq(s, 1, Len(s))
  <2>1. \A i \in 1 .. Len(s) : Append(s, d)[i] = s[i]
    BY AppendMeans
  <2> QED BY <1>1, <2>1
<1> QED BY <1>1, <1>2 DEF IsPrefix

\* A path that ends with the delimiter, from what is left when that is cut off.
LEMMA PutBackLast ==
  ASSUME NEW p \in Seq(Char), NEW f \in Seq(Char), IsSuffix(f, p), Len(f) > 0, Last(f) = Delim
  PROVE  p = Append(Chop(p, 1), Delim)
<1>1. PICK k \in Nat, m \in Nat : k = Len(p) /\ m = Len(f)
  OBVIOUS
<1>2. 1 <= k /\ f[m] = p[k]
  <2>1. m <= k /\ \A i \in 1 .. m : f[i] = p[k - m + i]
    BY <1>1, SuffixMeans
  <2>2. m > 0
    BY <1>1
  <2>3. m \in 1 .. m /\ k - m + m = k /\ 1 <= k
    BY <2>1, <2>2
  <2> QED BY <2>1, <2>3
<1>3. p[k] = Delim
  BY <1>1, <1>2 DEF Last
<1>4. PICK c \in Seq(Char) : c = Chop(p, 1)
  BY ChopType
<1>5. Len(c) = k - 1 /\ \A i \in 1 .. k - 1 : c[i] = p[i]
  <2>1. c = SubSeq(p, 1, k - 1) /\ k - 1 \in Nat
    BY <1>1, <1>2, <1>4 DEF Chop
  <2> QED BY <1>1, <2>1
<1>6. PICK q : q = Append(c, Delim)
  OBVIOUS
<1>7. /\ q \in Seq(Char \cup {Delim}) /\ Len(q) = k
      /\ q[k] = p[k] /\ \A i \in 1 .. k - 1 : q[i] = p[i]
  <2>1. c \in Seq(Char \cup {Delim}) /\ Delim \in Char \cup {Delim}
    OBVIOUS
  <2>2. /\ q \in Seq(Char \cup {Delim}) /\ Len(q) = Len(c) + 1
        /\ q[Len(c) + 1] = Delim /\ \A i \in 1 .. Len(c) : q[i] = c[i]
    BY <1>6, <2>1, AppendMeans
  <2>3. Len(c) = k - 1 /\ Len(c) + 1 = k
    BY <1>2, <1>5
  <2>4. Len(q) = k /\ q[k] = p[k]
    BY <1>3, <2>2, <2>3
  <2>5. \A i \in 1 .. k - 1 : q[i] = p[i]
    BY <1>5, <2>2, <2>3
  <2> QED BY <2>2, <2>4, <2>5
<1>8. p = q
  <2>1. \A i \in 1 .. k : i = k \/ i \in 1 .. k - 1
    BY <1>1
  <2>2. \A i \in 1 .. k : q[i] = p[i]
    BY <1>7, <2>1
  <2>3. p \in Seq(Char \cup {Delim}) /\ Len(p) = Len(q)
    BY <1>1, <1>7
  <2> QED BY <1>1, <1>7, <2>2, <2>3
<1> QED BY <1>4, <1>6, <1>8

\* What a proper get finds lies on the way to its key.
LEMMA ProperGetMeans ==
  ASSUME HeapOK, Shape(node), NEW top \in Live, node[top].path = <<>>, NEW key \in Key,
         ProperGet(top, key), Search(top, key).matched
  PROVE  IsPrefix(node[Search(top, key).ptr].path, Append(key, Delim))
<1>1. key \in Seq(Char) /\ node \in [Live -> Fields]
  BY KeyAssumption DEF HeapOK, HeapTypeOK
<1> DEFINE f == Find(top, key)
<1>2. PICK r : r = Locate(top, key)
  OBVIOUS
<1>3. /\ SameAnswer(f, r) /\ r \in LocAnswer
      /\ IsHit(f) => f.ptr \in Owned(node, {top}) /\ f.pms <= Len(node[f.ptr].frag)
  BY <1>1, <1>2, SearchBelow
<1>4. /\ Search(top, key).ptr = r.ptr
      /\ \/ r.matched
         \/ ~ r.matched /\ r.pms > 0 /\ Len(node[r.ptr].frag) = 2 /\ Last(node[r.ptr].frag) = Delim
  BY <1>2, <1>3 DEF Search, LocAnswer
<1>5. PICK n : n = r.ptr
  OBVIOUS
<1>6. /\ IsHit(r) /\ n \in Live /\ r.pms <= Len(node[n].frag) /\ r.pms \in Nat
      /\ IsPrefix(Located(r), key)
      /\ r.matched \/ r.pms < Len(node[n].frag) => Located(r) = key
  <2>1. IsHit(r) /\ r.pms \in Nat
    BY <1>3, <1>4 DEF IsHit, LocAnswer
  <2>2. IsHit(f) /\ f.ptr = n /\ f.pms = r.pms
    BY <1>3, <1>5, <2>1 DEF SameAnswer, IsHit
  <2>3. Owned(node, {top}) \subseteq Live
    BY DEF Owned, Live
  <2> QED BY <1>2, <1>3, <1>5, <2>1, <2>2, <2>3 DEF ProperGet
<1>7. /\ node[n].path \in Seq(Char) /\ node[n].frag \in Seq(Char)
      /\ IsSuffix(node[n].frag, node[n].path)
  BY <1>1, <1>6 DEF Fields, Shape, Suffixed, Live
<1> DEFINE S == Char \cup {Delim}
<1>8. /\ key \in Seq(S) /\ Append(key, Delim) \in Seq(S) /\ node[n].path \in Seq(S)
      /\ IsPrefix(key, Append(key, Delim))
  <2>1. key \in Seq(S) /\ node[n].path \in Seq(S) /\ Delim \in S
    BY <1>1, <1>7
  <2> HIDE DEF S
  <2> QED BY <2>1, AppendBegins
<1>9. ASSUME IsPrefix(node[n].path, key) PROVE IsPrefix(node[n].path, Append(key, Delim))
  <2> HIDE DEF S
  <2> QED BY <1>8, <1>9, PrefixOfPrefix
<1>10. CASE r.matched
  BY <1>4, <1>5, <1>6, <1>9, <1>10 DEF Located
<1>11. CASE ~ r.matched
  <2>1. Located(r) = Chop(node[n].path, 2 - r.pms) /\ (r.pms = 1 \/ r.pms = 2)
    <3>1. Located(r) = Chop(node[n].path, Len(node[n].frag) - r.pms)
      BY <1>5, <1>11 DEF Located
    <3>2. Len(node[n].frag) = 2 /\ r.pms > 0 /\ r.pms <= 2 /\ r.pms \in Nat
      BY <1>4, <1>5, <1>6, <1>11
    <3> QED BY <3>1, <3>2
  <2>2. CASE r.pms = 2
    <3>1. Located(r) = node[n].path
      BY <1>7, <2>1, <2>2, ChopNothing
    <3> QED BY <1>4, <1>5, <1>6, <1>9, <3>1
  <2>3. CASE r.pms = 1
    <3>1. Chop(node[n].path, 1) = key
      <4>1. r.pms < Len(node[n].frag)
        <5>1. Len(node[n].frag) = 2
          BY <1>4, <1>5, <1>11
        <5> QED BY <2>3, <5>1
      <4>2. Located(r) = key
        BY <1>6, <4>1, Zenon
      <4>3. 2 - r.pms = 1
        BY <2>3
      <4> QED BY <2>1, <4>2, <4>3, Zenon
    <3>2. node[n].path = Append(key, Delim)
      <4>1. Len(node[n].frag) = 2 /\ Last(node[n].frag) = Delim
        BY <1>4, <1>5, <1>11
      <4>2. Len(node[n].frag) > 0
        BY <4>1
      <4> QED BY <1>7, <3>1, <4>1, <4>2, PutBackLast
    <3>3. IsPrefix(node[n].path, node[n].path)
      BY <1>7, PrefixEnds
    <3> QED BY <1>4, <1>5, <3>2, <3>3
  <2> QED BY <2>1, <2>2, <2>3
<1> QED BY <1>10, <1>11

-----------------------------------------------------------------------------
(* The inductive invariant.                                                *)

\* A heap of trees, the pointers into it and the keys they are for: roots have no path,
\* and handles lie on the way to their keys.
Sound(heap, roots, ptrs, weaks, keys) ==
  /\ DOMAIN heap \subseteq Node /\ heap \in [DOMAIN heap -> Fields]
  /\ Closed(heap, DOMAIN heap) /\ Shape(heap)
  /\ roots \in [Tries -> DOMAIN heap]
  /\ \A t \in Tries : heap[roots[t]].path = <<>>
  /\ ptrs \in [Holder -> DOMAIN heap \cup {NoPtr}]
  /\ keys \in [Holder -> Key \cup {<<>>}]
  /\ \A h \in Holder : \A n \in {weaks[h], ptrs[h]} \cap DOMAIN heap :
       IsPrefix(heap[n].path, Append(keys[h], Delim))

\* That every node is owned is what makes root(new_root) free nothing.
AllOwned == Live \subseteq Owned(node, Held(root, strong))

HandleInv == /\ Sound(node, root, strong, weak, asked)
             /\ weak \in [Holder -> Ptr] /\ oob = FALSE /\ AllOwned

\* Every trie has a root of its own, and no scope a handle.
LEMMA HandleInvInit == HandleInit => HandleInv
<1> SUFFICES ASSUME HandleInit PROVE HandleInv
  OBVIOUS
<1>1. /\ root \in [Tries -> Node] /\ node = [n \in Range(root) |-> Blank] /\ oob = FALSE
      /\ weak = [h \in Holder |-> NoPtr] /\ strong = [h \in Holder |-> NoPtr]
      /\ asked = [h \in Holder |-> <<>>]
  BY DEF HandleInit, Injection
<1>2. Range(root) \subseteq Node /\ root \in [Tries -> Range(root)]
  BY <1>1 DEF Range
<1>3. Blank \in Fields /\ Blank.kids = <<>> /\ Blank.path = <<>> /\ Blank.frag = <<>>
  BY DEF Blank, Fields
<1>4. /\ DOMAIN node = Range(root) /\ Live = Range(root)
      /\ \A n \in Range(root) : node[n] = Blank
  BY <1>1 DEF Live
<1>5. node \in [DOMAIN node -> Fields]
  BY <1>1, <1>3, <1>4
<1>6. Closed(node, DOMAIN node)
  BY <1>3, <1>4 DEF Closed, Range
<1>7. Shape(node)
  BY <1>3, <1>4, ShapeOfRoots
<1>8. Sound(node, root, strong, weak, asked)
  <2>1. \A t \in Tries : node[root[t]].path = <<>>
    BY <1>2, <1>3, <1>4
  <2>2. \A h \in Holder : {weak[h], strong[h]} \cap DOMAIN node = {}
    BY <1>1, <1>2, <1>4, NodeAssumption
  <2> QED BY <1>1, <1>2, <1>4, <1>5, <1>6, <1>7, <2>1, <2>2 DEF Sound
<1>9. Range(root) \subseteq Held(root, strong)
  BY <1>2, NodeAssumption DEF Held
<1>10. AllOwned
  BY <1>4, <1>9, OwnedIf DEF AllOwned
<1> QED BY <1>1, <1>8, <1>10 DEF HandleInv, Ptr

-----------------------------------------------------------------------------
(* The end of a call.                                                      *)

\* No node comes to stand for another key.
Shrinks == \A n \in Live \cap Live' : IsPrefix(node'[n].path, node[n].path)

\* Freeing what nobody owns keeps the invariant, if the call left a sound heap.
LEMMA SettleKeeps ==
  ASSUME NEW heap, NEW roots, NEW ptrs, NEW weaks, NEW keys,
         Sound(heap, roots, ptrs, weaks, keys), oob = FALSE,
         Settle(heap, roots, ptrs, weaks, keys)
  PROVE  HandleInv' /\ Live' = Owned(heap, Held(roots, ptrs))
         /\ \A n \in Live' : node'[n] = heap[n]
<1> DEFINE S == Held(roots, ptrs)  owned == Owned(heap, S)
<1>1. /\ DOMAIN heap \subseteq Node /\ heap \in [DOMAIN heap -> Fields]
      /\ Closed(heap, DOMAIN heap)
      /\ roots \in [Tries -> DOMAIN heap]
      /\ ptrs \in [Holder -> DOMAIN heap \cup {NoPtr}]
      /\ keys \in [Holder -> Key \cup {<<>>}] /\ Shape(heap)
  BY DEF Sound
<1>2. /\ node' = [n \in owned |-> heap[n]] /\ oob' = oob
      /\ root' = roots /\ strong' = ptrs
      /\ weak' = [h \in Holder |-> IF weaks[h] \in owned THEN weaks[h] ELSE NoPtr]
      /\ asked' = [h \in Holder |->
                     IF weaks[h] \in owned \/ ptrs[h] \in owned THEN keys[h] ELSE <<>>]
  BY DEF Settle
<1>3. S \subseteq DOMAIN heap /\ NoPtr \notin DOMAIN heap
  <2>1. Range(roots) \subseteq DOMAIN heap
    BY <1>1 DEF Range
  <2>2. Range(ptrs) \subseteq DOMAIN heap \cup {NoPtr}
    BY <1>1 DEF Range
  <2>3. NoPtr \notin DOMAIN heap
    BY <1>1, NodeAssumption
  <2> QED BY <2>1, <2>2, <2>3 DEF Held
<1>4. S \subseteq owned /\ owned \subseteq DOMAIN heap /\ Closed(heap, owned)
  BY <1>1, <1>3, OwnedClosed
<1> HIDE DEF owned
<1>5. DOMAIN node' = owned /\ \A n \in owned : node'[n] = heap[n]
  BY <1>2
<1>6. Live' = owned
  BY <1>5 DEF Live
<1>7. \A t \in Tries : roots[t] \in owned
  BY <1>1, <1>3, <1>4 DEF Held, Range
<1>8. \A h \in Holder : ptrs[h] \in owned \cup {NoPtr}
  BY <1>1, <1>3, <1>4 DEF Held, Range
<1>9. Sound(node', root', strong', weak', asked')
  <2>1. DOMAIN node' \subseteq Node /\ node' \in [DOMAIN node' -> Fields]
    BY <1>1, <1>2, <1>4, <1>5
  <2>2. Closed(node', DOMAIN node')
    BY <1>4, <1>5 DEF Closed
  <2>3. root' \in [Tries -> DOMAIN node'] /\ \A t \in Tries : node'[root'[t]].path = <<>>
    BY <1>1, <1>2, <1>5, <1>7 DEF Sound
  <2>4. strong' \in [Holder -> DOMAIN node' \cup {NoPtr}]
    BY <1>1, <1>2, <1>5, <1>8
  <2>6. asked' \in [Holder -> Key \cup {<<>>}]
    BY <1>1, <1>2
  <2>7. ASSUME NEW h \in Holder, NEW n \in {weak'[h], strong'[h]} \cap DOMAIN node'
        PROVE  IsPrefix(node'[n].path, Append(asked'[h], Delim))
    <3>1. n \in owned /\ n \in {weaks[h], ptrs[h]}
      BY <1>2, <1>3, <1>4, <1>5
    <3>2. asked'[h] = keys[h]
      BY <1>2, <3>1
    <3> QED BY <1>4, <1>5, <3>1, <3>2 DEF Sound
  <2>8. Shape(node')
    <3>1. Lesser(node', heap)
      BY <1>4, <1>5, <2>2 DEF Lesser, Loses
    <3> QED BY <1>1, <3>1, ShapeOfLess
  <2> QED BY <2>1, <2>2, <2>3, <2>4, <2>6, <2>7, <2>8 DEF Sound
<1>10. AllOwned'
  <2> SUFFICES ASSUME NEW n \in owned, NEW T \in SUBSET DOMAIN node',
                      S \subseteq T, Closed(node', T)
               PROVE  n \in T
    BY <1>2, <1>5, <1>6, OwnedIf DEF AllOwned
  <2>1. T \in SUBSET DOMAIN heap /\ Closed(heap, T)
    BY <1>4, <1>5 DEF Closed
  <2> QED BY <2>1, OwnedLeast DEF owned
<1>11. weak' \in [Holder -> Ptr']
  BY <1>2, <1>6 DEF Ptr
<1> QED BY <1>2, <1>5, <1>6, <1>9, <1>10, <1>11 DEF HandleInv, owned

\* A call that leaves every path as it was cuts none.
LEMMA SettleCutsNothing ==
  ASSUME HandleInv, NEW heap, \A n \in Live' : node'[n] = heap[n],
         \A n \in Live : heap[n].path = node[n].path
  PROVE  Shrinks
<1>1. \A n \in Live : node[n].path \in Seq(Char)
  BY DEF HandleInv, Sound, Live, Fields
<1> QED BY <1>1, PrefixEnds DEF Shrinks

\* What an insert does to the heap, for the handles: it keeps every node and every child,
\* puts each new node below an old one, and cuts paths at their ends.
Grows == /\ HeapTypeOK' /\ Live \subseteq Live'
         /\ \A n \in Live : Range(node[n].kids) \subseteq Range(node'[n].kids)
         /\ Closed(node', Live')
         /\ \A m \in Live' \ Live : \E n \in Live : m \in Range(node'[n].kids)
         /\ Shrinks

\* Such a step keeps the invariant.
LEMMA GrowsKeeps ==
  ASSUME HandleInv, Grows, Shape(node'), oob' = FALSE, UNCHANGED <<root, weak, strong, asked>>
  PROVE  HandleInv'
<1>1. /\ Live \subseteq Live' /\ Closed(node', Live') /\ Shrinks
      /\ node' \in [Live' -> Fields] /\ Live' \subseteq Node
  BY DEF Grows, HeapTypeOK
<1>2. /\ Closed(node, Live) /\ node \in [Live -> Fields] /\ Live \subseteq Node
      /\ root \in [Tries -> Live]
      /\ strong \in [Holder -> Live \cup {NoPtr}]
      /\ weak \in [Holder -> Live \cup {NoPtr}]
      /\ asked \in [Holder -> Key \cup {<<>>}]
  BY DEF HandleInv, Sound, Live, Ptr
<1>3. /\ \A n \in Live : node[n].path \in Seq(Char)
      /\ \A n \in Live : node'[n].path \in Seq(Char)
  BY <1>1, <1>2 DEF Fields
<1>4. \A n \in Live : IsPrefix(node'[n].path, node[n].path)
  BY <1>1 DEF Shrinks
<1>5. \A t \in Tries : node'[root[t]].path = <<>>
  <2> SUFFICES ASSUME NEW t \in Tries PROVE node'[root[t]].path = <<>>
    OBVIOUS
  <2>1. root[t] \in Live /\ node[root[t]].path = <<>>
    BY <1>2 DEF HandleInv, Sound
  <2> QED BY <1>3, <1>4, <2>1, PrefixEnds
<1>6. ASSUME NEW h \in Holder, NEW n \in {weak[h], strong[h]} \cap Live'
      PROVE  IsPrefix(node'[n].path, Append(asked[h], Delim))
  <2>0. NoPtr \notin Live'
    BY <1>1, NodeAssumption
  <2>1. n \in Live /\ IsPrefix(node[n].path, Append(asked[h], Delim))
    BY <1>2, <2>0 DEF HandleInv, Sound, Live
  <2> DEFINE S == Char \cup {Delim}
  <2>2. asked[h] \in Seq(Char)
    <3>1. asked[h] \in Key \cup {<<>>}
      BY <1>2
    <3>2. <<>> \in Seq(Char)
      OBVIOUS
    <3> QED BY <3>1, <3>2, KeyAssumption
  <2>3. Append(asked[h], Delim) \in Seq(S) /\ node[n].path \in Seq(S) /\ node'[n].path \in Seq(S)
    BY <1>3, <2>1, <2>2
  <2> HIDE DEF S
  <2> QED BY <1>4, <2>1, <2>3, PrefixOfPrefix
<1>7. Sound(node', root', strong', weak', asked')
  <2>1. root' = root /\ strong' = strong /\ weak' = weak /\ asked' = asked
    OBVIOUS
  <2>2. /\ DOMAIN node' \subseteq Node /\ node' \in [DOMAIN node' -> Fields]
        /\ Closed(node', DOMAIN node') /\ Live \subseteq DOMAIN node'
    BY <1>1 DEF Live
  <2>3. /\ root' \in [Tries -> DOMAIN node']
        /\ strong' \in [Holder -> DOMAIN node' \cup {NoPtr}]
        /\ asked' \in [Holder -> Key \cup {<<>>}]
    BY <1>2, <2>1, <2>2
  <2>4. \A h \in Holder : \A n \in {weak'[h], strong'[h]} \cap DOMAIN node' :
          IsPrefix(node'[n].path, Append(asked'[h], Delim))
    BY <1>6, <2>1 DEF Live
  <2>5. \A t \in Tries : node'[root'[t]].path = <<>>
    BY <1>5, <2>1
  <2> QED BY <2>2, <2>3, <2>4, <2>5 DEF Sound
<1>8. AllOwned'
  <2> DEFINE S == Held(root, strong)
  <2>1. Held(root', strong') = S
    OBVIOUS
  <2> SUFFICES ASSUME NEW m \in Live', NEW T \in SUBSET DOMAIN node',
                      S \subseteq T, Closed(node', T)
               PROVE  m \in T
    BY <2>1, OwnedIf DEF AllOwned, Live
  <2>2. T \cap Live \in SUBSET DOMAIN node /\ Closed(node, T \cap Live)
    <3>1. \A n \in T \cap Live : Range(node[n].kids) \subseteq T
      BY DEF Closed, Grows
    <3>2. \A n \in Live : Range(node[n].kids) \subseteq Live
      BY <1>2 DEF Closed
    <3> QED BY <3>1, <3>2 DEF Closed, Live
  <2>3. S \subseteq Live
    BY <1>2 DEF Held, Range
  <2>4. Live \subseteq T
    <3>1. Owned(node, S) \subseteq T \cap Live
      <4> HIDE DEF S
      <4> QED BY <2>2, <2>3, OwnedLeast
    <3> QED BY <3>1 DEF HandleInv, AllOwned
  <2>5. CASE m \in Live
    BY <2>4, <2>5
  <2>6. CASE m \notin Live
    <3>1. PICK n \in Live : m \in Range(node'[n].kids)
      BY <2>6 DEF Grows
    <3> QED BY <2>4, <3>1 DEF Closed
  <2> QED BY <2>5, <2>6
<1>9. weak' \in [Holder -> Ptr']
  BY <1>1, <1>2 DEF Ptr
<1> QED BY <1>1, <1>7, <1>8, <1>9 DEF HandleInv

-----------------------------------------------------------------------------
(* Inserts and written values.                                             *)

\* Setting a value keeps paths and children.
LEMMA ValueGrows ==
  ASSUME HeapOK, Shape(node), NEW n \in Live, NEW x \in Value \cup {NoValue}, SetsValue(n, x)
  PROVE  Grows /\ Shape(node') /\ oob' = oob
<1>1. HeapTypeOK' /\ Live' = Live
  BY TypesSetsValue DEF HeapOK, SetsValue
<1>2. node \in [Live -> Fields]
  BY DEF HeapOK, HeapTypeOK
<1>3. \A m \in Live : /\ node'[m].path = node[m].path /\ node'[m].frag = node[m].frag
                       /\ node'[m].kids = node[m].kids
  BY <1>2 DEF SetsValue, Fields
<1>4. \A m \in Live : node[m].path \in Seq(Char)
  BY <1>2 DEF Fields
<1>5. Shrinks
  BY <1>1, <1>3, <1>4, PrefixEnds DEF Shrinks
<1>6. Closed(node', Live')
  BY <1>1, <1>3 DEF HeapOK, Closed
<1>7. Shape(node')
  <2>1. Live = DOMAIN node /\ Live' = DOMAIN node'
    BY DEF Live
  <2>2. Lesser(node', node)
    BY <1>1, <1>3, <1>6, <2>1 DEF Lesser, Loses
  <2> QED BY <1>2, <2>1, <2>2, ShapeOfLess
<1>8. Grows
  BY <1>1, <1>3, <1>5, <1>6 DEF Grows
<1> QED BY <1>7, <1>8 DEF SetsValue

\* A concatenation holds what its parts hold.
LEMMA AllOfBoth ==
  ASSUME NEW S, NEW p \in Seq(S), NEW q \in Seq(S)
  PROVE  Range(p \o q) = Range(p) \cup Range(q)
<1>1. Range(p \o q) \subseteq Range(p) \cup Range(q)
  BY ConcatRange
<1>2. ASSUME NEW x \in Range(p) PROVE x \in Range(p \o q)
  <2>1. PICK i \in DOMAIN p : x = p[i]
    BY <1>2 DEF Range
  <2>2. i \in DOMAIN (p \o q) /\ (p \o q)[i] = x
    BY <2>1, ConcatPlaces
  <2> QED BY <2>2 DEF Range
<1>3. ASSUME NEW x \in Range(q) PROVE x \in Range(p \o q)
  <2>1. PICK i \in DOMAIN q : x = q[i]
    BY <1>3 DEF Range
  <2>2. Len(p) + i \in DOMAIN (p \o q) /\ (p \o q)[Len(p) + i] = x
    BY <2>1, ConcatPlaces
  <2> QED BY <2>2 DEF Range
<1> QED BY <1>1, <1>2, <1>3

\* Giving a node new children does, if it cuts paths at their ends.
LEMMA GrowthGrows ==
  ASSUME HeapOK, HeapTypeOK', NEW n \in Live, NEW s \in Seq(Node \ Live), GrowsAt(n, s), Shrinks
  PROVE  Grows
<1>1. /\ Live' = Live \cup Range(s)
      /\ node'[n].kids = node[n].kids \o s
      /\ \A m \in Live \ {n} : node'[m].kids = node[m].kids
      /\ \A m \in Range(s) : node'[m].kids = <<>>
  BY DEF GrowsAt
<1>2. node[n].kids \in Seq(Node) /\ \A m \in Live : Range(node[m].kids) \subseteq Live
  BY DEF HeapOK, HeapTypeOK, Fields, Closed
<1>3. Range(node'[n].kids) = Range(node[n].kids) \cup Range(s)
  <2>1. s \in Seq(Node)
    OBVIOUS
  <2> QED BY <1>1, <1>2, <2>1, AllOfBoth
<1>4. \A m \in Live : Range(node[m].kids) \subseteq Range(node'[m].kids)
  BY <1>1, <1>3
<1>5. Closed(node', Live')
  <2>1. Range(<<>>) = {}
    BY DEF Range
  <2> QED BY <1>1, <1>2, <1>3, <2>1 DEF Closed
<1>6. \A m \in Live' \ Live : m \in Range(node'[n].kids)
  BY <1>1, <1>3
<1> QED BY <1>1, <1>4, <1>5, <1>6 DEF Grows

\* Every branch of insert.
LEMMA InsertGrows ==
  ASSUME HeapOK, Shape(node), NEW top \in Live, NEW key \in Key, NEW v \in Value,
         InsertKey(top, key, v)
  PROVE  Grows
<1>1. HeapTypeOK /\ node \in [Live -> Fields]
  BY DEF HeapOK, HeapTypeOK
<1>2. \A n \in Live : node[n].path \in Seq(Char)
  BY <1>1 DEF Fields
<1> DEFINE r == Find(top, key)
<1> HIDE DEF r
<1>3. CASE Replace(top, r, v)
  <2>1. PICK n \in Live : SetsValue(n, v)
    BY <1>1, <1>3, ReplaceStep
  <2> QED BY <2>1, ValueGrows
<1>4. CASE AddChild(top, r, key, v)
  <2>1. PICK n \in Live, a \in Node \ Live :
          \E title \in RestTitle(key, Len(node[n].path)) : AddsChild(key, v, n, a, title)
    BY <1>1, <1>4, AddChildStep
  <2>2. PICK title : AddsChild(key, v, n, a, title)
    BY <2>1
  <2>3. HeapTypeOK' /\ GrowsAt(n, <<a>>)
    BY <1>1, <1>4, <2>2, TypesAddChild, AddChildGrows
  <2>4. \A m \in Live : node'[m].path = node[m].path
    <3>1. node'[n] = Adopt(node[n], a) /\ \A m \in Live \ {n} : node'[m] = node[m]
      BY <2>2 DEF AddsChild
    <3>2. Adopt(node[n], a).path = node[n].path
      BY <1>1 DEF Adopt, Fields
    <3> QED BY <3>1, <3>2
  <2>5. Shrinks
    BY <1>2, <2>4, PrefixEnds DEF Shrinks
  <2>6. <<a>> \in Seq(Node \ Live)
    OBVIOUS
  <2> QED BY <2>3, <2>5, <2>6, GrowthGrows
<1>5. CASE Split(top, r, key, v)
  <2>1. PICK n \in Live, b \in Node \ Live :
        \E c \in Node \ (Live \cup {b}), pms \in 1 .. Len(node[n].frag) - 1 :
        \E title \in RestTitle(key, CutAt(n, pms)) : Splits(key, v, n, pms, b, c, title)
    BY <1>1, <1>5, SplitStep
  <2>2. PICK c \in Node \ (Live \cup {b}), pms \in 1 .. Len(node[n].frag) - 1 :
          \E title : Splits(key, v, n, pms, b, c, title)
    BY <2>1
  <2>3. PICK title : Splits(key, v, n, pms, b, c, title)
    BY <2>2
  <2>4. HeapTypeOK' /\ GrowsAt(n, <<b, c>>)
    BY <1>1, <1>5, <2>3, TypesSplit, SplitGrows
  <2>5. Shrinks
    <3>1. node'[n].path = Chop(node[n].path, Len(node[n].frag) - pms)
          /\ \A m \in Live \ {n} : node'[m] = node[m]
      BY <2>3 DEF Splits, CutNode
    <3>2. node[n].frag \in Seq(Char)
      BY <1>1 DEF Fields
    <3>3. Len(node[n].frag) - pms \in Nat
      BY <3>2
    <3> QED BY <1>2, <3>1, <3>3, PrefixEnds, ChopIsPrefix DEF Shrinks
  <2>6. <<b, c>> \in Seq(Node \ Live)
    OBVIOUS
  <2> QED BY <2>4, <2>5, <2>6, GrowthGrows
<1>6. CASE AddAtRoot(top, r, key, v)
  <2>1. PICK a \in Node \ Live : AddsAtRoot(top, key, v, a)
    BY <1>1, <1>6, AddAtRootStep
  <2>2. HeapTypeOK' /\ GrowsAt(top, <<a>>)
    BY <1>1, <1>6, <2>1, TypesAddAtRoot, AddAtRootGrows
  <2> DEFINE x == Adopt(node[top], a)
  <2>3. /\ node'[top] = [x EXCEPT !.value = NoValue, !.type = "branch"]
        /\ \A m \in Live \ {top} : node'[m] = node[m]
    BY <2>1 DEF AddsAtRoot
  <2>4. x \in Fields /\ x.path = node[top].path
    BY <1>1, AdoptType DEF Adopt, Fields
  <2>5. node'[top].path = node[top].path
    <3> HIDE DEF x
    <3> QED BY <2>3, <2>4 DEF Fields
  <2>6. Shrinks
    BY <1>2, <2>3, <2>5, PrefixEnds DEF Shrinks
  <2>7. <<a>> \in Seq(Node \ Live)
    OBVIOUS
  <2> QED BY <2>2, <2>6, <2>7, GrowthGrows
<1> QED BY <1>3, <1>4, <1>5, <1>6 DEF InsertKey, r

-----------------------------------------------------------------------------
(* The steps.                                                              *)

\* What the invariant says of the heap.
LEMMA InvMeans ==
  ASSUME HandleInv
  PROVE  /\ HeapOK /\ Shape(node) /\ Live = DOMAIN node /\ oob = FALSE
         /\ root \in [Tries -> Live] /\ \A t \in Tries : node[root[t]].path = <<>>
         /\ strong \in [Holder -> Live \cup {NoPtr}] /\ weak \in [Holder -> Live \cup {NoPtr}]
         /\ asked \in [Holder -> Key \cup {<<>>}]
         /\ \A h \in Holder : \A n \in {weak[h], strong[h]} \cap Live :
              IsPrefix(node[n].path, Append(asked[h], Delim))
BY DEF HandleInv, Sound, HeapOK, HeapTypeOK, Live, Ptr

\* A call that only moves pointers: new ones point to nodes, to those without a path from
\* roots and to those on the way to their keys from handles.
LEMMA PointersKeep ==
  ASSUME HandleInv, NEW roots \in [Tries -> Live], NEW ptrs \in [Holder -> Live \cup {NoPtr}],
         NEW weaks, NEW keys \in [Holder -> Key \cup {<<>>}],
         \A t \in Tries : node[roots[t]].path = <<>>,
         \A h \in Holder : \A n \in {weaks[h], ptrs[h]} \cap Live :
           IsPrefix(node[n].path, Append(keys[h], Delim)),
         Settle(node, roots, ptrs, weaks, keys)
  PROVE  HandleInv' /\ Shrinks
<1>1. Sound(node, roots, ptrs, weaks, keys) /\ oob = FALSE
  BY DEF HandleInv, Sound, Live
<1>2. HandleInv' /\ \A n \in Live' : node'[n] = node[n]
  BY <1>1, SettleKeeps
<1> QED BY <1>2, SettleCutsNothing

\* A copied root has no path.
LEMMA AssignKeeps ==
  ASSUME HandleInv, NEW t \in Tries, NEW u \in Tries, Assign(t, u)
  PROVE  HandleInv' /\ Shrinks
<1> DEFINE roots == [root EXCEPT ![t] = root[u]]
<1>1. roots \in [Tries -> Live] /\ \A x \in Tries : node[roots[x]].path = <<>>
  BY InvMeans
<1>2. Settle(node, roots, strong, weak, asked)
  BY DEF Assign
<1> HIDE DEF roots
<1> QED BY <1>1, <1>2, InvMeans, PointersKeep

\* The trie and the holder exchange what they own: together they own what they did.
LEMMA SwapRootKeeps ==
  ASSUME HandleInv, NEW t \in Tries, NEW h \in Holder, SwapRoot(t, h)
  PROVE  HandleInv' /\ Shrinks /\ Live \subseteq Live'
<1> DEFINE roots == [root EXCEPT ![t] = strong[h]]  ptrs == [strong EXCEPT ![h] = root[t]]
<1>1. strong[h] # NoPtr /\ node[strong[h]].path = <<>> /\ Settle(node, roots, ptrs, weak, asked)
  BY DEF SwapRoot, Old
<1>2. roots \in [Tries -> Live] /\ \A x \in Tries : node[roots[x]].path = <<>>
  BY <1>1, InvMeans
<1>3. ptrs \in [Holder -> Live \cup {NoPtr}]
  BY InvMeans
<1>4. ASSUME NEW g \in Holder, NEW n \in {weak[g], ptrs[g]} \cap Live
      PROVE  IsPrefix(node[n].path, Append(asked[g], Delim))
  <2>1. CASE n \in {weak[g], strong[g]}
    BY <2>1, InvMeans
  <2>2. CASE n \notin {weak[g], strong[g]}
    <3>1. g = h /\ n = root[t]
      BY <2>2, InvMeans
    <3>2. node[n].path = <<>>
      BY <3>1, InvMeans
    <3>3. asked[g] \in Seq(Char)
      <4>1. asked[g] \in Key \cup {<<>>}
        BY InvMeans
      <4>2. <<>> \in Seq(Char)
        OBVIOUS
      <4> QED BY <4>1, <4>2, KeyAssumption
    <3>4. Append(asked[g], Delim) \in Seq(Char \cup {Delim})
      BY <3>3
    <3> QED BY <3>2, <3>4, PrefixEnds
  <2> QED BY <2>1, <2>2
<1>5. Held(root, strong) \subseteq Held(roots, ptrs)
  <2> SUFFICES ASSUME NEW n \in Held(root, strong) PROVE n \in Range(roots) \cup Range(ptrs)
    BY DEF Held
  <2>1. CASE n \in Range(root)
    <3>1. PICK x \in Tries : n = root[x]
      BY <2>1, InvMeans DEF Range
    <3>2. CASE x = t
      <4>1. ptrs[h] = n /\ h \in DOMAIN ptrs
        BY <3>1, <3>2, InvMeans
      <4> HIDE DEF ptrs
      <4> QED BY <4>1 DEF Range
    <3>3. CASE x # t
      <4>1. roots[x] = n /\ x \in DOMAIN roots
        BY <3>1, <3>3, InvMeans
      <4> HIDE DEF roots
      <4> QED BY <4>1 DEF Range
    <3> QED BY <3>2, <3>3
  <2>2. CASE n \in Range(strong)
    <3>1. PICK g \in Holder : n = strong[g]
      BY <2>2, InvMeans DEF Range
    <3>2. CASE g = h
      <4>1. roots[t] = n /\ t \in DOMAIN roots
        BY <3>1, <3>2, InvMeans
      <4> HIDE DEF roots
      <4> QED BY <4>1 DEF Range
    <3>3. CASE g # h
      <4>1. ptrs[g] = n /\ g \in DOMAIN ptrs
        BY <3>1, <3>3, InvMeans
      <4> HIDE DEF ptrs
      <4> QED BY <4>1 DEF Range
    <3> QED BY <3>2, <3>3
  <2> QED BY <2>1, <2>2 DEF Held
<1> HIDE DEF roots, ptrs
<1>6. HandleInv' /\ Shrinks
  BY <1>1, <1>2, <1>3, <1>4, InvMeans, PointersKeep
<1>7. Live' = Owned(node, Held(roots, ptrs))
  BY <1>1 DEF Settle, Live
<1>8. Owned(node, Held(root, strong)) \subseteq Owned(node, Held(roots, ptrs))
  BY <1>5 DEF Owned
<1> QED BY <1>6, <1>7, <1>8 DEF HandleInv, AllOwned

\* A fresh node has neither path nor children, and nobody but its tree points to it.
LEMMA ResetRootKeeps ==
  ASSUME HandleInv, NEW t \in Tries, NEW h \in Holder, ResetRoot(t, h)
  PROVE  HandleInv' /\ Shrinks /\ Live \subseteq Live'
<1> DEFINE ptrs == [strong EXCEPT ![h] = root[t]]
<1>1. PICK a \in Node \ Live :
        Settle(MakeShared(node, a, Blank), [root EXCEPT ![t] = a], ptrs, weak, asked)
  BY DEF ResetRoot, NewTree, Old, Fresh
<1> DEFINE heap == MakeShared(node, a, Blank)  roots == [root EXCEPT ![t] = a]
<1>2. strong[h] = NoPtr
  BY DEF ResetRoot
<1>3. DOMAIN heap = Live \cup {a} /\ heap[a] = Blank /\ \A n \in Live : heap[n] = node[n]
  BY DEF MakeShared, Live
<1>4. Settle(heap, roots, ptrs, weak, asked)
  BY <1>1
<1>5. /\ Blank.path = <<>> /\ Blank.frag = <<>> /\ Blank.kids = <<>>
      /\ Blank \in Fields /\ Range(Blank.kids) = {}
  BY DEF Blank, Fields, Range
<1>6. /\ Live \subseteq Node /\ node \in [Live -> Fields] /\ Closed(node, Live)
      /\ root \in [Tries -> Live] /\ \A x \in Tries : node[root[x]].path = <<>>
      /\ strong \in [Holder -> Live \cup {NoPtr}] /\ weak \in [Holder -> Live \cup {NoPtr}]
      /\ asked \in [Holder -> Key \cup {<<>>}] /\ oob = FALSE
  BY InvMeans DEF HeapOK, HeapTypeOK
<1>7. heap \in [DOMAIN heap -> Fields]
  <2>1. heap = [m \in DOMAIN heap |-> heap[m]]
    BY DEF MakeShared
  <2>2. \A m \in DOMAIN heap : heap[m] \in Fields
    BY <1>3, <1>5, <1>6
  <2> HIDE DEF heap
  <2> QED BY <2>1, <2>2
<1>8. Closed(heap, DOMAIN heap)
  BY <1>3, <1>5, <1>6 DEF Closed
<1>9. /\ roots \in [Tries -> DOMAIN heap]
      /\ \A x \in Tries : heap[roots[x]].path = <<>>
  BY <1>3, <1>5, <1>6
<1>10. /\ ptrs \in [Holder -> Live \cup {NoPtr}]
       /\ \A g \in Holder : ptrs[g] = IF g = h THEN root[t] ELSE strong[g]
  BY <1>6
<1>11. ASSUME NEW g \in Holder, NEW n \in {weak[g], ptrs[g]} \cap DOMAIN heap
       PROVE  IsPrefix(heap[n].path, Append(asked[g], Delim))
  <2>1. CASE n \in {weak[g], strong[g]}
    <3>1. n \in Live /\ heap[n] = node[n]
      <4>1. NoPtr \notin DOMAIN heap
        BY <1>3, <1>6, NodeAssumption
      <4> QED BY <1>3, <1>6, <2>1, <4>1
    <3> QED BY <2>1, <3>1, InvMeans
  <2>2. CASE n \notin {weak[g], strong[g]}
    <3>1. n = root[t] /\ heap[n].path = <<>>
      BY <1>3, <1>6, <1>10, <2>2
    <3>2. asked[g] \in Seq(Char)
      <4>1. asked[g] \in Key \cup {<<>>}
        BY <1>6
      <4>2. <<>> \in Seq(Char)
        OBVIOUS
      <4> QED BY <4>1, <4>2, KeyAssumption
    <3>3. Append(asked[g], Delim) \in Seq(Char \cup {Delim})
      BY <3>2
    <3> QED BY <3>1, <3>3, PrefixEnds
  <2> QED BY <2>1, <2>2
<1> HIDE DEF heap, roots, ptrs
<1>12. Sound(heap, roots, ptrs, weak, asked)
  <2>1. DOMAIN heap \subseteq Node
    BY <1>3, <1>6
  <2>2. ptrs \in [Holder -> DOMAIN heap \cup {NoPtr}]
    BY <1>3, <1>6, <1>10
  <2>3. Shape(heap)
    BY <1>3, <1>5, <1>6, InvMeans, ShapeOfFresh
  <2> QED BY <1>6, <1>7, <1>8, <1>9, <1>11, <2>1, <2>2, <2>3 DEF Sound
<1>13. HandleInv' /\ Live' = Owned(heap, Held(roots, ptrs)) /\ \A n \in Live' : node'[n] = heap[n]
  BY <1>4, <1>6, <1>12, SettleKeeps
<1>14. Shrinks
  BY <1>3, <1>13, SettleCutsNothing
<1>15. Held(root, strong) \subseteq Held(roots, ptrs) /\ Held(root, strong) \subseteq Live
  <2> SUFFICES ASSUME NEW n \in Held(root, strong) PROVE n \in Held(roots, ptrs) /\ n \in Live
    OBVIOUS
  <2>1. CASE n \in Range(root)
    <3>1. PICK x \in Tries : n = root[x]
      BY <1>6, <2>1 DEF Range
    <3>2. x = t => n = ptrs[h]
      BY <1>10, <3>1
    <3>3. x # t => n = roots[x]
      BY <1>6, <3>1 DEF roots
    <3> QED BY <1>6, <1>9, <1>10, <3>1, <3>2, <3>3 DEF Held, Range
  <2>2. CASE n \in Range(strong)
    <3>1. PICK g \in Holder : n = strong[g] /\ g # h
      BY <1>2, <1>6, <2>2 DEF Range, Held
    <3> QED BY <1>6, <1>10, <3>1 DEF Held, Range
  <2> QED BY <2>1, <2>2 DEF Held
<1>16. ASSUME NEW n \in Live, NEW T \in SUBSET DOMAIN heap,
              Held(roots, ptrs) \subseteq T, Closed(heap, T)
       PROVE  n \in T
  <2>1. T \cap Live \in SUBSET DOMAIN node
    BY DEF Live
  <2>2. Closed(node, T \cap Live)
    BY <1>3, <1>6, <1>16 DEF Closed
  <2>3. Owned(node, Held(root, strong)) \subseteq T \cap Live
    BY <1>15, <1>16, <2>1, <2>2, OwnedLeast
  <2> QED BY <2>3 DEF HandleInv, AllOwned
<1>17. Live \subseteq Live'
  BY <1>3, <1>13, <1>16, OwnedIf
<1> QED BY <1>13, <1>14, <1>17

\* A proper get finds a node on the way to its key.
LEMMA GetNodeKeeps ==
  ASSUME HandleInv, NEW t \in Tries, NEW key \in Key, NEW h \in Holder, GetNode(t, key, h)
  PROVE  HandleInv' /\ Shrinks
<1> DEFINE found == Search(root[t], key)
           weaks == [weak EXCEPT ![h] = found.ptr]  keys == [asked EXCEPT ![h] = key]
<1>1. /\ weak[h] = NoPtr /\ strong[h] = NoPtr
      /\ Settle(node, root, strong, weaks, keys)
      /\ IsPrefix(node[found.ptr].path, Append(key, Delim))
  <2>1. root[t] \in Live /\ node[root[t]].path = <<>>
    BY InvMeans
  <2>2. ProperGet(root[t], key) /\ Search(root[t], key).matched
    BY DEF GetNode
  <2>3. IsPrefix(node[found.ptr].path, Append(key, Delim))
    BY <2>1, <2>2, InvMeans, ProperGetMeans
  <2> QED BY <2>3 DEF GetNode
<1>2. keys \in [Holder -> Key \cup {<<>>}] /\ strong \in [Holder -> Live \cup {NoPtr}]
  BY InvMeans
<1>3. ASSUME NEW g \in Holder, NEW n \in {weaks[g], strong[g]} \cap Live
      PROVE  IsPrefix(node[n].path, Append(keys[g], Delim))
  <2>1. CASE g = h
    <3>1. NoPtr \notin Live
      BY InvMeans, NodeAssumption DEF HeapOK, HeapTypeOK
    <3>2. n = found.ptr /\ keys[g] = key
      BY <1>1, <2>1, <3>1, InvMeans
    <3> QED BY <1>1, <3>2
  <2>2. CASE g # h
    <3>1. n \in {weak[g], strong[g]} \cap Live /\ keys[g] = asked[g]
      BY <2>2, InvMeans
    <3> QED BY <3>1, InvMeans
  <2> QED BY <2>1, <2>2
<1> HIDE DEF weaks, keys
<1> QED BY <1>1, <1>2, <1>3, InvMeans, PointersKeep

\* Locking hands a pointer over.
LEMMA LockKeeps ==
  ASSUME HandleInv, NEW h \in Holder, Lock(h)
  PROVE  HandleInv' /\ Shrinks
<1> DEFINE ptrs == [strong EXCEPT ![h] = weak[h]]  weaks == [weak EXCEPT ![h] = NoPtr]
<1>1. Settle(node, root, ptrs, weaks, asked)
  BY DEF Lock
<1>2. ptrs \in [Holder -> Live \cup {NoPtr}] /\ weaks \in [Holder -> Live \cup {NoPtr}]
  BY InvMeans
<1>3. ASSUME NEW g \in Holder, NEW n \in {weaks[g], ptrs[g]} \cap Live
      PROVE  IsPrefix(node[n].path, Append(asked[g], Delim))
  <2>1. NoPtr \notin Live
    BY InvMeans, NodeAssumption DEF HeapOK, HeapTypeOK
  <2>2. n \in {weak[g], strong[g]} \cap Live
    BY <2>1, InvMeans
  <2> QED BY <2>2, InvMeans
<1> HIDE DEF ptrs, weaks
<1> QED BY <1>1, <1>2, <1>3, InvMeans, PointersKeep

\* The end of a scope takes pointers away.
LEMMA ReleaseKeeps ==
  ASSUME HandleInv, NEW h \in Holder, Release(h)
  PROVE  HandleInv' /\ Shrinks
<1> DEFINE ptrs == [strong EXCEPT ![h] = NoPtr]  weaks == [weak EXCEPT ![h] = NoPtr]
<1>1. Settle(node, root, ptrs, weaks, asked)
  BY DEF Release
<1>2. ptrs \in [Holder -> Live \cup {NoPtr}] /\ weaks \in [Holder -> Live \cup {NoPtr}]
  BY InvMeans
<1>3. ASSUME NEW g \in Holder, NEW n \in {weaks[g], ptrs[g]} \cap Live
      PROVE  IsPrefix(node[n].path, Append(asked[g], Delim))
  <2>1. NoPtr \notin Live
    BY InvMeans, NodeAssumption DEF HeapOK, HeapTypeOK
  <2>2. n \in {weak[g], strong[g]} \cap Live
    BY <2>1, InvMeans
  <2> QED BY <2>2, InvMeans
<1> HIDE DEF ptrs, weaks
<1> QED BY <1>1, <1>2, <1>3, InvMeans, PointersKeep

\* Writing through a handle moves no pointer.
LEMMA WriteKeeps ==
  ASSUME HandleInv, NEW h \in Holder, NEW v \in Value, Write(h, v)
  PROVE  HandleInv' /\ Shrinks
<1>1. strong[h] \in Live
  BY InvMeans DEF Write
<1>2. SetsValue(strong[h], v) /\ UNCHANGED <<root, weak, strong, asked>>
  <2>1. node' = [node EXCEPT ![strong[h]].value = v] /\ oob' = oob
    BY <1>1 DEF Write, ValueSet, Live
  <2> QED BY <2>1 DEF SetsValue, Write, Live
<1>3. Grows /\ Shape(node') /\ oob' = FALSE
  BY <1>1, <1>2, InvMeans, ValueGrows
<1> QED BY <1>2, <1>3, GrowsKeeps DEF Grows

\* Inserts grow the heap.
LEMMA TreeInsertKeeps ==
  ASSUME HandleInv, NEW t \in Tries, NEW key \in Key, NEW v \in Value, TreeInsert(t, key, v)
  PROVE  HandleInv' /\ Shrinks
<1>1. root[t] \in Live /\ InsertKey(root[t], key, v) /\ UNCHANGED <<root, weak, strong, asked>>
  BY InvMeans DEF TreeInsert, StoreInsert
<1>2. Grows
  BY <1>1, InvMeans, InsertGrows
<1>3. Shape(node') /\ ~ oob'
  BY <1>1, InvMeans, InsertKeepsShape DEF TreeInsert
<1>4. oob' = FALSE
  BY <1>2, <1>3 DEF Grows, HeapTypeOK
<1> QED BY <1>1, <1>2, <1>3, <1>4, GrowsKeeps DEF Grows

\* A step that changes nothing.
LEMMA StutterKeeps ==
  ASSUME HandleInv, UNCHANGED handleVars
  PROVE  HandleInv' /\ Shrinks
<1>1. /\ node' = node /\ oob' = oob /\ root' = root /\ weak' = weak
      /\ strong' = strong /\ asked' = asked
  BY DEF handleVars
<1>2. \A n \in Live : node[n].path \in Seq(Char)
  BY InvMeans DEF HeapOK, HeapTypeOK, Fields
<1>3. Shrinks
  BY <1>1, <1>2, PrefixEnds DEF Shrinks
<1> QED BY <1>1, <1>3 DEF HandleInv, AllOwned, Ptr, Live

\* removed_fully empties a node and takes one pointer to it away.
LEMMA DropKeeps ==
  ASSUME HandleInv, NEW n \in Live, NEW d \in Live, NEW j \in DOMAIN node[d].kids,
         Settle([node EXCEPT ![n].value = NoValue, ![d].kids = RemoveAt(@, j)],
                root, strong, weak, asked)
  PROVE  HandleInv' /\ Shrinks
<1> DEFINE emptied == [node EXCEPT ![n].value = NoValue]
           heap    == [emptied EXCEPT ![d].kids = RemoveAt(@, j)]
<1>1. node \in [Live -> Fields] /\ \A m \in Live : Range(node[m].kids) \subseteq Live
  BY InvMeans DEF HeapOK, HeapTypeOK, Closed
<1>2. /\ emptied \in [Live -> Fields]
      /\ \A m \in Live : /\ emptied[m].path = node[m].path /\ emptied[m].frag = node[m].frag
                         /\ emptied[m].kids = node[m].kids
  <2>1. [node[n] EXCEPT !.value = NoValue] \in Fields
    BY <1>1 DEF Fields
  <2>2. emptied = [m \in Live |-> IF m = n THEN [node[n] EXCEPT !.value = NoValue] ELSE node[m]]
    BY <1>1
  <2>3. \A m \in Live : node[m] \in Fields
    BY <1>1
  <2> QED BY <2>1, <2>2, <2>3 DEF Fields
<1>3. node[d].kids \in Seq(Node) /\ emptied[d].kids = node[d].kids /\ emptied[d] \in Fields
  BY <1>1, <1>2 DEF Fields
<1>4. /\ RemoveAt(node[d].kids, j) \in Seq(Node)
      /\ Range(RemoveAt(node[d].kids, j)) \subseteq Range(node[d].kids)
  BY <1>3, RemoveAtType, RemoveAtPlaces DEF Range
<1> HIDE DEF emptied
<1>5. heap = [m \in Live |-> IF m = d THEN [emptied[d] EXCEPT !.kids = RemoveAt(node[d].kids, j)]
                                      ELSE emptied[m]]
  BY <1>2, <1>3
<1>6. /\ [emptied[d] EXCEPT !.kids = RemoveAt(node[d].kids, j)] \in Fields
      /\ [emptied[d] EXCEPT !.kids = RemoveAt(node[d].kids, j)].path = emptied[d].path
      /\ [emptied[d] EXCEPT !.kids = RemoveAt(node[d].kids, j)].frag = emptied[d].frag
      /\ [emptied[d] EXCEPT !.kids = RemoveAt(node[d].kids, j)].kids = RemoveAt(node[d].kids, j)
  BY <1>3, <1>4 DEF Fields
<1>7. /\ DOMAIN heap = Live /\ heap \in [DOMAIN heap -> Fields]
      /\ \A m \in Live : heap[m].path = node[m].path /\ heap[m].frag = node[m].frag
      /\ \A m \in Live : Range(heap[m].kids) \subseteq Range(node[m].kids)
      /\ heap[d].kids = RemoveAt(node[d].kids, j)
      /\ \A m \in Live \ {d} : heap[m].kids = node[m].kids
  <2>1. \A m \in Live : emptied[m] \in Fields
    BY <1>2
  <2> HIDE DEF heap
  <2> QED BY <1>2, <1>4, <1>5, <1>6, <2>1
<1>8. Settle(heap, root, strong, weak, asked)
  BY DEF emptied
<1> HIDE DEF heap
<1>9. Sound(heap, root, strong, weak, asked) /\ oob = FALSE
  <2>1. Closed(heap, DOMAIN heap)
    BY <1>1, <1>7 DEF Closed
  <2>2. DOMAIN heap \subseteq Node
    BY <1>7, InvMeans DEF HeapOK, HeapTypeOK
  <2>3. Lesser(heap, node)
    BY <1>7, <2>1, InvMeans DEF Lesser, Loses
  <2>4. Shape(heap)
    BY <1>1, <2>3, InvMeans, ShapeOfLess
  <2> QED BY <1>7, <2>1, <2>2, <2>4, InvMeans DEF Sound
<1>10. HandleInv' /\ \A m \in Live' : node'[m] = heap[m]
  BY <1>8, <1>9, SettleKeeps
<1> QED BY <1>7, <1>10, SettleCutsNothing

\* remove takes one pointer away, or one value, or nothing.
LEMMA TreeRemoveKeeps ==
  ASSUME HandleInv, NEW t \in Tries, NEW key \in Key, NEW include_children \in BOOLEAN,
         TreeRemove(t, key, include_children)
  PROVE  HandleInv' /\ Shrinks
<1> DEFINE l == Locate(root[t], key)
<1> HIDE DEF l
<1>1. \/ \E n, d \in Live : \E j \in DOMAIN node[d].kids :
           Settle([node EXCEPT ![n].value = NoValue, ![d].kids = RemoveAt(@, j)],
                  root, strong, weak, asked)
      \/ /\ ~ include_children \/ RemoveNone(l)
         /\ RemoveKey(root[t], key, include_children)
         /\ UNCHANGED <<root, weak, strong, asked>>
  BY DEF TreeRemove, l
<1>2. ASSUME NEW n \in Live, NEW d \in Live, NEW j \in DOMAIN node[d].kids,
             Settle([node EXCEPT ![n].value = NoValue, ![d].kids = RemoveAt(@, j)],
                    root, strong, weak, asked)
      PROVE  HandleInv' /\ Shrinks
  BY <1>2, DropKeeps
<1>3. ASSUME RemoveNone(l), UNCHANGED <<root, weak, strong, asked>>
      PROVE  HandleInv' /\ Shrinks
  <2>1. UNCHANGED handleVars
    BY <1>3 DEF RemoveNone, vars, handleVars
  <2> QED BY <2>1, StutterKeeps
<1>4. ASSUME RemoveValue(root[t], l), UNCHANGED <<root, weak, strong, asked>>
      PROVE  HandleInv' /\ Shrinks
  <2>1. root[t] \in Live /\ HeapTypeOK
    BY InvMeans DEF HeapOK
  <2>2. PICK n \in Live : SetsValue(n, NoValue)
    BY <1>4, <2>1, RemoveValueStep
  <2>3. Grows /\ Shape(node') /\ oob' = FALSE
    BY <2>2, InvMeans, ValueGrows
  <2> QED BY <1>4, <2>3, GrowsKeeps DEF Grows
<1>5. ASSUME ~ include_children \/ RemoveNone(l), RemoveKey(root[t], key, include_children)
      PROVE  RemoveValue(root[t], l) \/ RemoveNone(l)
  BY <1>5 DEF RemoveKey, l
<1> QED BY <1>1, <1>2, <1>3, <1>4, <1>5

\* What one step does.
LEMMA HandleStep ==
  ASSUME HandleInv, [HandleNext]_handleVars
  PROVE  HandleInv' /\ Shrinks
<1>1. CASE UNCHANGED handleVars
  BY <1>1, StutterKeeps
<1>2. CASE TrieNext
  <2>1. PICK t \in Tries :
          \/ \E key \in Key :
               \/ \E v \in Value : TreeInsert(t, key, v)
               \/ \E include_children \in BOOLEAN : TreeRemove(t, key, include_children)
               \/ \E h \in Holder : GetNode(t, key, h)
          \/ \E u \in Tries : Assign(t, u)
          \/ \E h \in Holder : SwapRoot(t, h) \/ ResetRoot(t, h)
    BY <1>2 DEF TrieNext
  <2> QED BY <2>1, TreeInsertKeeps, TreeRemoveKeeps, GetNodeKeeps, AssignKeeps, SwapRootKeeps,
             ResetRootKeeps
<1>3. CASE HolderNext
  BY <1>3, LockKeeps, ReleaseKeeps, WriteKeeps DEF HolderNext
<1> QED BY <1>1, <1>2, <1>3 DEF HandleNext

-----------------------------------------------------------------------------
(* Trees apart.                                                            *)

\* A node that another owns hangs from one that it owns too.
LEMMA OwnedHangs ==
  ASSUME NEW heap, Closed(heap, DOMAIN heap), NEW r \in DOMAIN heap,
         NEW n \in Owned(heap, {r}) \ {r}
  PROVE  \E m \in Owned(heap, {r}) : n \in Range(heap[m].kids)
<1> DEFINE T == Owned(heap, {r})
<1>1. r \in T /\ T \subseteq DOMAIN heap /\ Closed(heap, T)
  BY OwnedClosed
<1> HIDE DEF T
<1>2. SUFFICES ASSUME \A m \in T : n \notin Range(heap[m].kids) PROVE FALSE
  BY DEF T
<1>3. {r} \subseteq T \ {n} /\ T \ {n} \in SUBSET DOMAIN heap /\ Closed(heap, T \ {n})
  BY <1>1, <1>2 DEF Closed
<1>4. T \subseteq T \ {n}
  BY <1>3, OwnedLeast DEF T
<1> QED BY <1>4 DEF T

\* Two roots own no node together: a child is in one place only, and is no root.
LEMMA TreesApart ==
  ASSUME HeapOK, Shape(node), NEW p \in Live, NEW q \in Live, p # q,
         node[p].path = <<>>, node[q].path = <<>>
  PROVE  Owned(node, {p}) \cap Owned(node, {q}) = {}
<1> DEFINE P == Owned(node, {p})  Q == Owned(node, {q})
<1>1. /\ p \in P /\ P \subseteq Live /\ Closed(node, P) /\ Closed(node, Live)
      /\ q \in Q /\ Q \subseteq Live /\ Closed(node, Q) /\ Live = DOMAIN node
  BY OwnedClosed DEF HeapOK, Live
<1>2. \A m \in Live : \A k \in Range(node[m].kids) : k # p /\ k # q
  BY DEF Shape, KidsHavePaths, Live
<1>3. \A k \in Q \ {q} : \E m \in Q : k \in Range(node[m].kids)
  BY <1>1, OwnedHangs
<1> HIDE DEF P, Q
<1>4. p \notin Q
  BY <1>1, <1>2, <1>3
<1>5. Closed(node, P \ Q)
  <2> SUFFICES ASSUME NEW m \in P \ Q, NEW k \in Range(node[m].kids), k \in Q PROVE FALSE
    BY <1>1 DEF Closed
  <2>1. k # q
    BY <1>1, <1>2
  <2>2. PICK x \in Q : k \in Range(node[x].kids)
    BY <1>3, <2>1
  <2>3. PICK i \in DOMAIN node[m].kids : node[m].kids[i] = k
    BY DEF Range
  <2>4. PICK j \in DOMAIN node[x].kids : node[x].kids[j] = k
    BY <2>2 DEF Range
  <2>5. m = x
    BY <1>1, <2>3, <2>4 DEF Shape, SingleParent
  <2> QED BY <2>5
<1>6. P \subseteq P \ Q
  <2>1. {p} \subseteq P \ Q /\ P \ Q \in SUBSET DOMAIN node
    BY <1>1, <1>4
  <2> QED BY <1>5, <2>1, OwnedLeast DEF P
<1> QED BY <1>6 DEF P, Q

\* What a root owns depends on the children of what it owns alone.
LEMMA OwnedSame ==
  ASSUME NEW old, Closed(old, DOMAIN old), NEW r \in DOMAIN old, NEW heap,
         Owned(old, {r}) \subseteq DOMAIN heap,
         \A n \in Owned(old, {r}) : heap[n].kids = old[n].kids
  PROVE  Owned(heap, {r}) = Owned(old, {r})
<1> DEFINE T == Owned(old, {r})
<1>1. r \in T /\ T \subseteq DOMAIN old /\ Closed(old, T)
  BY OwnedClosed
<1>2. T \in SUBSET DOMAIN heap /\ \A n \in T : heap[n].kids = old[n].kids
  OBVIOUS
<1> HIDE DEF T
<1>3. Closed(heap, T)
  BY <1>1, <1>2 DEF Closed
<1>4. Owned(heap, {r}) \subseteq T
  BY <1>1, <1>2, <1>3, OwnedLeast
<1>5. ASSUME NEW n \in T, NEW U \in SUBSET DOMAIN heap, {r} \subseteq U, Closed(heap, U)
      PROVE  n \in U
  <2>1. {r} \subseteq U \cap T /\ U \cap T \in SUBSET DOMAIN old /\ Closed(old, U \cap T)
    BY <1>1, <1>2, <1>5 DEF Closed
  <2>2. T \subseteq U \cap T
    BY <2>1, OwnedLeast DEF T
  <2> QED BY <2>2
<1>6. T \subseteq Owned(heap, {r})
  BY <1>2, <1>5, OwnedIf
<1> QED BY <1>4, <1>6 DEF T

\* The tree of u stands as it did.
Untouched(u) == Below(u)' = Below(u) /\ \A n \in Below(u) : node'[n] = node[n]

\* A step that changes nodes of the tree of t at most leaves the trees with other roots.
LEMMA OthersUntouched ==
  ASSUME HandleInv, NEW t \in Tries, NEW u \in Tries, root[t] # root[u], root' = root,
         Below(u) \subseteq Live', \A m \in Below(u) \ Below(t) : node'[m] = node[m]
  PROVE  Untouched(u)
<1>1. /\ root[t] \in Live /\ root[u] \in Live /\ HeapOK /\ Shape(node) /\ Live = DOMAIN node
      /\ node[root[t]].path = <<>> /\ node[root[u]].path = <<>> /\ Closed(node, DOMAIN node)
  BY InvMeans DEF HeapOK
<1>2. Below(t) \cap Below(u) = {}
  BY <1>1, TreesApart DEF Below
<1>3. \A m \in Below(u) : node'[m] = node[m]
  BY <1>2
<1>4. Owned(node, {root[u]}) \subseteq DOMAIN node'
  BY DEF Below, Live
<1>5. \A m \in Owned(node, {root[u]}) : node'[m].kids = node[m].kids
  BY <1>3 DEF Below
<1>6. Owned(node', {root[u]}) = Owned(node, {root[u]})
  BY <1>1, <1>4, <1>5, OwnedSame
<1> QED BY <1>3, <1>6 DEF Untouched, Below

\* An insert writes to one node of the tree it is made in, and to new ones.
LEMMA InsertWrites ==
  ASSUME HeapOK, Shape(node), NEW top \in Live, node[top].path = <<>>,
         NEW key \in Key, NEW v \in Value, InsertKey(top, key, v)
  PROVE  \E n \in Owned(node, {top}) :
           Live \subseteq Live' /\ \A m \in Live \ {n} : node'[m] = node[m]
<1>1. HeapTypeOK /\ key \in Seq(Char) /\ top \in Owned(node, {top})
  BY KeyAssumption, OwnedClosed DEF HeapOK, Live
<1> DEFINE r == Find(top, key)
<1>2. ASSUME NEW n, IsHit(r), r.ptr = n PROVE n \in Owned(node, {top})
  BY <1>1, <1>2, SearchBelow
<1> HIDE DEF r
<1>3. CASE Replace(top, r, v)
  <2>1. PICK n \in Live : r = Matched(n) /\ SetsValue(n, v)
    BY <1>1, <1>3, ReplaceStep
  <2>2. IsHit(r) /\ r.ptr = n
    BY <2>1 DEF IsHit, Matched
  <2>3. Live \subseteq Live' /\ \A m \in Live \ {n} : node'[m] = node[m]
    BY <2>1 DEF SetsValue
  <2> QED BY <1>2, <2>2, <2>3
<1>4. CASE AddChild(top, r, key, v)
  <2>1. PICK n \in Live, a \in Node \ Live :
          /\ r = Partial(n, Len(node[n].frag))
          /\ \E title \in RestTitle(key, Len(node[n].path)) : AddsChild(key, v, n, a, title)
    BY <1>1, <1>4, AddChildStep
  <2>2. PICK title : AddsChild(key, v, n, a, title)
    BY <2>1
  <2>3. /\ Len(node[n].frag) > 0 /\ Live \subseteq Live'
        /\ \A m \in Live \ {n} : node'[m] = node[m]
    BY <2>2 DEF AddsChild
  <2>4. IsHit(r) /\ r.ptr = n
    BY <2>1, <2>3 DEF IsHit, Partial
  <2> QED BY <1>2, <2>3, <2>4
<1>5. CASE Split(top, r, key, v)
  <2>1. PICK n \in Live, b \in Node \ Live :
        \E c \in Node \ (Live \cup {b}), pms \in 1 .. Len(node[n].frag) - 1 :
          /\ r = Partial(n, pms)
          /\ \E title \in RestTitle(key, CutAt(n, pms)) : Splits(key, v, n, pms, b, c, title)
    BY <1>1, <1>5, SplitStep
  <2>2. PICK c \in Node \ (Live \cup {b}), pms \in 1 .. Len(node[n].frag) - 1 :
          r = Partial(n, pms) /\ \E title : Splits(key, v, n, pms, b, c, title)
    BY <2>1
  <2>3. PICK title : Splits(key, v, n, pms, b, c, title)
    BY <2>2
  <2>4. Live \subseteq Live' /\ \A m \in Live \ {n} : node'[m] = node[m]
    BY <2>3 DEF Splits
  <2>5. IsHit(r) /\ r.ptr = n
    BY <2>2 DEF IsHit, Partial
  <2> QED BY <1>2, <2>4, <2>5
<1>6. CASE AddAtRoot(top, r, key, v)
  <2>1. PICK a \in Node \ Live : AddsAtRoot(top, key, v, a)
    BY <1>1, <1>6, AddAtRootStep
  <2>2. Live \subseteq Live' /\ \A m \in Live \ {top} : node'[m] = node[m]
    BY <2>1 DEF AddsAtRoot
  <2> QED BY <1>1, <2>2
<1> QED BY <1>3, <1>4, <1>5, <1>6 DEF InsertKey, r

\* An insert in one tree is invisible in another.
LEMMA InsertApart ==
  ASSUME HandleInv, NEW t \in Tries, NEW u \in Tries, root[t] # root[u],
         NEW key \in Key, NEW v \in Value, TreeInsert(t, key, v)
  PROVE  Untouched(u)
<1>1. /\ root[t] \in Live /\ node[root[t]].path = <<>> /\ HeapOK /\ Shape(node)
      /\ InsertKey(root[t], key, v) /\ root' = root
  BY InvMeans DEF TreeInsert, StoreInsert
<1>2. PICK n \in Below(t) : Live \subseteq Live' /\ \A m \in Live \ {n} : node'[m] = node[m]
  BY <1>1, InsertWrites DEF Below
<1>3. Below(u) \subseteq Live
  BY DEF Below, Owned, Live
<1>4. Below(u) \subseteq Live' /\ \A m \in Below(u) \ Below(t) : node'[m] = node[m]
  BY <1>2, <1>3
<1> QED BY <1>1, <1>4, OthersUntouched

\* What remove takes is in the tree it is taken from, and so is the parent that drops it.
LEMMA RemoveTakes ==
  ASSUME HandleInv, NEW t \in Tries, NEW key \in Key, NEW n \in Live,
         Takes(Locate(root[t], key), n)
  PROVE  /\ n \in Below(t)
         /\ \A d \in Live : n \in Range(node[d].kids) => d \in Below(t)
<1>1. /\ root[t] \in Live /\ node[root[t]].path = <<>> /\ HeapOK /\ Shape(node)
      /\ key \in Seq(Char) /\ Live = DOMAIN node /\ Closed(node, DOMAIN node)
  BY InvMeans, KeyAssumption DEF HeapOK
<1>2. n \in Below(t)
  <2>1. IsHit(Locate(root[t], key)) /\ Locate(root[t], key).ptr = n
    BY DEF Takes, EndsInDelim, IsHit
  <2>2. IsHit(Find(root[t], key)) /\ Find(root[t], key).ptr = n
    BY <1>1, <2>1, SearchBelow DEF SameAnswer, IsHit
  <2> QED BY <1>1, <2>2, SearchBelow DEF Below
<1>3. ASSUME NEW d \in Live, n \in Range(node[d].kids) PROVE d \in Below(t)
  <2>1. n # root[t]
    BY <1>1, <1>3 DEF Shape, KidsHavePaths
  <2>2. PICK m \in Below(t) : n \in Range(node[m].kids)
    BY <1>1, <1>2, <2>1, OwnedHangs DEF Below
  <2>3. m \in Live
    BY DEF Below, Owned, Live
  <2>4. PICK i \in DOMAIN node[m].kids : node[m].kids[i] = n
    BY <2>2 DEF Range
  <2>5. PICK j \in DOMAIN node[d].kids : node[d].kids[j] = n
    BY <1>3 DEF Range
  <2>6. m = d
    BY <1>1, <2>3, <2>4, <2>5 DEF Shape, SingleParent
  <2> QED BY <2>6
<1> QED BY <1>2, <1>3

\* A remove in one tree is invisible in another.
LEMMA RemoveApart ==
  ASSUME HandleInv, NEW t \in Tries, NEW u \in Tries, root[t] # root[u],
         NEW key \in Key, NEW include_children \in BOOLEAN, TreeRemove(t, key, include_children)
  PROVE  Untouched(u)
<1> DEFINE l == Locate(root[t], key)
<1>1. /\ root[t] \in Live /\ root[u] \in Live /\ HeapOK /\ Live = DOMAIN node
      /\ Closed(node, DOMAIN node) /\ root \in [Tries -> Live]
  BY InvMeans DEF HeapOK
<1>2. ASSUME NEW n \in Live, Takes(l, n) PROVE n \in Below(t)
  BY <1>2, RemoveTakes
<1>3. ASSUME NEW n \in Live, NEW d \in Live, Takes(l, n), n \in Range(node[d].kids)
      PROVE  d \in Below(t)
  BY <1>3, RemoveTakes
<1> HIDE DEF l
<1>4. Below(u) \subseteq Live
  BY DEF Below, Owned, Live
<1>5. ASSUME NEW n \in Live, NEW d \in Live, NEW j \in DOMAIN node[d].kids,
             Takes(l, n), node[d].kids[j] = n,
             Settle([node EXCEPT ![n].value = NoValue, ![d].kids = RemoveAt(@, j)],
                    root, strong, weak, asked)
      PROVE  Untouched(u)
  <2> DEFINE emptied == [node EXCEPT ![n].value = NoValue]
             heap    == [emptied EXCEPT ![d].kids = RemoveAt(@, j)]
  <2>1. n \in Below(t) /\ d \in Below(t)
    BY <1>2, <1>3, <1>5 DEF Range
  <2>2. Settle(heap, root, strong, weak, asked)
    BY <1>5
  <2>3. DOMAIN heap = Live /\ \A m \in Live \ {n, d} : heap[m] = node[m]
    BY <1>1
  <2> HIDE DEF heap
  <2>4. root' = root /\ node' = [m \in Owned(heap, Held(root, strong)) |-> heap[m]]
    BY <2>2 DEF Settle
  <2>5. Live' = Owned(heap, Held(root, strong))
    BY <2>4 DEF Live
  <2>6. Below(t) \cap Below(u) = {}
    BY <1>1, InvMeans, TreesApart DEF Below
  <2>7. \A m \in Below(u) : heap[m] = node[m]
    BY <1>4, <2>1, <2>3, <2>6
  <2>8. Owned(heap, {root[u]}) = Below(u)
    BY <1>1, <1>4, <2>3, <2>7, OwnedSame DEF Below
  <2>9. root[u] \in Held(root, strong)
    <3>1. NoPtr \notin Live
      BY <1>1, NodeAssumption DEF HeapOK, HeapTypeOK
    <3> QED BY <1>1, <3>1 DEF Held, Range
  <2>10. Owned(heap, {root[u]}) \subseteq Owned(heap, Held(root, strong))
    BY <2>9 DEF Owned
  <2>11. Below(u) \subseteq Live' /\ \A m \in Below(u) : node'[m] = node[m]
    BY <2>4, <2>5, <2>7, <2>8, <2>10
  <2> QED BY <2>4, <2>11, OthersUntouched
<1>6. ASSUME NEW n \in Live, Takes(l, n), node' = [node EXCEPT ![n].value = NoValue], root' = root
      PROVE  Untouched(u)
  <2>1. n \in Below(t)
    BY <1>2, <1>6
  <2>2. Live' = Live /\ \A m \in Live \ {n} : node'[m] = node[m]
    BY <1>1, <1>6 DEF Live
  <2> QED BY <1>4, <1>6, <2>1, <2>2, OthersUntouched
<1>7. ASSUME node' = node, root' = root PROVE Untouched(u)
  <2>1. Live' = Live
    BY <1>7 DEF Live
  <2> QED BY <1>4, <1>7, <2>1, OthersUntouched
<1>8. \/ \E n, d \in Live : \E j \in DOMAIN node[d].kids :
           /\ Takes(l, n) /\ node[d].kids[j] = n
           /\ Settle([node EXCEPT ![n].value = NoValue, ![d].kids = RemoveAt(@, j)],
                     root, strong, weak, asked)
      \/ /\ ~ include_children \/ RemoveNone(l)
         /\ RemoveKey(root[t], key, include_children)
         /\ root' = root
  BY DEF TreeRemove, l
<1>9. ASSUME ~ include_children \/ RemoveNone(l), RemoveKey(root[t], key, include_children)
      PROVE  RemoveValue(root[t], l) \/ RemoveNone(l)
  BY <1>9 DEF RemoveKey, l
<1>10. RemoveNone(l) => node' = node
  BY DEF RemoveNone, vars
<1>11. RemoveValue(root[t], l)
         => \E n \in Live : Takes(l, n) /\ node' = [node EXCEPT ![n].value = NoValue]
  BY DEF RemoveValue
<1> QED BY <1>5, <1>6, <1>7, <1>8, <1>9, <1>10, <1>11

-----------------------------------------------------------------------------
(* What a write through a handle is.                                       *)

\* In the next state too a search answers as its nodes do.
LEMMA FindIsNext ==
  (Wood => \A top \in Live, key \in Seq(Char) :
             \E f : Searches(f, key) /\ Find(top, key) = f[top][0])'
<1>1. Wood => \A top \in Live, key \in Seq(Char) :
                \E f : Searches(f, key) /\ Find(top, key) = f[top][0]
  BY FindIs
<1> QED BY <1>1, PTL

\* And in the next state too the trees are ones that searches end on.
LEMMA InvIsWoodNext == (HandleInv => Wood)'
<1>1. HandleInv => Wood
  BY InvMeans, ShapeIsGrove DEF HeapOK, Grove
<1> QED BY <1>1, PTL

\* A search reads no value.
LEMMA FindSame ==
  ASSUME Wood, Wood', Live' = Live,
         \A n \in Live : node'[n].kids = node[n].kids /\ node'[n].frag = node[n].frag,
         NEW top \in Live, NEW key \in Seq(Char)
  PROVE  Find(top, key)' = Find(top, key)
<1>1. PICK f : Searches(f, key) /\ Find(top, key) = f[top][0]
  BY FindIs
<1>2. PICK g : Searches(g, key)' /\ Find(top, key)' = g[top][0]
  BY FindIsNext
<1>3. \A n \in Live, i \in 0 .. Len(key) : FindAt(n, key, i, g)' = FindAt(n, key, i, g)
  BY DEF FindAt
<1>4. Searches(g, key)
  BY <1>2, <1>3 DEF Searches, Asked, Answer
<1> DEFINE T == {n \in Live : f[n] = g[n]}
<1>5. ASSUME NEW n \in Live, Range(node[n].kids) \subseteq T PROVE n \in T
  <2>1. \A i \in 0 .. Len(key) : FindAt(n, key, i, f) = FindAt(n, key, i, g)
    BY <1>5, FindAtSame
  <2>2. \A i \in 0 .. Len(key) : f[n][i] = g[n][i]
    BY <1>1, <1>4, <2>1 DEF Searches
  <2>3. f[n] \in Asked(key) /\ g[n] \in Asked(key)
    BY <1>1, <1>4 DEF Searches
  <2> QED BY <2>2, <2>3 DEF Asked
<1>6. T = Live
  <2> HIDE DEF T
  <2>1. T \in SUBSET Live
    BY DEF T
  <2> QED BY <1>5, <2>1, WoodInduction
<1> QED BY <1>1, <1>2, <1>6

\* What a trie reads is what its root reads.
LEMMA GetOfRootNext ==
  (\A t \in Tries, key \in Key, top \in Live : root[t] = top => Get(root[t], key) = Get(top, key))'
<1>1. \A t \in Tries, key \in Key, top \in Live : root[t] = top => Get(root[t], key) = Get(top, key)
  OBVIOUS
<1> QED BY <1>1, PTL

\* A value written through a handle is what its key reads, and shows under no other key
\* that get may be asked for.
LEMMA WriteIsASet ==
  ASSUME HandleInv, NEW h \in Holder, NEW v \in Value, Write(h, v),
         NEW t \in Tries, NEW key \in Key, ProperGet(root[t], key)
  PROVE  \E n \in Live :
           /\ n = strong[h]
           /\ n \in Below(t) /\ node[n].path = key => Get(root[t], key)' = v
           /\ Get(root[t], key)' # Get(root[t], key) =>
                n \in Below(t) /\ node[n].path \in {key, Append(key, Delim)}
<1> PICK top, n : top = root[t] /\ n = strong[h]
  OBVIOUS
<1> PICK r, l : r = Find(top, key) /\ l = Locate(top, key)
  OBVIOUS
<1>1. /\ top \in Live /\ node[top].path = <<>> /\ HeapOK /\ Shape(node) /\ Live = DOMAIN node
      /\ n \in Live /\ node[n].path # <<>> /\ root'[t] = top /\ key \in Seq(Char)
      /\ Below(t) = Owned(node, {top}) /\ Below(t) \subseteq Live
  BY InvMeans, KeyAssumption DEF Write, Live, Below, Owned
<1>2. /\ node \in [Live -> Fields] /\ Live' = Live
      /\ node' = [node EXCEPT ![n].value = v]
  BY <1>1 DEF Write, ValueSet, HeapOK, HeapTypeOK, Live
<1>3. /\ \A m \in Live : node'[m].kids = node[m].kids /\ node'[m].frag = node[m].frag
      /\ node'[n].value = v /\ \A m \in Live \ {n} : node'[m].value = node[m].value
  BY <1>1, <1>2 DEF Fields
<1>4. Grove /\ Wood /\ Wood'
  BY <1>1, ShapeIsGrove, WriteKeeps, InvIsWoodNext DEF HeapOK, Grove
<1>5. /\ SameAnswer(r, l) /\ r \in Answer /\ l \in LocAnswer
      /\ IsHit(r) => r.ptr \in Below(t) /\ r.ptr \in Live
  BY <1>1, SearchBelow
<1>6. Find(top, key)' = r
  BY <1>1, <1>2, <1>3, <1>4, FindSame
<1> DEFINE known == r.matched \/ EndsInDelim(r)
<1>7. EndsInDelim(r)' <=> EndsInDelim(r)
  BY <1>3, <1>5 DEF EndsInDelim, IsHit
<1>8. Get(top, key) = IF known THEN node[r.ptr].value ELSE node[top].value
  BY DEF Get
<1>9. Get(root[t], key)' = IF known THEN node'[r.ptr].value ELSE node'[top].value
  <2>1. Get(root[t], key)' = Get(top, key)'
    BY <1>1, <1>2, GetOfRootNext
  <2>2. Get(top, key)' = IF known THEN node'[r.ptr].value ELSE node'[top].value
    BY <1>6, <1>7 DEF Get
  <2> QED BY <2>1, <2>2
<1>10. ASSUME n \in Below(t), node[n].path = key PROVE Get(root[t], key)' = v
  <2>1. Owned(node, {top}) = Subtree(top)
    BY <1>1 DEF Owned, Subtree
  <2>2. r = Matched(n)
    BY <1>1, <1>4, <1>10, <2>1, PathFound DEF Titled
  <2> QED BY <1>3, <1>9, <2>2 DEF Matched
<1>11. ASSUME Get(root[t], key)' # Get(root[t], key)
       PROVE  n \in Below(t) /\ node[n].path \in {key, Append(key, Delim)}
  <2>1. known /\ r.ptr = n /\ IsHit(r)
    BY <1>1, <1>3, <1>5, <1>8, <1>9, <1>11 DEF IsHit, EndsInDelim
  <2>2. l.ptr = n /\ l.pms = r.pms /\ l.matched = r.matched /\ r.pms \in Nat
    BY <1>5, <2>1 DEF SameAnswer, Answer
  <2>3. n \in Below(t) /\ IsHit(l) /\ (l.matched \/ EndsInDelim(l))
    <3>1. EndsInDelim(r) => EndsInDelim(l)
      BY <2>1, <2>2 DEF EndsInDelim
    <3> QED BY <1>5, <2>1, <2>2, <3>1 DEF IsHit
  <2>4. l.matched \/ l.pms < Len(node[n].frag) => Located(l) = key
    <3>1. l = Locate(root[t], key)
      OBVIOUS
    <3> QED BY <2>2, <2>3, <3>1 DEF ProperGet
  <2>5. CASE l.matched
    <3>1. Located(l) = node[n].path
      BY <2>2, <2>5 DEF Located
    <3> QED BY <2>3, <2>4, <2>5, <3>1
  <2>6. CASE ~ l.matched
    <3>1. /\ node[n].path \in Seq(Char) /\ node[n].frag \in Seq(Char)
          /\ IsSuffix(node[n].frag, node[n].path)
      BY <1>1, <1>2 DEF Fields, Shape, Suffixed
    <3>2. Len(node[n].frag) = l.pms + 1 /\ Last(node[n].frag) = Delim
      BY <2>2, <2>3, <2>6 DEF EndsInDelim
    <3>3. Len(node[n].frag) > 0 /\ Len(node[n].frag) - l.pms = 1 /\ l.pms < Len(node[n].frag)
      BY <2>2, <3>2
    <3>4. Located(l) = Chop(node[n].path, Len(node[n].frag) - l.pms)
      BY <2>2, <2>6 DEF Located
    <3>5. Chop(node[n].path, 1) = key
      BY <2>4, <3>3, <3>4
    <3>6. node[n].path = Append(key, Delim)
      BY <3>1, <3>2, <3>3, <3>5, PutBackLast
    <3> QED BY <2>3, <3>6
  <2> QED BY <2>5, <2>6
<1> QED BY <1>1, <1>10, <1>11

-----------------------------------------------------------------------------
(* The theorems.                                                           *)

\* Every reachable heap of nodes that tries and handles own satisfies the invariant the
\* other theorems rest on.
THEOREM HandleInvariant == HandleSpec => []HandleInv
BY HandleInvInit, HandleStep, PTL DEF HandleSpec

\* Roots, weak and shared handles point to live nodes: what somebody owns is not freed,
\* and what nobody owns has left no handle behind.
THEOREM HandleTypes == HandleSpec => []HandleTypeOK
<1>1. HandleInv => HandleTypeOK
  BY InvMeans DEF HandleInv, HandleTypeOK, HeapOK, Ptr
<1> QED BY <1>1, HandleInvariant, PTL

\* What a handle points to lies on the way to the key it was got with, however the trees
\* have been cut, exchanged and taken apart since.
THEOREM HandlesFollowKeys == HandleSpec => []HandleFollowsKey
<1>1. HandleInv => HandleFollowsKey
  BY InvMeans DEF HandleFollowsKey
<1> QED BY <1>1, HandleInvariant, PTL

\* A node never comes to stand for another key, only for a prefix of its own.
THEOREM PathsShrink == HandleSpec => PathsOnlyShrink
<1>1. HandleInv /\ [HandleNext]_handleVars
        => [\A n \in Live \cap Live' : IsPrefix(node'[n].path, node[n].path)]_handleVars
  BY HandleStep DEF Shrinks
<1> QED BY <1>1, HandleInvariant, PTL DEF HandleSpec, PathsOnlyShrink

\* root(new_root) frees no node.
THEOREM SwapsFreeNothing == HandleSpec => SwapFreesNothing
<1>1. HandleInv
        => [~ (Live \subseteq Live') =>
              \A t \in Tries, h \in Holder : ~ SwapRoot(t, h) /\ ~ ResetRoot(t, h)]_handleVars
  BY SwapRootKeeps, ResetRootKeeps
<1> QED BY <1>1, HandleInvariant, PTL DEF HandleSpec, SwapFreesNothing

\* Calls on one trie are invisible through another, unless the two share their root.
THEOREM TriesStayApart == HandleSpec => TriesAreIsolated
<1>1. HandleInv
        => [\A u \in Tries :
              node' # node /\ ~ (Below(u)' = Below(u) /\ \A n \in Below(u) : node'[n] = node[n]) =>
                \A t \in {x \in Tries : root[x] # root[u]}, key \in Key :
                  /\ \A v \in Value : ~ TreeInsert(t, key, v)
                  /\ \A c \in BOOLEAN : ~ TreeRemove(t, key, c)]_handleVars
  BY InsertApart, RemoveApart DEF Untouched
<1> QED BY <1>1, HandleInvariant, PTL DEF HandleSpec, TriesAreIsolated

\* A value written through a handle is what the key of its node reads, in every trie the
\* node is still in, and shows under no other key that get may be asked for.
THEOREM HandleWritesAreSets == HandleSpec => HandleWriteIsASet
<1>1. HandleInv
        => [\A h \in Holder, v \in Value : node' # node /\ Write(h, v) =>
              \A t \in Tries : \A key \in {k \in Key : ProperGet(root[t], k)} : \E n \in Live :
                /\ n = strong[h]
                /\ n \in Below(t) /\ node[n].path = key => Get(root[t], key)' = v
                /\ Get(root[t], key)' # Get(root[t], key) =>
                     n \in Below(t) /\ node[n].path \in {key, Append(key, Delim)}]_handleVars
  BY WriteIsASet
<1> QED BY <1>1, HandleInvariant, PTL DEF HandleSpec, HandleWriteIsASet
=============================================================================
