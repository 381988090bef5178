----------------------------- MODULE TrieProofs -----------------------------
(***************************************************************************)
(* Theorems about module Trie, for every set of keys, characters, values   *)
(* and node ids.                                                           *)
(***************************************************************************)
EXTENDS Trie, TLAPS

USE NodeAssumption, KeyAssumption, ValueAssumption

-----------------------------------------------------------------------------
(* The pieces of keys and paths.                                           *)

\* A piece of a character sequence is a character sequence.
LEMMA DropType ==
  ASSUME NEW s \in Seq(Char), NEW i \in Nat
  PROVE  Drop(s, i) \in Seq(Char)
BY DEF Drop

\* Cutting characters off the end of a path leaves a path.
LEMMA ChopType ==
  ASSUME NEW s \in Seq(Char), NEW i \in Nat
  PROVE  Chop(s, i) \in Seq(Char)
BY DEF Chop

\* A title is a character sequence, even one read past the end of its key.
LEMMA RestTitleType ==
  ASSUME NEW key \in Key, NEW m \in Nat
  PROVE  RestTitle(key, m) \subseteq Seq(Char)
BY DropType DEF RestTitle

\* The fields of the nodes an insert makes.
LEMMA LeafType ==
  ASSUME NEW p \in Seq(Char), NEW f \in Seq(Char), NEW v \in Value \cup {NoValue}
  PROVE  Leaf(p, f, v) \in Fields
BY DEF Leaf, Fields

\* A node that has been given a child is a node.
LEMMA AdoptType ==
  ASSUME NEW x \in Fields, NEW a \in Node
  PROVE  Adopt(x, a) \in Fields
<1>1. x.kids \in Seq(Node)
  BY DEF Fields
<1>2. Append(x.kids, a) \in Seq(Node)
  BY <1>1
<1> QED BY <1>2 DEF Adopt, Fields

\* What a split makes of the node it cuts is a node.
LEMMA CutNodeType ==
  ASSUME NEW x \in Fields, NEW pms \in 1 .. Len(x.frag) - 1, NEW b \in Node, NEW c \in Node
  PROVE  CutNode(x, pms, b, c) \in Fields
<1>1. Len(x.frag) - pms \in Nat /\ x.path \in Seq(Char) /\ x.frag \in Seq(Char)
  BY DEF Fields
<1>2. Chop(x.path, Len(x.frag) - pms) \in Seq(Char)
  BY <1>1, ChopType
<1>3. SubSeq(x.frag, 1, pms) \in Seq(Char)
  BY <1>1
<1>4. x.kids \o <<b, c>> \in Seq(Node)
  BY DEF Fields
<1> QED BY <1>2, <1>3, <1>4 DEF CutNode, Fields

\* The leaf a split makes for the part it cut off is a node.
LEMMA CutOffType ==
  ASSUME NEW x \in Fields, NEW pms \in 1 .. Len(x.frag) - 1
  PROVE  CutOff(x, pms) \in Fields
<1>1. x.frag \in Seq(Char) /\ x.path \in Seq(Char) /\ x.value \in Value \cup {NoValue}
  BY DEF Fields
<1>2. pms \in Nat
  BY <1>1
<1> QED BY <1>1, <1>2, DropType, LeafType DEF CutOff

-----------------------------------------------------------------------------
(* The actions as equations between heaps, for the nodes and the title they  *)
(* chose.                                                                  *)

AddsChild(key, v, n, a, title) ==
  /\ Len(node[n].frag) > 0
  /\ Live' = Live \cup {a}
  /\ node' = [m \in Live \cup {a} |->
                IF m = a THEN Leaf(key, title, v)
                ELSE IF m = n THEN Adopt(node[n], a) ELSE node[m]]
  /\ oob' = (oob \/ Len(node[n].path) > Len(key))

CutAt(n, pms) == Len(Chop(node[n].path, Len(node[n].frag) - pms))

Splits(key, v, n, pms, b, c, title) ==
  /\ Live' = Live \cup {b, c}
  /\ node' = [m \in Live \cup {b, c} |->
                IF m = c THEN Leaf(key, title, v)
                ELSE IF m = b THEN CutOff(node[n], pms)
                ELSE IF m = n THEN CutNode(node[n], pms, b, c)
                ELSE node[m]]
  /\ oob' = (oob \/ CutAt(n, pms) > Len(key))

AddsAtRoot(top, key, v, a) ==
  /\ Live' = Live \cup {a} /\ oob' = oob
  /\ node' = [m \in Live \cup {a} |->
                IF m = a THEN Leaf(key, key, v)
                ELSE IF m = top
                  THEN [Adopt(node[top], a) EXCEPT !.value = NoValue, !.type = "branch"]
                ELSE node[m]]

SetsValue(n, x) ==
  /\ Live' = Live /\ oob' = oob
  /\ node' = [node EXCEPT ![n].value = x]

RemovesTree(n, d, j) ==
  /\ node[d].kids[j] = n
  /\ Live' = Live \ Subtree(n) /\ oob' = oob
  /\ node' = [m \in Live \ Subtree(n) |->
                IF m = d THEN [node[d] EXCEPT !.kids = RemoveAt(@, j)]
                         ELSE node[m]]

\* insert over a match sets a value.
LEMMA ReplaceStep ==
  ASSUME HeapTypeOK, NEW top \in Live, NEW r, NEW v \in Value, Replace(top, r, v)
  PROVE  \E n \in Live \ {top} : r = Matched(n) /\ SetsValue(n, v)
BY DEF Replace, SetsValue, HeapTypeOK, Live

\* insert below a node whose whole fragment is a prefix adds one child to it.
LEMMA AddChildStep ==
  ASSUME HeapTypeOK, NEW top \in Live, NEW r, NEW key \in Key, NEW v \in Value,
         AddChild(top, r, key, v)
  PROVE  \E n \in Live \ {top}, a \in Node \ Live :
           /\ r = Partial(n, Len(node[n].frag))
           /\ \E title \in RestTitle(key, Len(node[n].path)) : AddsChild(key, v, n, a, title)
<1>1. PICK n \in Live \ {top}, a \in Fresh(Live) :
        /\ r = Partial(n, Len(node[n].frag)) /\ r.pms > 0
        /\ \E title \in RestTitle(key, Len(node[n].path)) :
             node' = MakeShared([node EXCEPT ![n] = Adopt(@, a)], a, Leaf(key, title, v))
        /\ oob' = (oob \/ Len(node[n].path) > Len(key))
  BY DEF AddChild
<1>2. PICK title \in RestTitle(key, Len(node[n].path)) :
        node' = MakeShared([node EXCEPT ![n] = Adopt(@, a)], a, Leaf(key, title, v))
  BY <1>1
<1>3. a \in Node \ Live /\ Len(node[n].frag) > 0
  BY <1>1 DEF Fresh, Partial
<1>4. node' = [m \in Live \cup {a} |->
                IF m = a THEN Leaf(key, title, v)
                ELSE IF m = n THEN Adopt(node[n], a) ELSE node[m]]
  BY <1>2, <1>3 DEF HeapTypeOK, Live, MakeShared
<1>5. Live' = Live \cup {a}
  BY <1>4 DEF Live
<1>6. AddsChild(key, v, n, a, title)
  BY <1>1, <1>3, <1>4, <1>5 DEF AddsChild
<1> QED BY <1>1, <1>3, <1>6

\* insert at a node that differs part of the way cuts it and adds two children to it.
LEMMA SplitStep ==
  ASSUME HeapTypeOK, NEW top \in Live, NEW r, NEW key \in Key, NEW v \in Value,
         Split(top, r, key, v)
  PROVE  \E n \in Live \ {top}, b \in Node \ Live :
         \E c \in Node \ (Live \cup {b}), pms \in 1 .. Len(node[n].frag) - 1 :
           /\ r = Partial(n, pms)
           /\ \E title \in RestTitle(key, CutAt(n, pms)) : Splits(key, v, n, pms, b, c, title)
<1>1. PICK n \in Live \ {top}, b \in Fresh(Live) :
        \E pms \in 1 .. Len(node[n].frag) - 1, c \in Fresh(Live \cup {b}) :
          /\ r = Partial(n, pms)
          /\ \E title \in RestTitle(key, CutAt(n, pms)) :
               LET cut == [node EXCEPT ![n] = CutNode(@, pms, b, c)] IN
               node' = MakeShared(MakeShared(cut, b, CutOff(node[n], pms)),
                                  c, Leaf(key, title, v))
          /\ oob' = (oob \/ CutAt(n, pms) > Len(key))
  BY DEF Split, CutAt
<1>2. PICK pms \in 1 .. Len(node[n].frag) - 1, c \in Fresh(Live \cup {b}) :
          /\ r = Partial(n, pms)
          /\ \E title \in RestTitle(key, CutAt(n, pms)) :
               LET cut == [node EXCEPT ![n] = CutNode(@, pms, b, c)] IN
               node' = MakeShared(MakeShared(cut, b, CutOff(node[n], pms)),
                                  c, Leaf(key, title, v))
          /\ oob' = (oob \/ CutAt(n, pms) > Len(key))
  BY <1>1
<1> DEFINE cut == [node EXCEPT ![n] = CutNode(@, pms, b, c)]
<1>3. PICK title \in RestTitle(key, CutAt(n, pms)) :
        node' = MakeShared(MakeShared(cut, b, CutOff(node[n], pms)),
                           c, Leaf(key, title, v))
  BY <1>2
<1>4. b \in Node \ Live /\ c \in Node \ (Live \cup {b})
  BY DEF Fresh
<1>5. node' = [m \in Live \cup {b, c} |->
                IF m = c THEN Leaf(key, title, v)
                ELSE IF m = b THEN CutOff(node[n], pms)
                ELSE IF m = n THEN CutNode(node[n], pms, b, c)
                ELSE node[m]]
  BY <1>3, <1>4 DEF HeapTypeOK, Live, MakeShared
<1>6. Live' = Live \cup {b, c}
  BY <1>5 DEF Live
<1>7. Splits(key, v, n, pms, b, c, title)
  BY <1>2, <1>5, <1>6 DEF Splits
<1> QED BY <1>2, <1>4, <1>7

\* insert where nothing is found adds one child to the root.
LEMMA AddAtRootStep ==
  ASSUME HeapTypeOK, NEW top \in Live, NEW r, NEW key \in Key, NEW v \in Value,
         AddAtRoot(top, r, key, v)
  PROVE  r = Miss /\ \E a \in Node \ Live : AddsAtRoot(top, key, v, a)
<1> DEFINE root(a) == [Adopt(node[top], a) EXCEPT !.value = NoValue, !.type = "branch"]
<1>1. PICK a \in Fresh(Live) :
        /\ r = Miss
        /\ node' = MakeShared([node EXCEPT ![top] = root(a)], a, Leaf(key, key, v))
        /\ oob' = oob
  BY DEF AddAtRoot
<1>2. a \in Node \ Live
  BY DEF Fresh
<1>3. node' = [m \in Live \cup {a} |->
                IF m = a THEN Leaf(key, key, v)
                ELSE IF m = top THEN root(a) ELSE node[m]]
  BY <1>1, <1>2 DEF HeapTypeOK, Live, MakeShared
<1>4. Live' = Live \cup {a}
  BY <1>3 DEF Live
<1>5. AddsAtRoot(top, key, v, a)
  BY <1>1, <1>3, <1>4 DEF AddsAtRoot
<1> QED BY <1>1, <1>2, <1>5

\* remove with include_children takes the subtree of one child away.
LEMMA RemoveTreeStep ==
  ASSUME HeapTypeOK, NEW top \in Live, NEW r, RemoveTree(top, r)
  PROVE  \E n \in Live \ {top}, d \in Live :
           Takes(r, n) /\ \E j \in DOMAIN node[d].kids : RemovesTree(n, d, j)
BY DEF RemoveTree, RemovesTree, Live

\* remove without include_children sets a value, the empty one.
LEMMA RemoveValueStep ==
  ASSUME HeapTypeOK, NEW top \in Live, NEW r, RemoveValue(top, r)
  PROVE  \E n \in Live \ {top} : Takes(r, n) /\ SetsValue(n, NoValue)
BY DEF RemoveValue, SetsValue, HeapTypeOK, Live

-----------------------------------------------------------------------------
(* Type correctness.                                                       *)

\* The heap ensure_root makes is typed.
LEMMA TypeOKInit == Init => TypeOK
<1> SUFFICES ASSUME Init PROVE TypeOK
  OBVIOUS
<1>1. Live = {Root}
  BY DEF Init, Live
<1>2. node[Root] \in Fields
  BY DEF Init, Fields
<1>3. node \in [Live -> Fields]
  BY <1>1, <1>2 DEF Init
<1> QED BY <1>1, <1>3, NodeAssumption DEF TypeOK, HeapTypeOK, Init

\* Setting a value keeps the types.
LEMMA TypesSetsValue ==
  ASSUME HeapTypeOK, NEW n \in Live, NEW v \in Value \cup {NoValue}, SetsValue(n, v)
  PROVE  HeapTypeOK'
<1>1. [node[n] EXCEPT !.value = v] \in Fields
  BY DEF HeapTypeOK, Fields
<1> QED BY <1>1 DEF HeapTypeOK, SetsValue

\* Adding a child below a node keeps the types.
LEMMA TypesAddChild ==
  ASSUME HeapTypeOK, NEW top \in Live, NEW r, NEW key \in Key, NEW v \in Value,
         AddChild(top, r, key, v)
  PROVE  HeapTypeOK'
<1>1. PICK n \in Live \ {top}, a \in Node \ Live :
      \E title \in RestTitle(key, Len(node[n].path)) : AddsChild(key, v, n, a, title)
  BY AddChildStep
<1>2. PICK title \in RestTitle(key, Len(node[n].path)) : AddsChild(key, v, n, a, title)
  BY <1>1
<1>3. Len(node[n].path) \in Nat
  BY DEF HeapTypeOK, Fields
<1>4. Leaf(key, title, v) \in Fields
  BY <1>3, RestTitleType, LeafType, KeyAssumption
<1>5. Adopt(node[n], a) \in Fields
  BY AdoptType DEF HeapTypeOK
<1>6. node' \in [Live' -> Fields]
  BY <1>2, <1>4, <1>5 DEF HeapTypeOK, AddsChild
<1> QED BY <1>2, <1>6 DEF HeapTypeOK, AddsChild

\* Cutting a node keeps the types.
LEMMA TypesSplit ==
  ASSUME HeapTypeOK, NEW top \in Live, NEW r, NEW key \in Key, NEW v \in Value,
         Split(top, r, key, v)
  PROVE  HeapTypeOK'
<1>1. PICK n \in Live \ {top}, b \in Node \ Live :
      \E c \in Node \ (Live \cup {b}), pms \in 1 .. Len(node[n].frag) - 1 :
      \E title \in RestTitle(key, CutAt(n, pms)) : Splits(key, v, n, pms, b, c, title)
  BY SplitStep
<1>2. PICK c \in Node \ (Live \cup {b}), pms \in 1 .. Len(node[n].frag) - 1 :
      \E title \in RestTitle(key, CutAt(n, pms)) : Splits(key, v, n, pms, b, c, title)
  BY <1>1
<1>3. PICK title \in RestTitle(key, CutAt(n, pms)) : Splits(key, v, n, pms, b, c, title)
  BY <1>2
<1>4. node[n] \in Fields
  BY DEF HeapTypeOK
<1>5. CutAt(n, pms) \in Nat
  <2>1. node[n].path \in Seq(Char) /\ Len(node[n].frag) - pms \in Nat
    BY <1>4 DEF Fields
  <2> QED BY <2>1, ChopType DEF CutAt
<1>6. Leaf(key, title, v) \in Fields
  BY <1>5, RestTitleType, LeafType, KeyAssumption
<1>7. CutOff(node[n], pms) \in Fields /\ CutNode(node[n], pms, b, c) \in Fields
  BY <1>4, CutOffType, CutNodeType
<1>8. node' \in [Live' -> Fields]
  BY <1>3, <1>6, <1>7 DEF HeapTypeOK, Splits
<1> QED BY <1>3, <1>8 DEF HeapTypeOK, Splits

\* Adding a child to the root keeps the types.
LEMMA TypesAddAtRoot ==
  ASSUME HeapTypeOK, NEW top \in Live, NEW r, NEW key \in Key, NEW v \in Value,
         AddAtRoot(top, r, key, v)
  PROVE  HeapTypeOK'
<1>1. PICK a \in Node \ Live : AddsAtRoot(top, key, v, a)
  BY AddAtRootStep
<1>2. Leaf(key, key, v) \in Fields
  BY LeafType, KeyAssumption
<1>3. Adopt(node[top], a) \in Fields
  BY AdoptType DEF HeapTypeOK
<1>4. [Adopt(node[top], a) EXCEPT !.value = NoValue, !.type = "branch"] \in Fields
  BY <1>3 DEF Fields
<1>5. node' \in [Live' -> Fields]
  BY <1>1, <1>2, <1>4 DEF HeapTypeOK, AddsAtRoot
<1> QED BY <1>1, <1>5 DEF HeapTypeOK, AddsAtRoot

\* Dropping one child leaves a sequence of children.
LEMMA RemoveAtType ==
  ASSUME NEW s \in Seq(Node), NEW j \in DOMAIN s
  PROVE  RemoveAt(s, j) \in Seq(Node)
<1>1. j \in 1 .. Len(s) /\ Len(s) \in Nat
  OBVIOUS
<1>2. SubSeq(s, 1, j - 1) \in Seq(Node) /\ SubSeq(s, j + 1, Len(s)) \in Seq(Node)
  BY <1>1
<1> QED BY <1>2 DEF RemoveAt
-----------------------------------------------------------------------------
(* The tree of nodes.  Only the children matter here.                      *)

\* What Subtree(n) is: it holds n, lies in the heap and is closed under children.
LEMMA SubtreeClosed ==
  ASSUME NoDanglingKid, NEW n \in Live
  PROVE  /\ n \in Subtree(n) /\ Subtree(n) \subseteq Live
         /\ \A m \in Subtree(n) : Range(node[m].kids) \subseteq Subtree(n)
BY DEF Subtree, NoDanglingKid

\* It lies in every set of nodes that holds n and is closed under children.
LEMMA SubtreeLeast ==
  ASSUME NEW n \in Live, NEW S \in SUBSET Live, n \in S,
         \A m \in S : Range(node[m].kids) \subseteq S
  PROVE  Subtree(n) \subseteq S
BY DEF Subtree

\* The root is in no subtree but its own.
LEMMA RootNotBelow ==
  ASSUME NoDanglingKid, NEW n \in Live \ {Root}
  PROVE  Root \notin Subtree(n)
<1>1. \A m \in Live \ {Root} : Range(node[m].kids) \subseteq Live \ {Root}
  BY DEF NoDanglingKid
<1>2. Subtree(n) \subseteq Live \ {Root}
  BY <1>1, SubtreeLeast
<1> QED BY <1>2

\* The only way into a subtree from outside is the pointer to its top.
LEMMA SubtreeEntry ==
  ASSUME NoDanglingKid, OneParent, NEW n \in Live,
         NEW m \in Live \ Subtree(n), NEW k \in Range(node[m].kids), k \in Subtree(n)
  PROVE  k = n
<1> SUFFICES ASSUME k # n PROVE FALSE
  OBVIOUS
<1> DEFINE S == Subtree(n) \ {k}
<1>1. n \in S /\ S \in SUBSET Live
  BY SubtreeClosed
<1>2. ASSUME NEW p \in S, NEW q \in Range(node[p].kids) PROVE q \in S
  <2>1. q \in Subtree(n) /\ p \in Live
    BY <1>2, SubtreeClosed
  <2>2. q # k
    <3> SUFFICES ASSUME q = k PROVE FALSE
      OBVIOUS
    <3>1. PICK i \in DOMAIN node[p].kids : node[p].kids[i] = k
      BY <1>2 DEF Range
    <3>2. PICK j \in DOMAIN node[m].kids : node[m].kids[j] = k
      BY DEF Range
    <3>3. p = m
      BY <2>1, <3>1, <3>2 DEF OneParent
    <3> QED BY <1>2, <3>3
  <2> QED BY <2>1, <2>2
<1>3. Subtree(n) \subseteq S
  BY <1>1, <1>2, SubtreeLeast
<1> QED BY <1>3

\* Steps that leave all children alone keep the tree.
LEMMA TreeSetsValue ==
  ASSUME TypeOK, HeapIsTree, NEW n \in Live, NEW x, SetsValue(n, x)
  PROVE  HeapIsTree'
<1>1. Live' = Live /\ \A m \in Live : node'[m].kids = node[m].kids
  BY DEF SetsValue, TypeOK, HeapTypeOK, Fields
<1>2. NoDanglingKid' /\ OneParent'
  BY <1>1 DEF HeapIsTree, NoDanglingKid, OneParent
<1>3. AllReachable'
  BY <1>1 DEF HeapIsTree, AllReachable, Subtree
<1> QED BY <1>2, <1>3 DEF HeapIsTree

\* The elements of a concatenation, by place.
LEMMA ConcatPlaces ==
  ASSUME NEW S, NEW p \in Seq(S), NEW q \in Seq(S)
  PROVE  /\ \A i \in DOMAIN p : i \in DOMAIN (p \o q) /\ (p \o q)[i] = p[i]
         /\ \A i \in DOMAIN q : /\ Len(p) + i \in DOMAIN (p \o q)
                               /\ (p \o q)[Len(p) + i] = q[i]
OBVIOUS

\* So an element of a concatenation is one of one of its parts.
LEMMA ConcatRange ==
  ASSUME NEW S, NEW p \in Seq(S), NEW q \in Seq(S)
  PROVE  Range(p \o q) \subseteq Range(p) \cup Range(q)
<1>1. DOMAIN (p \o q) = 1 .. Len(p) + Len(q) /\ Len(p) \in Nat /\ Len(q) \in Nat
      /\ DOMAIN p = 1 .. Len(p) /\ DOMAIN q = 1 .. Len(q)
  OBVIOUS
<1>2. ASSUME NEW i \in DOMAIN (p \o q) PROVE (p \o q)[i] \in Range(p) \cup Range(q)
  <2>1. CASE i <= Len(p)
    BY <1>1, <2>1, ConcatPlaces DEF Range
  <2>2. CASE ~ (i <= Len(p))
    <3>1. PICK j \in 1 .. Len(q) : i = Len(p) + j
      <4>1. i - Len(p) \in 1 .. Len(q) /\ i = Len(p) + (i - Len(p))
        BY <1>1, <2>2
      <4> QED BY <4>1
    <3> QED BY <1>1, <3>1, ConcatPlaces DEF Range
  <2> QED BY <2>1, <2>2
<1> QED BY <1>2 DEF Range

\* Node n gets the newly allocated, childless nodes s, in this order.
GrowsAt(n, s) ==
  /\ Live' = Live \cup Range(s)
  /\ node'[n].kids = node[n].kids \o s
  /\ \A m \in Live \ {n} : node'[m].kids = node[m].kids
  /\ \A m \in Range(s) : node'[m].kids = <<>>

\* An old child keeps its place, and a child in the new heap is an old one at its old
\* place, or one of s.
LEMMA GrownPlaces ==
  ASSUME HeapTypeOK, NEW n \in Live, NEW s \in Seq(Node \ Live), GrowsAt(n, s)
  PROVE  LET old == Len(node[n].kids) IN
         /\ \A m \in Live : \A i \in DOMAIN node[m].kids :
              i \in DOMAIN node'[m].kids /\ node'[m].kids[i] = node[m].kids[i]
         /\ \A m \in Live' : \A i \in DOMAIN node'[m].kids :
              \/ m \in Live /\ i \in DOMAIN node[m].kids /\ node'[m].kids[i] = node[m].kids[i]
              \/ m = n /\ i - old \in DOMAIN s /\ node'[m].kids[i] = s[i - old]
<1> DEFINE old == Len(node[n].kids)
<1>1. node[n].kids \in Seq(Node) /\ old \in Nat /\ s \in Seq(Node)
  BY DEF HeapTypeOK, Fields
<1>2. node'[n].kids = node[n].kids \o s
  BY DEF GrowsAt
<1>3. ASSUME NEW m \in Live, NEW i \in DOMAIN node[m].kids
      PROVE  i \in DOMAIN node'[m].kids /\ node'[m].kids[i] = node[m].kids[i]
  <2>1. CASE m = n
    <3>1. i \in DOMAIN (node[n].kids \o s) /\ (node[n].kids \o s)[i] = node[n].kids[i]
      BY <1>1, <2>1, ConcatPlaces
    <3> QED BY <1>2, <2>1, <3>1
  <2>2. CASE m # n
    BY <2>2 DEF GrowsAt
  <2> QED BY <2>1, <2>2
<1>4. ASSUME NEW m \in Live', NEW i \in DOMAIN node'[m].kids
      PROVE  \/ m \in Live /\ i \in DOMAIN node[m].kids /\ node'[m].kids[i] = node[m].kids[i]
             \/ m = n /\ i - old \in DOMAIN s /\ node'[m].kids[i] = s[i - old]
  <2>1. CASE m \in Range(s)
    BY <2>1 DEF GrowsAt
  <2>2. CASE m \in Live \ {n}
    BY <2>2 DEF GrowsAt
  <2>3. CASE m = n
    <3>1. i \in 1 .. old + Len(s)
      BY <1>1, <1>2, <2>3
    <3>2. CASE i <= old
      BY <1>1, <1>2, <2>3, <3>1, <3>2
    <3>3. CASE i > old
      <4>1. PICK q \in 1 .. Len(s) : i = old + q /\ q = i - old
        <5>1. Len(s) \in Nat
          BY <1>1
        <5> HIDE DEF old
        <5>2. i - old \in 1 .. Len(s) /\ i = old + (i - old)
          BY <1>1, <3>1, <3>3, <5>1
        <5> QED BY <5>2
      <4>2. q \in DOMAIN s
        BY <1>1
      <4>3. (node[n].kids \o s)[old + q] = s[q]
        BY <1>1, <4>2, ConcatPlaces, SMTT(30)
      <4> QED BY <1>2, <2>3, <4>1, <4>2, <4>3
    <3> QED BY <1>1, <3>1, <3>2, <3>3
  <2> QED BY <2>1, <2>2, <2>3 DEF GrowsAt
<1> QED BY <1>3, <1>4

\* Distinct new children leave no node with two parents.
LEMMA OneParentGrows ==
  ASSUME HeapTypeOK, \A m \in Live : Range(node[m].kids) \subseteq Live, OneParent,
         NEW n \in Live, NEW s \in Seq(Node \ Live),
         \A i, j \in DOMAIN s : s[i] = s[j] => i = j,
         GrowsAt(n, s)
  PROVE  OneParent'
<1> DEFINE old == Len(node[n].kids)
<1>1. node[n].kids \in Seq(Node) /\ old \in Nat
  BY DEF HeapTypeOK, Fields
<1>2. \A i \in DOMAIN s : s[i] \notin Live
  OBVIOUS
<1>3. \A m \in Live : \A i \in DOMAIN node[m].kids : node[m].kids[i] \in Live
  BY DEF Range
<1>4. \A m \in Live' : \A i \in DOMAIN node'[m].kids :
        \/ m \in Live /\ i \in DOMAIN node[m].kids /\ node'[m].kids[i] = node[m].kids[i]
        \/ m = n /\ i - old \in DOMAIN s /\ node'[m].kids[i] = s[i - old]
  BY GrownPlaces
<1> SUFFICES ASSUME NEW l \in Live', NEW m \in Live',
                    NEW i \in DOMAIN node'[l].kids, NEW j \in DOMAIN node'[m].kids,
                    node'[l].kids[i] = node'[m].kids[j]
             PROVE  l = m /\ i = j
  BY DEF OneParent
<1>5. CASE node'[l].kids[i] \in Live
  BY <1>2, <1>4, <1>5 DEF OneParent
<1>6. CASE node'[l].kids[i] \notin Live
  <2>1. l = n /\ i - old \in DOMAIN s /\ node'[l].kids[i] = s[i - old]
    BY <1>3, <1>4, <1>6
  <2>2. m = n /\ j - old \in DOMAIN s /\ node'[m].kids[j] = s[j - old]
    BY <1>3, <1>4, <1>6
  <2>3. i - old = j - old
    BY <2>1, <2>2
  <2>4. i \in Int /\ j \in Int /\ old \in Int
    <3>1. node'[n].kids \in Seq(Node)
      BY <1>1 DEF GrowsAt
    <3> QED BY <1>1, <2>1, <2>2, <3>1
  <2> QED BY <2>1, <2>2, <2>3, <2>4
<1> QED BY <1>5, <1>6

\* Giving one node distinct new children without children of their own keeps the tree.
LEMMA TreeGrows ==
  ASSUME TypeOK, HeapIsTree, NEW n \in Live, NEW s \in Seq(Node \ Live),
         \A i, j \in DOMAIN s : s[i] = s[j] => i = j,
         GrowsAt(n, s)
  PROVE  HeapIsTree'
<1> DEFINE old == Len(node[n].kids)
<1>1. node[n].kids \in Seq(Node) /\ old \in Nat /\ HeapTypeOK
  BY DEF TypeOK, HeapTypeOK, Fields
<1>2. \A i \in DOMAIN s : s[i] \notin Live /\ s[i] \in Range(s)
  BY DEF Range
<1>3. \A m \in Live : \A i \in DOMAIN node[m].kids :
        node[m].kids[i] \in Live \ {Root} /\ i \in DOMAIN node'[m].kids
          /\ node'[m].kids[i] = node[m].kids[i]
  <2>1. \A m \in Live : \A i \in DOMAIN node[m].kids : node[m].kids[i] \in Live \ {Root}
    BY DEF HeapIsTree, NoDanglingKid, Range
  <2> QED BY <1>1, <2>1, GrownPlaces
<1>4. \A m \in Live' : \A i \in DOMAIN node'[m].kids :
        \/ m \in Live /\ i \in DOMAIN node[m].kids /\ node'[m].kids[i] = node[m].kids[i]
        \/ m = n /\ i - old \in DOMAIN s /\ node'[m].kids[i] = s[i - old]
  BY <1>1, GrownPlaces
<1>5. NoDanglingKid'
  <2> SUFFICES ASSUME NEW m \in Live', NEW i \in DOMAIN node'[m].kids
               PROVE  node'[m].kids[i] \in Live' \ {Root}
    BY DEF NoDanglingKid, Range
  <2>1. Live' = Live \cup Range(s) /\ Root \in Live
    BY DEF GrowsAt, TypeOK, HeapTypeOK
  <2>2. CASE m \in Live /\ i \in DOMAIN node[m].kids /\ node'[m].kids[i] = node[m].kids[i]
    BY <1>3, <2>1, <2>2
  <2>3. CASE m = n /\ i - old \in DOMAIN s /\ node'[m].kids[i] = s[i - old]
    BY <1>2, <2>1, <2>3
  <2> QED BY <1>4, <2>2, <2>3
<1>6. OneParent'
  BY <1>1, OneParentGrows DEF HeapIsTree, NoDanglingKid
<1>7. AllReachable'
  <2> SUFFICES ASSUME NEW m \in Live', NEW S \in SUBSET (Live'), Root \in S,
                      \A p \in S : Range(node'[p].kids) \subseteq S
               PROVE  m \in S
    BY DEF AllReachable, Subtree
  <2> DEFINE T == S \cap Live
  <2>1. \A p \in T : Range(node[p].kids) \subseteq T
    BY <1>3 DEF Range
  <2>2. Root \in T /\ T \in SUBSET Live
    BY DEF TypeOK, HeapTypeOK
  <2>3. Live \subseteq T
    BY <2>1, <2>2, SubtreeLeast DEF HeapIsTree, AllReachable
  <2>4. Range(s) \subseteq S
    <3>1. PICK p \in Seq(Node) : p = node[n].kids
      BY <1>1
    <3>2. node'[n].kids = p \o s /\ s \in Seq(Node)
      BY <3>1 DEF GrowsAt
    <3>3. \A i \in DOMAIN s : Len(p) + i \in DOMAIN (p \o s) /\ (p \o s)[Len(p) + i] = s[i]
      BY <3>2, ConcatPlaces, SMTT(30)
    <3>4. ASSUME NEW x \in Range(s) PROVE x \in Range(node'[n].kids)
      <4>1. PICK i \in DOMAIN s : x = s[i]
        BY DEF Range
      <4>2. x = (p \o s)[Len(p) + i] /\ Len(p) + i \in DOMAIN (p \o s)
        BY <3>3, <4>1
      <4> QED BY <3>2, <4>2 DEF Range
    <3>5. n \in S
      BY <2>3
    <3> QED BY <3>4, <3>5
  <2> QED BY <2>3, <2>4 DEF GrowsAt
<1> QED BY <1>5, <1>6, <1>7 DEF HeapIsTree

\* Adding a child below a node, as growth.
LEMMA AddChildGrows ==
  ASSUME HeapTypeOK, NEW key, NEW v, NEW title,
         NEW n \in Live, NEW a \in Node \ Live, AddsChild(key, v, n, a, title)
  PROVE  GrowsAt(n, <<a>>)
<1>1. Range(<<a>>) = {a} /\ <<a>> \in Seq(Node \ Live)
  BY DEF Range
<1>2. node'[n].kids = node[n].kids \o <<a>>
  <2>1. node[n].kids \in Seq(Node) /\ node[n] \in Fields
    BY DEF HeapTypeOK, Fields
  <2>2. Append(node[n].kids, a) = node[n].kids \o <<a>>
    BY <2>1, SMTT(30)
  <2>3. node'[n] = Adopt(node[n], a)
    BY DEF AddsChild
  <2>4. Adopt(node[n], a).kids = Append(node[n].kids, a)
    BY <2>1 DEF Adopt, Fields
  <2> QED BY <2>2, <2>3, <2>4
<1>3. node'[a].kids = <<>>
  BY DEF AddsChild, Leaf
<1>4. \A m \in Live \ {n} : node'[m].kids = node[m].kids
  BY DEF AddsChild
<1> QED BY <1>1, <1>2, <1>3, <1>4 DEF GrowsAt, AddsChild

\* Adding a child below a node keeps the tree.
LEMMA TreeAddChild ==
  ASSUME TypeOK, HeapIsTree, NEW key, NEW v, NEW title,
         NEW n \in Live, NEW a \in Node \ Live, AddsChild(key, v, n, a, title)
  PROVE  HeapIsTree'
<1>1. Range(<<a>>) = {a} /\ <<a>> \in Seq(Node \ Live)
  BY DEF Range
<1>2. GrowsAt(n, <<a>>)
  BY AddChildGrows DEF TypeOK
<1>3. \A i, j \in DOMAIN <<a>> : <<a>>[i] = <<a>>[j] => i = j
  OBVIOUS
<1> QED BY <1>1, <1>2, <1>3, TreeGrows

\* Adding a child to the root, as growth.
LEMMA AddAtRootGrows ==
  ASSUME HeapTypeOK, NEW top \in Live, NEW key, NEW v, NEW a \in Node \ Live,
         AddsAtRoot(top, key, v, a)
  PROVE  GrowsAt(top, <<a>>)
<1>1. Range(<<a>>) = {a} /\ <<a>> \in Seq(Node \ Live)
  BY DEF Range
<1>2. node'[top].kids = node[top].kids \o <<a>>
  <2>1. node[top].kids \in Seq(Node) /\ node[top] \in Fields
    BY DEF HeapTypeOK, Fields
  <2>2. Append(node[top].kids, a) = node[top].kids \o <<a>>
    BY <2>1, SMTT(30)
  <2>3. node'[top] = [Adopt(node[top], a) EXCEPT !.value = NoValue, !.type = "branch"]
    BY DEF AddsAtRoot
  <2>4. Adopt(node[top], a).kids = Append(node[top].kids, a)
    BY <2>1 DEF Adopt, Fields
  <2>5. node'[top].kids = Adopt(node[top], a).kids
    <3>1. Adopt(node[top], a) \in Fields
      BY <2>1, AdoptType
    <3> QED BY <2>3, <3>1 DEF Fields
  <2> QED BY <2>2, <2>4, <2>5
<1>3. node'[a].kids = <<>>
  BY DEF AddsAtRoot, Leaf
<1>4. \A m \in Live \ {top} : node'[m].kids = node[m].kids
  BY DEF AddsAtRoot
<1> QED BY <1>1, <1>2, <1>3, <1>4 DEF GrowsAt, AddsAtRoot

\* Adding a child to the root keeps the tree.
LEMMA TreeAddAtRoot ==
  ASSUME TypeOK, HeapIsTree, NEW key, NEW v, NEW a \in Node \ Live, AddsAtRoot(Root, key, v, a)
  PROVE  HeapIsTree'
<1>1. Range(<<a>>) = {a} /\ <<a>> \in Seq(Node \ Live) /\ Root \in Live
  BY DEF Range, TypeOK, HeapTypeOK
<1>2. GrowsAt(Root, <<a>>)
  BY AddAtRootGrows DEF TypeOK
<1>3. \A i, j \in DOMAIN <<a>> : <<a>>[i] = <<a>>[j] => i = j
  OBVIOUS
<1> QED BY <1>1, <1>2, <1>3, TreeGrows

\* Cutting a node, as growth.
LEMMA SplitGrows ==
  ASSUME HeapTypeOK, NEW key, NEW v, NEW title,
         NEW n \in Live, NEW b \in Node \ Live, NEW c \in Node \ (Live \cup {b}), NEW pms,
         Splits(key, v, n, pms, b, c, title)
  PROVE  GrowsAt(n, <<b, c>>)
<1>1. Range(<<b, c>>) = {b, c} /\ <<b, c>> \in Seq(Node \ Live)
  BY DEF Range
<1>2. node'[n].kids = node[n].kids \o <<b, c>>
  BY DEF Splits, CutNode
<1>3. node'[b].kids = <<>> /\ node'[c].kids = <<>>
  BY DEF Splits, CutOff, Leaf
<1>4. \A m \in Live \ {n} : node'[m].kids = node[m].kids
  BY DEF Splits
<1> QED BY <1>1, <1>2, <1>3, <1>4 DEF GrowsAt, Splits

\* Cutting a node keeps the tree.
LEMMA TreeSplit ==
  ASSUME TypeOK, HeapIsTree, NEW key, NEW v, NEW title,
         NEW n \in Live, NEW b \in Node \ Live, NEW c \in Node \ (Live \cup {b}), NEW pms,
         Splits(key, v, n, pms, b, c, title)
  PROVE  HeapIsTree'
<1>1. Range(<<b, c>>) = {b, c} /\ <<b, c>> \in Seq(Node \ Live)
  BY DEF Range
<1>2. GrowsAt(n, <<b, c>>)
  BY SplitGrows DEF TypeOK
<1>3. \A i, j \in DOMAIN <<b, c>> : <<b, c>>[i] = <<b, c>>[j] => i = j
  OBVIOUS
<1> QED BY <1>1, <1>2, <1>3, TreeGrows

\* What is left of a sequence, by place, when the element at place j goes.
Place(i, j) == IF i < j THEN i ELSE i + 1

\* Every place of what is left of s is a place of s other than j.
LEMMA RemoveAtPlaces ==
  ASSUME NEW S, NEW s \in Seq(S), NEW j \in DOMAIN s, NEW i \in DOMAIN RemoveAt(s, j)
  PROVE  /\ Place(i, j) \in DOMAIN s /\ Place(i, j) # j /\ i \in Nat
         /\ RemoveAt(s, j)[i] = s[Place(i, j)]
<1>1. j \in Nat /\ j \in 1 .. Len(s) /\ Len(s) \in Nat
  OBVIOUS
<1>2. PICK p \in Seq(S) : p = SubSeq(s, 1, j - 1)
  <2>1. SubSeq(s, 1, j - 1) \in Seq(S)
    BY <1>1
  <2> QED BY <2>1
<1>3. PICK t \in Seq(S) : t = SubSeq(s, j + 1, Len(s))
  <2>1. SubSeq(s, j + 1, Len(s)) \in Seq(S)
    BY <1>1
  <2> QED BY <2>1
<1>4. Len(p) = j - 1 /\ \A q \in 1 .. j - 1 : q \in DOMAIN p /\ p[q] = s[q]
  BY <1>1, <1>2
<1>5. Len(t) = Len(s) - j /\ \A q \in 1 .. Len(s) - j : q \in DOMAIN t /\ t[q] = s[j + q]
  BY <1>1, <1>3, SMTT(30)
<1>6. RemoveAt(s, j) = p \o t
  BY <1>2, <1>3 DEF RemoveAt
<1>7. i \in Nat /\ i \in 1 .. Len(s) - 1
  BY <1>1, <1>4, <1>5, <1>6
<1>8. CASE i < j
  <2>1. i \in 1 .. j - 1
    BY <1>1, <1>7, <1>8
  <2>2. (p \o t)[i] = p[i]
    BY <1>4, <2>1, ConcatPlaces
  <2> QED BY <1>1, <1>4, <1>6, <1>7, <1>8, <2>1, <2>2 DEF Place
<1>9. CASE ~ (i < j)
  <2>1. PICK q \in Nat : q = i - j + 1
    BY <1>1, <1>7, <1>9
  <2>2. q \in 1 .. Len(s) - j /\ j + q = i + 1 /\ Len(p) + q = i /\ i + 1 \in 1 .. Len(s)
    <3>1. j + q = i + 1 /\ q \in 1 .. Len(s) - j
      BY <1>1, <1>7, <1>9, <2>1
    <3>2. i + 1 \in 1 .. Len(s)
      BY <1>1, <1>7
    <3>3. Len(p) + q = i
      BY <1>1, <1>4, <1>7, <2>1, SMTT(30)
    <3> QED BY <3>1, <3>2, <3>3
  <2>3. (p \o t)[Len(p) + q] = t[q]
    BY <1>5, <2>2, ConcatPlaces, SMTT(30)
  <2>4. RemoveAt(s, j)[i] = s[i + 1]
    BY <1>5, <1>6, <2>2, <2>3
  <2> QED BY <1>1, <1>7, <1>9, <2>2, <2>4 DEF Place
<1> QED BY <1>8, <1>9

\* Every place of s other than j is a place of what is left.
LEMMA RemoveAtCovers ==
  ASSUME NEW S, NEW s \in Seq(S), NEW j \in DOMAIN s, NEW i \in DOMAIN s, i # j
  PROVE  \E q \in DOMAIN RemoveAt(s, j) : Place(q, j) = i
<1>1. i \in 1 .. Len(s) /\ j \in 1 .. Len(s) /\ Len(s) \in Nat
  OBVIOUS
<1>2. SubSeq(s, 1, j - 1) \in Seq(S) /\ Len(SubSeq(s, 1, j - 1)) = j - 1
  BY <1>1
<1>3. SubSeq(s, j + 1, Len(s)) \in Seq(S) /\ Len(SubSeq(s, j + 1, Len(s))) = Len(s) - j
  BY <1>1
<1>4. DOMAIN RemoveAt(s, j) = 1 .. Len(s) - 1
  BY <1>1, <1>2, <1>3 DEF RemoveAt
<1> DEFINE q == IF i < j THEN i ELSE i - 1
<1>5. q \in 1 .. Len(s) - 1 /\ Place(q, j) = i
  BY <1>1 DEF Place
<1> QED BY <1>4, <1>5

\* Freeing the subtree of the child a node drops keeps the types and the tree.
LEMMA TreeRemoves ==
  ASSUME TypeOK, HeapIsTree, NEW n \in Live \ {Root}, NEW d \in Live,
         NEW j \in DOMAIN node[d].kids, RemovesTree(n, d, j)
  PROVE  TypeOK' /\ HeapIsTree'
<1> DEFINE Gone == Subtree(n)
           place(m, i) == IF m = d THEN Place(i, j) ELSE i
<1>1. /\ Live' = Live \ Gone /\ n \in Gone /\ Gone \subseteq Live /\ Root \notin Gone
      /\ Root \in Live'
  BY SubtreeClosed, RootNotBelow DEF RemovesTree, HeapIsTree, TypeOK, HeapTypeOK
<1>2. node[d] \in Fields /\ node[d].kids \in Seq(Node)
  BY DEF TypeOK, HeapTypeOK, Fields
<1>3. TypeOK'
  <2>1. [node[d] EXCEPT !.kids = RemoveAt(@, j)] \in Fields
    BY <1>2, RemoveAtType DEF Fields
  <2>2. node' \in [Live' -> Fields]
    BY <1>1, <2>1 DEF RemovesTree, TypeOK, HeapTypeOK
  <2> QED BY <1>1, <2>2 DEF TypeOK, HeapTypeOK, RemovesTree
\* A child in the new heap was a child of the same node, and not through pointer j.
<1>4. ASSUME NEW m \in Live', NEW i \in DOMAIN node'[m].kids
      PROVE  /\ place(m, i) \in DOMAIN node[m].kids
             /\ node'[m].kids[i] = node[m].kids[place(m, i)]
             /\ m = d => place(m, i) # j /\ i \in Nat
  <2>1. CASE m = d
    <3>1. node'[m].kids = RemoveAt(node[d].kids, j)
      BY <1>1, <1>2, <2>1 DEF RemovesTree, Fields
    <3> QED BY <1>2, <2>1, <3>1, RemoveAtPlaces
  <2>2. CASE m # d
    BY <1>1, <1>4, <2>2 DEF RemovesTree
  <2> QED BY <2>1, <2>2
<1>5. NoDanglingKid'
  <2> SUFFICES ASSUME NEW m \in Live', NEW i \in DOMAIN node'[m].kids
               PROVE  node'[m].kids[i] \in Live' \ {Root}
    BY DEF NoDanglingKid, Range
  <2> DEFINE k == node'[m].kids[i]
  <2>1. k \in Range(node[m].kids) /\ m \in Live \ Gone
    BY <1>1, <1>4 DEF Range
  <2>2. k \in Live \ {Root}
    BY <2>1 DEF HeapIsTree, NoDanglingKid
  <2>3. k \notin Gone
    <3> SUFFICES ASSUME k \in Gone PROVE FALSE
      OBVIOUS
    <3>1. k = n
      BY <2>1, SubtreeEntry DEF HeapIsTree
    <3>2. m = d /\ place(m, i) = j
      BY <1>4, <2>1, <3>1 DEF HeapIsTree, OneParent, RemovesTree
    <3> QED BY <1>4, <3>2
  <2> QED BY <1>1, <2>2, <2>3
<1>6. OneParent'
  <2> SUFFICES ASSUME NEW l \in Live', NEW m \in Live',
                      NEW i \in DOMAIN node'[l].kids, NEW k \in DOMAIN node'[m].kids,
                      node'[l].kids[i] = node'[m].kids[k]
               PROVE  l = m /\ i = k
    BY DEF OneParent
  <2>1. l = m /\ place(l, i) = place(m, k)
    BY <1>1, <1>4 DEF HeapIsTree, OneParent
  <2>2. CASE l = d
    BY <1>2, <1>4, <2>1, <2>2 DEF Place
  <2>3. CASE l # d
    BY <2>1, <2>3
  <2> QED BY <2>1, <2>2, <2>3
<1>7. AllReachable'
  <2> SUFFICES ASSUME NEW m \in Live', NEW S \in SUBSET (Live'), Root \in S,
                      \A p \in S : Range(node'[p].kids) \subseteq S
               PROVE  m \in S
    BY DEF AllReachable, Subtree
  <2> DEFINE T == S \cup Gone
  <2>1. ASSUME NEW p \in T, NEW k \in Range(node[p].kids) PROVE k \in T
    <3>1. CASE p \in Gone
      BY <2>1, <3>1, SubtreeClosed DEF HeapIsTree
    <3>2. CASE p \in S /\ p # d
      BY <1>1, <2>1, <3>2 DEF RemovesTree
    <3>3. CASE p \in S /\ p = d
      <4>1. PICK i \in DOMAIN node[d].kids : node[d].kids[i] = k
        BY <2>1, <3>3 DEF Range
      <4>2. CASE i = j
        BY <1>1, <4>1, <4>2 DEF RemovesTree
      <4>3. CASE i # j
        <5>1. node'[d].kids = RemoveAt(node[d].kids, j)
          BY <1>1, <1>2, <3>3 DEF RemovesTree, Fields
        <5>2. \E q \in DOMAIN RemoveAt(node[d].kids, j) : Place(q, j) = i
          BY <1>2, <4>1, <4>3, RemoveAtCovers
        <5>3. k \in Range(node'[d].kids)
          BY <1>2, <4>1, <5>1, <5>2, RemoveAtPlaces DEF Range
        <5> QED BY <3>3, <5>3
      <4> QED BY <4>2, <4>3
    <3> QED BY <3>1, <3>2, <3>3
  <2>2. Root \in T /\ T \in SUBSET Live /\ Root \in Live
    BY <1>1
  <2>3. Live \subseteq T
    BY <2>1, <2>2, SubtreeLeast DEF HeapIsTree, AllReachable
  <2> QED BY <1>1, <2>3
<1> QED BY <1>3, <1>5, <1>6, <1>7 DEF HeapIsTree
-----------------------------------------------------------------------------
(* Fragments and paths.                                                    *)

\* IsSuffix, character by character.
LEMMA SuffixMeans ==
  ASSUME NEW s \in Seq(Char), NEW t \in Seq(Char)
  PROVE  IsSuffix(s, t) <=> /\ Len(s) <= Len(t)
                            /\ \A i \in 1 .. Len(s) : s[i] = t[Len(t) - Len(s) + i]
<1>1. PICK k \in Nat : k = Len(s)
  OBVIOUS
<1>2. PICK l \in Nat : l = Len(t)
  OBVIOUS
<1>3. PICK rs \in Seq(Char) : rs = Reverse(s)
  <2>1. \A i \in 1 .. Len(s) : (Len(s) - i) + 1 \in 1 .. Len(s)
    BY <1>1
  <2>2. Reverse(s) \in Seq(Char)
    BY <1>1, <2>1 DEF Reverse
  <2> QED BY <2>2
<1>4. PICK rt \in Seq(Char) : rt = Reverse(t)
  <2>1. \A i \in 1 .. Len(t) : (Len(t) - i) + 1 \in 1 .. Len(t)
    BY <1>2
  <2>2. Reverse(t) \in Seq(Char)
    BY <1>2, <2>1 DEF Reverse
  <2> QED BY <2>2
<1>5. Len(rs) = k /\ \A i \in 1 .. k : rs[i] = s[(k - i) + 1]
  BY <1>1, <1>3 DEF Reverse
<1>6. Len(rt) = l /\ \A i \in 1 .. l : rt[i] = t[(l - i) + 1]
  BY <1>2, <1>4 DEF Reverse
<1>7. IsSuffix(s, t) <=> k <= l /\ SubSeq(rs, 1, k) = SubSeq(rt, 1, k)
  BY <1>3, <1>4, <1>5, <1>6 DEF IsSuffix, IsPrefix
<1>8. ASSUME k <= l
      PROVE  SubSeq(rs, 1, k) = SubSeq(rt, 1, k) <=> \A i \in 1 .. k : rs[i] = rt[i]
  <2>1. PICK u \in Seq(Char) : u = SubSeq(rs, 1, k)
    <3>1. SubSeq(rs, 1, k) \in Seq(Char)
      BY <1>5
    <3> QED BY <3>1
  <2>2. PICK w \in Seq(Char) : w = SubSeq(rt, 1, k)
    <3>1. SubSeq(rt, 1, k) \in Seq(Char)
      BY <1>6, <1>8
    <3> QED BY <3>1
  <2>3. Len(u) = k /\ \A i \in 1 .. k : u[i] = rs[i]
    BY <1>5, <2>1
  <2>4. Len(w) = k /\ \A i \in 1 .. k : w[i] = rt[i]
    BY <1>6, <1>8, <2>2
  <2>5. u = w <=> \A i \in 1 .. k : u[i] = w[i]
    BY <2>3, <2>4
  <2> QED BY <2>1, <2>2, <2>3, <2>4, <2>5
<1>9. ASSUME k <= l
      PROVE  (\A i \in 1 .. k : rs[i] = rt[i]) <=> (\A i \in 1 .. k : s[i] = t[l - k + i])
  <2>1. \A i \in 1 .. k : /\ (k - i) + 1 \in 1 .. k /\ i \in 1 .. l
                         /\ (k - ((k - i) + 1)) + 1 = i
                         /\ (l - i) + 1 = l - k + ((k - i) + 1)
    BY <1>9
  <2>2. ASSUME \A i \in 1 .. k : rs[i] = rt[i], NEW i \in 1 .. k
        PROVE  s[i] = t[l - k + i]
    <3>1. PICK q \in 1 .. k : q = (k - i) + 1 /\ (k - q) + 1 = i /\ (l - q) + 1 = l - k + i
      <4>1. (k - i) + 1 \in 1 .. k
        BY <2>1
      <4>2. (l - ((k - i) + 1)) + 1 = l - k + i
        OBVIOUS
      <4> QED BY <2>1, <4>1, <4>2
    <3>2. q \in 1 .. l
      BY <2>1
    <3>3. rs[q] = s[(k - q) + 1]
      BY <1>5
    <3>4. rt[q] = t[(l - q) + 1]
      BY <1>6, <3>2
    <3>5. rs[q] = s[i] /\ rt[q] = t[l - k + i]
      BY <3>1, <3>3, <3>4
    <3> QED BY <2>2, <3>1, <3>5
  <2>3. ASSUME \A i \in 1 .. k : s[i] = t[l - k + i], NEW i \in 1 .. k
        PROVE  rs[i] = rt[i]
    <3>1. PICK q \in 1 .. k : q = (k - i) + 1 /\ (l - i) + 1 = l - k + q
      BY <2>1
    <3>2. i \in 1 .. l
      BY <2>1
    <3>3. rs[i] = s[(k - i) + 1]
      BY <1>5
    <3>4. rt[i] = t[(l - i) + 1]
      BY <1>6, <3>2
    <3>5. rs[i] = s[q] /\ rt[i] = t[l - k + q]
      BY <3>1, <3>3, <3>4
    <3> QED BY <2>3, <3>1, <3>5
  <2> QED BY <2>2, <2>3
<1> QED BY <1>1, <1>2, <1>7, <1>8, <1>9

\* The tails insert cuts off keys and fragments.
LEMMA DropIsSuffix ==
  ASSUME NEW s \in Seq(Char), NEW m \in Nat, m <= Len(s)
  PROVE  IsSuffix(Drop(s, m), s)
<1>1. PICK u \in Seq(Char) : u = Drop(s, m)
  BY DropType
<1>2. Len(u) = Len(s) - m /\ \A i \in 1 .. Len(s) - m : u[i] = s[m + i]
  BY <1>1 DEF Drop
<1>3. Len(s) - Len(u) = m /\ Len(u) <= Len(s)
  BY <1>2
<1>4. \A i \in 1 .. Len(u) : u[i] = s[Len(s) - Len(u) + i]
  BY <1>2, <1>3
<1> QED BY <1>1, <1>3, <1>4, SuffixMeans

\* A sequence ends with itself.
LEMMA SuffixRefl ==
  ASSUME NEW s \in Seq(Char)
  PROVE  IsSuffix(s, s)
<1>1. Len(s) - Len(s) = 0
  OBVIOUS
<1>2. \A i \in 1 .. Len(s) : s[i] = s[Len(s) - Len(s) + i]
  BY <1>1
<1> QED BY <1>2, SuffixMeans

\* A tail of a tail of a path is a tail of the path.
LEMMA SuffixOfSuffix ==
  ASSUME NEW p \in Seq(Char), NEW f \in Seq(Char), NEW g \in Seq(Char),
         IsSuffix(f, p), IsSuffix(g, f)
  PROVE  IsSuffix(g, p)
<1>1. Len(f) <= Len(p) /\ \A i \in 1 .. Len(f) : f[i] = p[Len(p) - Len(f) + i]
  BY SuffixMeans
<1>2. Len(g) <= Len(f) /\ \A i \in 1 .. Len(g) : g[i] = f[Len(f) - Len(g) + i]
  BY SuffixMeans
<1>3. PICK kp \in Nat, kf \in Nat, kg \in Nat : kp = Len(p) /\ kf = Len(f) /\ kg = Len(g)
  OBVIOUS
<1>4. ASSUME NEW i \in 1 .. kg PROVE g[i] = p[kp - kg + i]
  <2>1. PICK j \in 1 .. kf : j = kf - kg + i /\ kp - kf + j = kp - kg + i
    <3>1. kf - kg + i \in 1 .. kf /\ kp - kf + (kf - kg + i) = kp - kg + i
      BY <1>2, <1>3
    <3> QED BY <3>1
  <2>2. g[i] = f[j] /\ f[j] = p[kp - kf + j]
    BY <1>1, <1>2, <1>3, <2>1
  <2> QED BY <2>1, <2>2
<1> QED BY <1>1, <1>2, <1>3, <1>4, SuffixMeans

\* Cutting the same number of characters off the end of a path and of the fragment
\* that ends it leaves a fragment that ends the path.
LEMMA CutKeepsSuffix ==
  ASSUME NEW p \in Seq(Char), NEW f \in Seq(Char), IsSuffix(f, p),
         NEW pms \in 1 .. Len(f) - 1
  PROVE  IsSuffix(SubSeq(f, 1, pms), Chop(p, Len(f) - pms))
<1>1. Len(f) <= Len(p) /\ \A i \in 1 .. Len(f) : f[i] = p[Len(p) - Len(f) + i]
  BY SuffixMeans
<1>2. PICK kp \in Nat, kf \in Nat : kp = Len(p) /\ kf = Len(f)
  OBVIOUS
<1>3. PICK l \in Nat : l = kp - (kf - pms) /\ l >= pms /\ l <= kp /\ l - pms = kp - kf
  <2>1. kp - (kf - pms) \in Nat /\ kp - (kf - pms) >= pms /\ kp - (kf - pms) <= kp
    BY <1>1, <1>2
  <2>2. (kp - (kf - pms)) - pms = kp - kf
    BY <1>2
  <2> QED BY <2>1, <2>2
<1>4. PICK g \in Seq(Char) : g = SubSeq(f, 1, pms)
  <2>1. SubSeq(f, 1, pms) \in Seq(Char)
    BY <1>2
  <2> QED BY <2>1
<1>5. PICK q \in Seq(Char) : q = SubSeq(p, 1, l)
  <2>1. SubSeq(p, 1, l) \in Seq(Char)
    BY <1>2, <1>3
  <2> QED BY <2>1
<1>6. Chop(p, Len(f) - pms) = q
  BY <1>1, <1>2, <1>3, <1>5 DEF Chop
<1>7. Len(g) = pms /\ pms \in Nat /\ \A i \in 1 .. pms : g[i] = f[i] /\ i \in 1 .. kf
  BY <1>2, <1>4
<1>8. Len(q) = l /\ \A i \in 1 .. l : q[i] = p[i]
  BY <1>2, <1>3, <1>5
<1>9. ASSUME NEW i \in 1 .. pms PROVE g[i] = q[l - pms + i]
  <2>1. PICK j \in 1 .. l : j = l - pms + i /\ j = kp - kf + i
    <3>1. l - pms + i \in 1 .. l /\ l - pms + i = kp - kf + i
      BY <1>3, <1>7
    <3> QED BY <3>1
  <2>2. g[i] = p[j] /\ q[j] = p[j]
    BY <1>1, <1>2, <1>7, <1>8, <2>1
  <2> QED BY <2>1, <2>2
<1>10. IsSuffix(g, q)
  BY <1>3, <1>7, <1>8, <1>9, SuffixMeans
<1> QED BY <1>4, <1>6, <1>10
-----------------------------------------------------------------------------
(* The other parts of the invariant, one step at a time.                   *)

RootIsEmpty == node[Root].value = NoValue

Titles == FragmentEndsPath /\ EmptyFragmentIsDeadEnd /\ RootIsEmpty

\* What the nodes hold grows by one pair of a key and a value.
GrowsContents(pair) == Contents' = Contents \cup {pair}

\* Setting the value of a node other than the root leaves the titles alone.
LEMMA TitlesSetsValue ==
  ASSUME TypeOK, Titles, NEW n \in Live \ {Root}, NEW x, SetsValue(n, x)
  PROVE  Titles'
<1>1. \A m \in Live : /\ node'[m].path = node[m].path /\ node'[m].frag = node[m].frag
                      /\ node'[m].kids = node[m].kids /\ node'[m].type = node[m].type
  BY DEF SetsValue, TypeOK, HeapTypeOK, Fields
<1>2. node'[Root].value = node[Root].value
  BY DEF SetsValue, TypeOK, HeapTypeOK
<1> QED BY <1>1, <1>2
      DEF SetsValue, Titles, FragmentEndsPath, EmptyFragmentIsDeadEnd, RootIsEmpty

\* The fields Adopt, CutNode, CutOff and Leaf give a node.
LEMMA AdoptFields ==
  ASSUME NEW x \in Fields, NEW a
  PROVE  /\ Adopt(x, a).path = x.path /\ Adopt(x, a).frag = x.frag
         /\ Adopt(x, a).value = x.value /\ Adopt(x, a).type = x.type
BY DEF Adopt, Fields

\* Adding a child below a node keeps the titles right and adds its pair.
LEMMA TitlesAddChild ==
  ASSUME TypeOK, Titles, NEW key \in Key, NEW v \in Value,
         NEW n \in Live \ {Root}, NEW a \in Node \ Live,
         NEW title \in RestTitle(key, Len(node[n].path)), AddsChild(key, v, n, a, title)
  PROVE  Titles' /\ GrowsContents(<<key, v>>)
<1>1. Live' = Live \cup {a} /\ node'[a] = Leaf(key, title, v)
  BY DEF AddsChild
<1>2. \A m \in Live : /\ node'[m].path = node[m].path /\ node'[m].frag = node[m].frag
                      /\ node'[m].value = node[m].value /\ node'[m].type = node[m].type
  <2>1. \A m \in Live : node[m] \in Fields /\ a # m
    BY DEF TypeOK, HeapTypeOK
  <2>2. \A m \in Live : node'[m] = IF m = n THEN Adopt(node[n], a) ELSE node[m]
    BY <2>1 DEF AddsChild
  <2> QED BY <2>1, <2>2, AdoptFields
<1>3. \A m \in Live \ {n} : node'[m].kids = node[m].kids
  BY DEF AddsChild
<1>4. FragmentEndsPath'
  <2> SUFFICES ASSUME ~ oob', NEW m \in Live'
               PROVE  IsSuffix(node'[m].frag, node'[m].path)
    BY DEF FragmentEndsPath
  <2>1. CASE m \in Live
    BY <1>2, <2>1 DEF Titles, FragmentEndsPath, AddsChild
  <2>2. CASE m = a
    <3>1. key \in Seq(Char) /\ Len(node[n].path) \in Nat
      BY KeyAssumption DEF TypeOK, HeapTypeOK, Fields
    <3>2. ~ (Len(node[n].path) > Len(key))
      BY DEF AddsChild
    <3>3. Len(node[n].path) <= Len(key)
      BY <3>1, <3>2
    <3>4. title = Drop(key, Len(node[n].path))
      BY <3>3 DEF RestTitle
    <3> QED BY <1>1, <2>2, <3>1, <3>3, <3>4, DropIsSuffix DEF Leaf
  <2> QED BY <1>1, <2>1, <2>2
<1>5. EmptyFragmentIsDeadEnd'
  <2> SUFFICES ASSUME NEW m \in Live' \ {Root}, node'[m].frag = <<>>
               PROVE  node'[m].kids = <<>> /\ node'[m].type = "leaf"
    BY DEF EmptyFragmentIsDeadEnd
  <2>1. CASE m = a
    BY <1>1, <2>1 DEF Leaf
  <2>2. CASE m = n
    BY <1>2, <2>2 DEF AddsChild
  <2>3. CASE m \in Live \ {n}
    BY <1>2, <1>3, <2>3 DEF Titles, EmptyFragmentIsDeadEnd
  <2> QED BY <1>1, <2>1, <2>2, <2>3
<1>6. RootIsEmpty'
  BY <1>2 DEF Titles, RootIsEmpty, TypeOK, HeapTypeOK
<1>7. GrowsContents(<<key, v>>)
  <2>1. node'[a].path = key /\ node'[a].value = v /\ v # NoValue
    BY <1>1, ValueAssumption DEF Leaf
  <2> QED BY <1>1, <1>2, <2>1 DEF GrowsContents, Contents
<1> QED BY <1>4, <1>5, <1>6, <1>7 DEF Titles

\* Adding a child to the root keeps the titles right and adds its pair.
LEMMA TitlesAddAtRoot ==
  ASSUME TypeOK, Titles, NEW key \in Key, NEW v \in Value,
         NEW a \in Node \ Live, AddsAtRoot(Root, key, v, a)
  PROVE  Titles' /\ GrowsContents(<<key, v>>)
<1>1. Live' = Live \cup {a} /\ node'[a] = Leaf(key, key, v) /\ Root \in Live
  BY DEF AddsAtRoot, TypeOK, HeapTypeOK
<1>2. /\ node'[Root].path = node[Root].path /\ node'[Root].frag = node[Root].frag
      /\ node'[Root].value = NoValue
  <2>1. node[Root] \in Fields /\ Adopt(node[Root], a) \in Fields
    BY <1>1, AdoptType DEF TypeOK, HeapTypeOK
  <2>2. node'[Root] = [Adopt(node[Root], a) EXCEPT !.value = NoValue, !.type = "branch"]
    BY <1>1 DEF AddsAtRoot
  <2>3. /\ node'[Root].path = Adopt(node[Root], a).path
        /\ node'[Root].frag = Adopt(node[Root], a).frag
        /\ node'[Root].value = NoValue
    BY <2>1, <2>2 DEF Fields
  <2> QED BY <2>1, <2>3, AdoptFields
<1>3. \A m \in Live \ {Root} : node'[m] = node[m]
  BY DEF AddsAtRoot
<1>4. FragmentEndsPath'
  <2> SUFFICES ASSUME ~ oob', NEW m \in Live'
               PROVE  IsSuffix(node'[m].frag, node'[m].path)
    BY DEF FragmentEndsPath
  <2>1. CASE m = Root
    BY <1>1, <1>2, <2>1 DEF Titles, FragmentEndsPath, AddsAtRoot
  <2>2. CASE m \in Live \ {Root}
    BY <1>3, <2>2 DEF Titles, FragmentEndsPath, AddsAtRoot
  <2>3. CASE m = a
    <3>1. key \in Seq(Char)
      BY KeyAssumption
    <3>2. IsSuffix(key, key)
      BY <3>1, SuffixMeans
    <3> QED BY <1>1, <2>3, <3>2 DEF Leaf
  <2> QED BY <1>1, <2>1, <2>2, <2>3
<1>5. EmptyFragmentIsDeadEnd'
  BY <1>1, <1>3 DEF Titles, EmptyFragmentIsDeadEnd, Leaf
<1>6. RootIsEmpty'
  BY <1>2 DEF RootIsEmpty
<1>7. GrowsContents(<<key, v>>)
  <2>1. node'[a].path = key /\ node'[a].value = v /\ v # NoValue
    BY <1>1, ValueAssumption DEF Leaf
  <2>2. \A m \in Live : node'[m].path = node[m].path /\ node'[m].value = node[m].value
    BY <1>2, <1>3 DEF Titles, RootIsEmpty
  <2> QED BY <1>1, <2>1, <2>2 DEF GrowsContents, Contents
<1> QED BY <1>4, <1>5, <1>6, <1>7 DEF Titles

\* Cutting a node keeps the titles right and adds the pair of the new key: the value
\* moved out of the node arrives in the new leaf under the same path.
LEMMA TitlesSplit ==
  ASSUME TypeOK, Titles, NEW key \in Key, NEW v \in Value,
         NEW n \in Live \ {Root}, NEW b \in Node \ Live, NEW c \in Node \ (Live \cup {b}),
         NEW pms \in 1 .. Len(node[n].frag) - 1,
         NEW title \in RestTitle(key, CutAt(n, pms)), Splits(key, v, n, pms, b, c, title)
  PROVE  Titles' /\ GrowsContents(<<key, v>>)
<1>1. /\ Live' = Live \cup {b, c} /\ b \notin Live /\ c \notin Live /\ b # c
      /\ node'[c] = Leaf(key, title, v)
      /\ node'[b] = CutOff(node[n], pms)
      /\ node'[n] = CutNode(node[n], pms, b, c)
      /\ \A m \in Live \ {n} : node'[m] = node[m]
  BY DEF Splits
<1>2. /\ node'[c].path = key /\ node'[c].frag = title /\ node'[c].value = v
      /\ node'[c].kids = <<>> /\ node'[c].type = "leaf"
  BY <1>1 DEF Leaf
<1>3. /\ node'[b].path = node[n].path /\ node'[b].frag = Drop(node[n].frag, pms)
      /\ node'[b].value = node[n].value /\ node'[b].kids = <<>> /\ node'[b].type = "leaf"
  BY <1>1 DEF Leaf, CutOff
<1>4. /\ node'[n].path = Chop(node[n].path, Len(node[n].frag) - pms)
      /\ node'[n].frag = SubSeq(node[n].frag, 1, pms) /\ node'[n].value = NoValue
  BY <1>1 DEF CutNode
<1>5. node[n].path \in Seq(Char) /\ node[n].frag \in Seq(Char) /\ pms \in Nat
      /\ pms <= Len(node[n].frag)
  <2>1. node[n].path \in Seq(Char) /\ node[n].frag \in Seq(Char)
    BY DEF TypeOK, HeapTypeOK, Fields
  <2> QED BY <2>1
<1>6. FragmentEndsPath'
  <2> SUFFICES ASSUME ~ oob', NEW m \in Live'
               PROVE  IsSuffix(node'[m].frag, node'[m].path)
    BY DEF FragmentEndsPath
  <2>1. ~ oob /\ ~ (CutAt(n, pms) > Len(key))
    BY DEF Splits
  <2>2. IsSuffix(node[n].frag, node[n].path)
    BY <2>1 DEF Titles, FragmentEndsPath
  <2>3. CASE m \in Live \ {n}
    BY <1>1, <2>1, <2>3 DEF Titles, FragmentEndsPath
  <2>4. CASE m = n
    BY <1>4, <1>5, <2>2, <2>4, CutKeepsSuffix, ZenonT(40)
  <2>5. CASE m = b
    <3>1. IsSuffix(Drop(node[n].frag, pms), node[n].frag)
      BY <1>5, DropIsSuffix
    <3>2. Drop(node[n].frag, pms) \in Seq(Char)
      BY <1>5, DropType
    <3> QED BY <1>3, <1>5, <2>2, <2>5, <3>1, <3>2, SuffixOfSuffix
  <2>6. CASE m = c
    <3>1. key \in Seq(Char) /\ CutAt(n, pms) \in Nat
      <4>1. Len(node[n].frag) - pms \in Nat
        BY <1>5
      <4> QED BY <1>5, <4>1, KeyAssumption, ChopType DEF CutAt
    <3>2. CutAt(n, pms) <= Len(key)
      BY <2>1, <3>1
    <3>3. title = Drop(key, CutAt(n, pms))
      BY <3>2 DEF RestTitle
    <3> QED BY <1>2, <2>6, <3>1, <3>2, <3>3, DropIsSuffix
  <2> QED BY <1>1, <2>3, <2>4, <2>5, <2>6
<1>7. EmptyFragmentIsDeadEnd'
  <2> SUFFICES ASSUME NEW m \in Live' \ {Root}, node'[m].frag = <<>>
               PROVE  node'[m].kids = <<>> /\ node'[m].type = "leaf"
    BY DEF EmptyFragmentIsDeadEnd
  <2>1. m # n
    <3>1. Len(SubSeq(node[n].frag, 1, pms)) = pms /\ pms # 0
      BY <1>5
    <3> QED BY <1>4, <3>1
  <2>2. CASE m \in {b, c}
    BY <1>2, <1>3, <2>2
  <2>3. CASE m \in Live \ {n}
    BY <1>1, <2>3 DEF Titles, EmptyFragmentIsDeadEnd
  <2> QED BY <1>1, <2>1, <2>2, <2>3
<1>8. RootIsEmpty'
  BY <1>1 DEF Titles, RootIsEmpty, TypeOK, HeapTypeOK
<1>9. GrowsContents(<<key, v>>)
  <2>1. v # NoValue
    BY ValueAssumption
  <2>2. ASSUME NEW e \in Contents' PROVE e \in Contents \cup {<<key, v>>}
    <3>1. PICK m \in Live' : node'[m].value # NoValue /\ e = <<node'[m].path, node'[m].value>>
      BY <2>2 DEF Contents
    <3>2. CASE m = b
      BY <1>3, <3>1, <3>2 DEF Contents
    <3>3. CASE m = c
      BY <1>2, <3>1, <3>3
    <3>4. CASE m \in Live \ {n}
      BY <1>1, <3>1, <3>4 DEF Contents
    <3> QED BY <1>1, <1>4, <3>1, <3>2, <3>3, <3>4
  <2>3. ASSUME NEW e \in Contents PROVE e \in Contents'
    <3>1. PICK m \in Live : node[m].value # NoValue /\ e = <<node[m].path, node[m].value>>
      BY <2>3 DEF Contents
    <3>2. PICK q \in Live' : node'[q].value = node[m].value /\ node'[q].path = node[m].path
      BY <1>1, <1>3
    <3> QED BY <3>1, <3>2 DEF Contents
  <2>4. <<key, v>> \in Contents'
    BY <1>1, <1>2, <2>1 DEF Contents
  <2> QED BY <2>2, <2>3, <2>4 DEF GrowsContents
<1> QED BY <1>6, <1>7, <1>8, <1>9 DEF Titles

\* Freeing a subtree leaves the titles of the others alone.
LEMMA TitlesRemoves ==
  ASSUME TypeOK, HeapIsTree, Titles, NEW n \in Live \ {Root}, NEW d \in Live,
         NEW j \in DOMAIN node[d].kids, RemovesTree(n, d, j)
  PROVE  Titles'
<1>1. Live' \subseteq Live /\ oob' = oob /\ Root \in Live'
  BY RootNotBelow DEF RemovesTree, HeapIsTree, TypeOK, HeapTypeOK
<1>2. \A m \in Live' : /\ node'[m].path = node[m].path /\ node'[m].frag = node[m].frag
                       /\ node'[m].value = node[m].value /\ node'[m].type = node[m].type
  <2>1. node[d] \in Fields
    BY DEF TypeOK, HeapTypeOK
  <2>2. \A m \in Live' : node'[m] = IF m = d THEN [node[d] EXCEPT !.kids = RemoveAt(@, j)]
                                              ELSE node[m]
    BY DEF RemovesTree
  <2> QED BY <2>1, <2>2, SMTT(30) DEF Fields
<1>3. \A m \in Live' \ {d} : node'[m].kids = node[m].kids
  BY DEF RemovesTree
<1>4. node[d].kids # <<>>
  BY DEF TypeOK, HeapTypeOK, Fields
<1>5. FragmentEndsPath' /\ RootIsEmpty'
  BY <1>1, <1>2 DEF Titles, FragmentEndsPath, RootIsEmpty
<1>6. EmptyFragmentIsDeadEnd'
  BY <1>1, <1>2, <1>3, <1>4 DEF Titles, EmptyFragmentIsDeadEnd
<1> QED BY <1>5, <1>6 DEF Titles
-----------------------------------------------------------------------------
(* The theorems.                                                           *)

\* TypeOK is not inductive by itself: that remove never frees the root, and that a
\* search result's node can be looked up again, takes the tree.  InsertOnlyAdds needs
\* the root's value to be empty, which insert overwrites when it adds a child there.
IInv == TypeOK /\ HeapIsTree /\ Titles

\* The heap ensure_root makes satisfies the invariant.
LEMMA IInvInit == Init => IInv
<1> SUFFICES ASSUME Init PROVE IInv
  OBVIOUS
<1>1. TypeOK
  BY TypeOKInit
<1>2. /\ Live = {Root} /\ node[Root].kids = <<>> /\ node[Root].path = <<>>
      /\ node[Root].frag = <<>> /\ node[Root].value = NoValue
  BY DEF Init, Live
<1>3. NoDanglingKid /\ OneParent
  BY <1>2 DEF NoDanglingKid, OneParent, Range
<1>4. AllReachable
  BY <1>2 DEF AllReachable, Subtree
<1>5. IsSuffix(<<>>, <<>>)
  <2>1. <<>> \in Seq(Char)
    OBVIOUS
  <2> QED BY <2>1, SuffixRefl
<1>6. Titles
  BY <1>2, <1>5 DEF Titles, FragmentEndsPath, EmptyFragmentIsDeadEnd, RootIsEmpty
<1> QED BY <1>1, <1>3, <1>4, <1>6 DEF IInv, HeapIsTree

\* insert keeps the invariant, and if it allocates it adds its own pair and no other.
LEMMA IInvInsert ==
  ASSUME IInv, NEW key \in Key, NEW v \in Value, InsertKey(Root, key, v)
  PROVE  IInv' /\ (Live' \ Live # {} => GrowsContents(<<key, v>>))
<1> USE DEF IInv
<1>1. PICK r : \/ Replace(Root, r, v) \/ AddChild(Root, r, key, v)
              \/ Split(Root, r, key, v) \/ AddAtRoot(Root, r, key, v)
  BY DEF InsertKey
<1>2. CASE Replace(Root, r, v)
  <2>1. PICK n \in Live \ {Root} : SetsValue(n, v)
    BY <1>2, ReplaceStep DEF TypeOK
  <2>2. Live' = Live
    BY <2>1 DEF SetsValue
  <2>3. TypeOK'
    BY <2>1, <2>2, TypesSetsValue DEF TypeOK
  <2> QED BY <2>1, <2>2, <2>3, TreeSetsValue, TitlesSetsValue
<1>3. CASE AddChild(Root, r, key, v)
  <2>1. PICK n \in Live \ {Root}, a \in Node \ Live :
        \E title \in RestTitle(key, Len(node[n].path)) : AddsChild(key, v, n, a, title)
    BY <1>3, AddChildStep DEF TypeOK
  <2>2. PICK title \in RestTitle(key, Len(node[n].path)) : AddsChild(key, v, n, a, title)
    BY <2>1
  <2>3. TypeOK'
    BY <1>3, <2>2, TypesAddChild DEF TypeOK, AddsChild
  <2> QED BY <2>2, <2>3, TreeAddChild, TitlesAddChild
<1>4. CASE Split(Root, r, key, v)
  <2>1. PICK n \in Live \ {Root}, b \in Node \ Live :
        \E c \in Node \ (Live \cup {b}), pms \in 1 .. Len(node[n].frag) - 1 :
        \E title \in RestTitle(key, CutAt(n, pms)) : Splits(key, v, n, pms, b, c, title)
    BY <1>4, SplitStep DEF TypeOK
  <2>2. PICK c \in Node \ (Live \cup {b}), pms \in 1 .. Len(node[n].frag) - 1 :
        \E title \in RestTitle(key, CutAt(n, pms)) : Splits(key, v, n, pms, b, c, title)
    BY <2>1
  <2>3. PICK title \in RestTitle(key, CutAt(n, pms)) : Splits(key, v, n, pms, b, c, title)
    BY <2>2
  <2>4. TypeOK'
    BY <1>4, <2>3, TypesSplit DEF TypeOK, Splits
  <2> QED BY <2>3, <2>4, TreeSplit, TitlesSplit
<1>5. CASE AddAtRoot(Root, r, key, v)
  <2>1. PICK a \in Node \ Live : AddsAtRoot(Root, key, v, a)
    BY <1>5, AddAtRootStep DEF TypeOK
  <2>2. TypeOK'
    BY <1>5, <2>1, TypesAddAtRoot DEF TypeOK, AddsAtRoot
  <2> QED BY <2>1, <2>2, TreeAddAtRoot, TitlesAddAtRoot
<1> QED BY <1>1, <1>2, <1>3, <1>4, <1>5

\* What one step of the specification does to the invariant, and to Contents when it
\* allocates.
LEMMA IInvStep ==
  ASSUME IInv, [Next]_vars
  PROVE  /\ IInv'
         /\ Live' \ Live # {} => \E key \in Key, v \in Value : GrowsContents(<<key, v>>)
<1> USE DEF IInv
<1>1. CASE UNCHANGED vars
  <2>1. node' = node /\ oob' = oob
    BY <1>1 DEF vars
  <2>2. TypeOK' /\ HeapIsTree' /\ Titles'
    BY <2>1 DEF TypeOK, HeapTypeOK, Live, HeapIsTree, NoDanglingKid, OneParent, AllReachable, Subtree,
                Titles, FragmentEndsPath, EmptyFragmentIsDeadEnd, RootIsEmpty
  <2>3. Live' = Live
    BY <2>1 DEF Live
  <2> QED BY <2>2, <2>3
<1>2. ASSUME NEW key \in Key, NEW v \in Value, InsertKey(Root, key, v)
      PROVE  IInv' /\ (Live' \ Live # {} => GrowsContents(<<key, v>>))
  BY <1>2, IInvInsert
<1>3. ASSUME NEW key \in Key, NEW include_children \in BOOLEAN,
             RemoveKey(Root, key, include_children)
      PROVE  IInv' /\ Live' \subseteq Live
  <2>1. PICK r : RemoveTree(Root, r) \/ RemoveValue(Root, r) \/ RemoveNone(r)
    BY <1>3 DEF RemoveKey
  <2>2. CASE RemoveTree(Root, r)
    <3>1. PICK n \in Live \ {Root}, d \in Live : \E j \in DOMAIN node[d].kids :
            RemovesTree(n, d, j)
      BY <2>2, RemoveTreeStep DEF TypeOK
    <3>2. PICK j \in DOMAIN node[d].kids : RemovesTree(n, d, j)
      BY <3>1
    <3>3. Live' \subseteq Live
      BY <3>2 DEF RemovesTree
    <3> QED BY <3>2, <3>3, TreeRemoves, TitlesRemoves
  <2>3. CASE RemoveValue(Root, r)
    <3>1. PICK n \in Live \ {Root} : SetsValue(n, NoValue)
      BY <2>3, RemoveValueStep DEF TypeOK
    <3>2. Live' = Live
      BY <3>1 DEF SetsValue
    <3>3. TypeOK'
      BY <3>1, <3>2, TypesSetsValue DEF TypeOK
    <3> QED BY <3>1, <3>2, <3>3, TreeSetsValue, TitlesSetsValue
  <2>4. CASE RemoveNone(r)
    <3>1. UNCHANGED vars
      BY <2>4 DEF RemoveNone
    <3>2. IInv' /\ Live' = Live
      BY <3>1 DEF vars, TypeOK, HeapTypeOK, Live, HeapIsTree, NoDanglingKid, OneParent, AllReachable,
                  Subtree, Titles, FragmentEndsPath, EmptyFragmentIsDeadEnd, RootIsEmpty
    <3> QED BY <3>2
  <2> QED BY <2>1, <2>2, <2>3, <2>4
<1>4. CASE Next
  <2>1. PICK key \in Key : \/ \E v \in Value : InsertKey(Root, key, v)
                          \/ \E include_children \in BOOLEAN :
                               RemoveKey(Root, key, include_children)
    BY <1>4 DEF Next
  <2> QED BY <1>2, <1>3, <2>1
<1> QED BY <1>1, <1>4

\* Every reachable heap satisfies the inductive invariant the other theorems rest on.
THEOREM Invariant == Spec => []IInv
<1>1. IInv /\ [Next]_vars => IInv'
  BY IInvStep
<1> QED BY <1>1, IInvInit, PTL DEF Spec

\* Every reachable heap is typed: in particular the root is never freed.
THEOREM TypeCorrect == Spec => []TypeOK
<1>1. IInv => TypeOK
  BY DEF IInv
<1> QED BY <1>1, Invariant, PTL

\* Every reachable heap is one tree below the root, with no node leaked or dangling,
\* whatever keys are inserted and removed in whatever order.
THEOREM TreeShape == Spec => []HeapIsTree
<1>1. IInv => HeapIsTree
  BY DEF IInv
<1> QED BY <1>1, Invariant, PTL

\* Until a key is read past its end, a node's fragment is the tail of its path.
THEOREM FragmentsMatchPaths == Spec => []FragmentEndsPath
<1>1. IInv => FragmentEndsPath
  BY DEF IInv, Titles
<1> QED BY <1>1, Invariant, PTL

\* A node whose fragment came out empty stays a leaf without children.
THEOREM EmptyFragments == Spec => []EmptyFragmentIsDeadEnd
<1>1. IInv => EmptyFragmentIsDeadEnd
  BY DEF IInv, Titles
<1> QED BY <1>1, Invariant, PTL

\* An insert that does not overwrite adds its pair and disturbs no other.
THEOREM InsertsOnlyAdd == Spec => InsertOnlyAdds
<1>1. IInv /\ [Next]_vars
        => [Live' \ Live # {}
              => \E key \in Key, v \in Value : Contents' = Contents \cup {<<key, v>>}]_vars
  BY IInvStep DEF GrowsContents
<1> QED BY <1>1, Invariant, PTL DEF Spec, InsertOnlyAdds
=============================================================================
