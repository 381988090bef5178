---------------------------- MODULE SearchProofs -----------------------------
(***************************************************************************)
(* Theorems about the two searches of module Trie.  They are recursive     *)
(* functions over the tree of nodes: the tree is finite and well-founded,  *)
(* so each satisfies its own equation, and induction over the tree says    *)
(* what it returns.                                                        *)
(***************************************************************************)
EXTENDS TrieProofs, ProofFacts

-----------------------------------------------------------------------------
(* The tree is finite, and the root has neither fragment nor path.         *)

RootHasNoTitle == node[Root].frag = <<>> /\ node[Root].path = <<>>

Tree == TypeOK /\ HeapIsTree /\ IsFiniteSet(Live)

SearchInv == IInv /\ IsFiniteSet(Live) /\ RootHasNoTitle

\* The heap ensure_root makes.
LEMMA SearchInvInit == Init => SearchInv
<1> SUFFICES ASSUME Init PROVE SearchInv
  OBVIOUS
<1>1. Live = {Root} /\ node[Root].frag = <<>> /\ node[Root].path = <<>>
  BY DEF Init, Live
<1>2. IsFiniteSet(Live)
  BY <1>1, FS_Singleton
<1> QED BY <1>1, <1>2, IInvInit DEF SearchInv, RootHasNoTitle

\* A step allocates two nodes at most, and the fragment and the path of the root are
\* never written.
LEMMA SearchInvStep ==
  ASSUME SearchInv, [Next]_vars
  PROVE  SearchInv'
<1> USE DEF SearchInv
<1>1. IInv'
  BY IInvStep
<1>2. TypeOK /\ Root \in Live /\ IsFiniteSet(Live) /\ RootHasNoTitle
  BY DEF IInv, TypeOK, HeapTypeOK
<1> DEFINE Good == IsFiniteSet(Live') /\ RootHasNoTitle'
<1>3. ASSUME UNCHANGED vars PROVE Good
  BY <1>2, <1>3 DEF vars, Live, RootHasNoTitle
<1>4. ASSUME NEW n \in Live \ {Root}, NEW x, SetsValue(n, x) PROVE Good
  BY <1>2, <1>4 DEF SetsValue, RootHasNoTitle, TypeOK, HeapTypeOK
<1>5. ASSUME NEW r, NEW key \in Key, NEW v \in Value, AddChild(Root, r, key, v) PROVE Good
  <2>1. PICK n \in Live \ {Root}, a \in Node \ Live :
        \E title \in RestTitle(key, Len(node[n].path)) : AddsChild(key, v, n, a, title)
    BY <1>2, <1>5, AddChildStep DEF TypeOK
  <2>2. Live' = Live \cup {a} /\ node'[Root] = node[Root]
    BY <1>2, <2>1 DEF AddsChild
  <2> QED BY <1>2, <2>2, FS_AddElement DEF RootHasNoTitle
<1>6. ASSUME NEW r, NEW key \in Key, NEW v \in Value, Split(Root, r, key, v) PROVE Good
  <2>1. PICK n \in Live \ {Root}, b \in Node \ Live :
        \E c \in Node \ (Live \cup {b}), pms \in 1 .. Len(node[n].frag) - 1 :
        \E title \in RestTitle(key, CutAt(n, pms)) : Splits(key, v, n, pms, b, c, title)
    BY <1>2, <1>6, SplitStep DEF TypeOK
  <2>2. PICK c \in Node \ (Live \cup {b}) :
          Live' = (Live \cup {b}) \cup {c} /\ node'[Root] = node[Root]
    BY <1>2, <2>1 DEF Splits
  <2> QED BY <1>2, <2>2, FS_AddElement DEF RootHasNoTitle
<1>7. ASSUME NEW r, NEW key \in Key, NEW v \in Value, AddAtRoot(Root, r, key, v) PROVE Good
  <2>1. PICK a \in Node \ Live : AddsAtRoot(Root, key, v, a)
    BY <1>2, <1>7, AddAtRootStep DEF TypeOK
  <2>2. node[Root] \in Fields
    BY <1>2 DEF TypeOK, HeapTypeOK
  <2>3. Live' = Live \cup {a} /\ node'[Root].frag = node[Root].frag
        /\ node'[Root].path = node[Root].path
    BY <1>2, <2>1, <2>2 DEF AddsAtRoot, Adopt, Fields
  <2> QED BY <1>2, <2>3, FS_AddElement DEF RootHasNoTitle
<1>8. ASSUME NEW r, RemoveTree(Root, r) PROVE Good
  <2>1. PICK n \in Live \ {Root}, d \in Live : \E j \in DOMAIN node[d].kids :
          RemovesTree(n, d, j)
    BY <1>2, <1>8, RemoveTreeStep DEF TypeOK
  <2>2. PICK j : RemovesTree(n, d, j)
    BY <2>1
  <2>3. Root \notin Subtree(n) /\ node[d] \in Fields
    BY <1>2, RootNotBelow DEF IInv, HeapIsTree, TypeOK, HeapTypeOK
  <2>4. node'[Root].frag = node[Root].frag /\ node'[Root].path = node[Root].path
    BY <1>2, <2>2, <2>3 DEF RemovesTree, Fields
  <2>5. IsFiniteSet(Live')
    BY <1>2, <2>2, FS_Difference DEF RemovesTree
  <2> QED BY <1>2, <2>4, <2>5 DEF RootHasNoTitle
<1>9. ASSUME Next PROVE Good
  <2>1. PICK key \in Key : \/ \E v \in Value : InsertKey(Root, key, v)
                          \/ \E include_children \in BOOLEAN :
                               RemoveKey(Root, key, include_children)
    BY <1>9 DEF Next
  <2>2. ASSUME NEW v \in Value, InsertKey(Root, key, v) PROVE Good
    BY <1>2, <1>4, <1>5, <1>6, <1>7, <2>2, ReplaceStep DEF InsertKey, TypeOK
  <2>3. ASSUME NEW include_children \in BOOLEAN, RemoveKey(Root, key, include_children) PROVE Good
    BY <1>2, <1>3, <1>4, <1>8, <2>3, RemoveValueStep DEF RemoveKey, RemoveNone, TypeOK
  <2> QED BY <2>1, <2>2, <2>3
<1> QED BY <1>1, <1>3, <1>9

\* The searches run on a finite tree, whatever calls have been made.
THEOREM SearchInvariant == Spec => []SearchInv
BY SearchInvInit, SearchInvStep, PTL DEF Spec

-----------------------------------------------------------------------------
(* Induction and recursion over the tree.                                  *)

Size(n) == Cardinality(Subtree(n))

\* The subtree of a child is a smaller one.
LEMMA SizeFalls ==
  ASSUME Tree, NEW n \in Live
  PROVE  /\ Size(n) \in Nat /\ Size(n) <= Cardinality(Live)
         /\ \A k \in Range(node[n].kids) :
              /\ k \in Live \ {Root} /\ Subtree(k) \subseteq Subtree(n) \ {n}
              /\ Size(k) < Size(n)
<1> USE DEF Tree, HeapIsTree
<1>1. Subtree(n) \subseteq Live /\ n \in Subtree(n) /\ IsFiniteSet(Subtree(n))
  BY SubtreeClosed, FS_Subset
<1>2. Size(n) \in Nat /\ Size(n) <= Cardinality(Live)
  BY <1>1, FS_Subset, FS_CardinalityType DEF Size
<1>3. ASSUME NEW k \in Range(node[n].kids)
      PROVE  /\ k \in Live \ {Root} /\ Subtree(k) \subseteq Subtree(n) \ {n}
             /\ Size(k) < Size(n)
  <2>1. k \in Live \ {Root} /\ k \in Subtree(n)
    BY <1>1, SubtreeClosed DEF NoDanglingKid
  <2>2. Subtree(k) \subseteq Subtree(n)
    BY <1>1, <2>1, SubtreeClosed, SubtreeLeast
  <2>3. n \notin Subtree(k)
    <3> SUFFICES ASSUME n \in Subtree(k) PROVE FALSE
      OBVIOUS
    <3> DEFINE S == Live \ Subtree(k)
    <3>1. Root \in S
      BY <2>1, RootNotBelow DEF TypeOK, HeapTypeOK
    <3>2. ASSUME NEW m \in S, NEW q \in Range(node[m].kids), q \in Subtree(k) PROVE FALSE
      <4>1. q = k
        BY <2>1, <3>2, SubtreeEntry
      <4>2. m = n
        BY <3>2, <4>1 DEF OneParent, Range
      <4> QED BY <3>2, <4>2
    <3>3. \A m \in S : Range(node[m].kids) \subseteq S
      BY <3>2 DEF NoDanglingKid
    <3>4. Live \subseteq S
      BY <3>1, <3>3, SubtreeLeast DEF AllReachable
    <3>5. k \in Subtree(k)
      BY <2>1, SubtreeClosed
    <3> QED BY <2>1, <3>4, <3>5
  <2>4. IsFiniteSet(Subtree(k))
    BY <1>1, <2>2, FS_Subset
  <2>5. Size(k) <= Size(n) /\ Size(k) # Size(n) /\ Size(k) \in Nat
    BY <1>1, <2>2, <2>3, <2>4, FS_Subset, FS_CardinalityType DEF Size
  <2> QED BY <1>2, <2>1, <2>2, <2>3, <2>5
<1> QED BY <1>2, <1>3

KidsOf == [n \in Live |-> Range(node[n].kids)]

\* A heap without cycles: some rank falls from every node to its children, none of which
\* dangles.  The searches need no more than that, so that what follows holds of the nodes
\* of several trees too.
Wood == HeapTypeOK /\ \E rank, bound : Descends(Live, rank, bound, KidsOf)

\* A tree is one: subtrees are smaller.
LEMMA TreeIsWood == Tree => Wood
<1> SUFFICES ASSUME Tree PROVE Wood
  OBVIOUS
<1> DEFINE rank  == [n \in Live |-> Size(n)]
           bound == Cardinality(Live) + 1
<1>1. rank \in [Live -> Nat] /\ KidsOf \in [Live -> SUBSET Live] /\ bound \in Nat
  BY SizeFalls, FS_CardinalityType DEF Tree, KidsOf
<1>2. \A n \in Live : rank[n] < bound
  BY SizeFalls, FS_CardinalityType DEF Tree
<1>3. \A n \in Live : \A k \in KidsOf[n] : rank[k] < rank[n]
  BY SizeFalls DEF KidsOf
<1>4. Descends(Live, rank, bound, KidsOf)
  <2> HIDE DEF rank, bound
  <2> QED BY <1>1, <1>2, <1>3 DEF Descends
<1> HIDE DEF rank, bound
<1> QED BY <1>4 DEF Wood, Tree, TypeOK

\* The children of a node are nodes.
LEMMA WoodKids ==
  ASSUME Wood, NEW n \in Live
  PROVE  Range(node[n].kids) \subseteq Live /\ KidsOf[n] = Range(node[n].kids)
<1>1. PICK rank, bound : Descends(Live, rank, bound, KidsOf)
  BY DEF Wood
<1>2. KidsOf[n] = Range(node[n].kids)
  BY DEF KidsOf
<1>3. KidsOf \in [Live -> SUBSET Live]
  BY <1>1 DEF Descends
<1> QED BY <1>2, <1>3

\* A set that holds a node as soon as it holds its children holds every node.
LEMMA WoodInduction ==
  ASSUME Wood, NEW T \in SUBSET Live,
         \A n \in Live : Range(node[n].kids) \subseteq T => n \in T
  PROVE  T = Live
<1>1. PICK rank, bound : Descends(Live, rank, bound, KidsOf)
  BY DEF Wood
<1>2. rank \in [Live -> Nat]
  BY <1>1 DEF Descends
<1>3. ASSUME NEW n \in Live, \A k \in Live : rank[k] < rank[n] => k \in T PROVE n \in T
  <2>1. \A k \in KidsOf[n] : rank[k] < rank[n]
    BY <1>1 DEF Descends
  <2>2. \A k \in Range(node[n].kids) : k \in Live /\ rank[k] < rank[n]
    BY <2>1, WoodKids
  <2> QED BY <1>3, <2>2
<1> QED BY <1>2, <1>3, RankedInduction

\* A recursive definition whose calls go from a node to its children is satisfied by
\* some function.
LEMMA WoodRecursion ==
  ASSUME Wood, NEW R, NEW step, Computes(step, Live, KidsOf, R)
  PROVE  \E f : Solves(f, step, Live, KidsOf, R)
<1>1. PICK rank, bound : Descends(Live, rank, bound, KidsOf)
  BY DEF Wood
<1> QED BY <1>1, RankedRecursion

-----------------------------------------------------------------------------
(* The pieces of a search.                                                 *)

\* common_prefix() is defined, and is what it says.
LEMMA CommonPrefixIs ==
  ASSUME NEW s \in Seq(Char), NEW t \in Seq(Char)
  PROVE  LET cp == CommonPrefix(s, t) IN
         /\ cp \in Nat /\ cp <= Len(s) /\ cp <= Len(t)
         /\ \A i \in 1 .. cp : s[i] = t[i]
         /\ cp = Len(s) \/ cp = Len(t) \/ s[cp + 1] # t[cp + 1]
<1> DEFINE Ends == {n \in Nat : n = Len(s) \/ n = Len(t) \/ s[n + 1] # t[n + 1]}
<1>1. Len(s) \in Ends /\ Len(t) \in Ends
  OBVIOUS
<1>2. PICK m \in Ends : \A k \in Ends : m <= k
  BY <1>1, LeastNumber
<1>3. m \in 0 .. Len(s) /\ m <= Len(t)
  BY <1>1, <1>2
<1>4. ASSUME NEW i \in 1 .. m PROVE s[i] = t[i]
  <2>1. PICK k \in Nat : i = k + 1 /\ ~ (m <= k)
    <3>1. i - 1 \in Nat /\ i = (i - 1) + 1 /\ ~ (m <= i - 1)
      BY <1>3
    <3> QED BY <3>1
  <2>2. k \notin Ends
    <3> HIDE DEF Ends
    <3> QED BY <1>2, <2>1
  <2> QED BY <2>1, <2>2
<1> DEFINE P(n) == /\ n <= Len(t)
                   /\ \A i \in 1 .. n : s[i] = t[i]
                   /\ n = Len(s) \/ n = Len(t) \/ s[n+1] # t[n+1]
<1>5. m \in 0 .. Len(s) /\ P(m)
  BY <1>2, <1>3, <1>4
<1>6. CommonPrefix(s, t) = CHOOSE n \in 0 .. Len(s) : P(n)
  BY DEF CommonPrefix
<1>7. CommonPrefix(s, t) \in 0 .. Len(s) /\ P(CommonPrefix(s, t))
  <2> HIDE DEF P
  <2> QED BY <1>5, <1>6
<1> QED BY <1>7

\* The loop over the children answers with its first hit, if there is one.
LEMMA FirstHitIs ==
  ASSUME NEW n \in Nat, NEW answers, DOMAIN answers = 1 .. n, NEW otherwise
  PROVE  \/ /\ FirstHit(answers, otherwise) = otherwise
            /\ \A j \in 1 .. n : ~ IsHit(answers[j])
         \/ \E j \in 1 .. n : /\ FirstHit(answers, otherwise) = answers[j]
                             /\ IsHit(answers[j])
                             /\ \A k \in 1 .. j - 1 : ~ IsHit(answers[k])
<1> DEFINE hits == {j \in 1 .. n : IsHit(answers[j])}
<1>1. FirstHit(answers, otherwise) = IF hits = {} THEN otherwise ELSE answers[First(hits)]
  BY DEF FirstHit
<1>2. CASE hits = {}
  <2>1. \A j \in 1 .. n : ~ IsHit(answers[j])
    BY <1>2
  <2> QED BY <1>1, <1>2, <2>1
<1>3. CASE hits # {}
  <2>1. hits \in SUBSET Nat
    OBVIOUS
  <2>2. First(hits) \in hits /\ \A k \in hits : First(hits) <= k
    <3> HIDE DEF hits
    <3> QED BY <1>3, <2>1, LeastNumber DEF First
  <2>3. \A k \in 1 .. First(hits) - 1 : k \notin hits /\ k \in 1 .. n
    BY <2>1, <2>2
  <2> QED BY <1>1, <1>3, <2>2, <2>3
<1> QED BY <1>2, <1>3

\* So it answers with one of a set that holds them all.
LEMMA FirstHitIn ==
  ASSUME NEW n \in Nat, NEW answers, DOMAIN answers = 1 .. n, NEW otherwise,
         NEW A, otherwise \in A, \A j \in 1 .. n : answers[j] \in A
  PROVE  FirstHit(answers, otherwise) \in A
BY FirstHitIs

\* What a search may answer.
Answer == [ptr : Live \cup {NoPtr}, pms : Nat, matched : BOOLEAN]

\* What the children of a node may be asked, after a part of the key.
LEMMA ChildAsked ==
  ASSUME Wood, NEW n \in Live, NEW key \in Seq(Char), NEW i \in 0 .. Len(key)
  PROVE  LET x == node[n]  cp == CommonPrefix(x.frag, Drop(key, i)) IN
         /\ x.frag \in Seq(Char) /\ Drop(key, i) \in Seq(Char)
         /\ Len(Drop(key, i)) = Len(key) - i
         /\ \A j \in 1 .. Len(key) - i : Drop(key, i)[j] = key[i + j]
         /\ cp \in Nat /\ i + cp \in 0 .. Len(key)
         /\ x.kids \in Seq(Node) /\ Len(x.kids) \in Nat /\ DOMAIN x.kids = 1 .. Len(x.kids)
         /\ \A j \in 1 .. Len(x.kids) : x.kids[j] \in Range(x.kids) /\ x.kids[j] \in Live
<1> DEFINE x == node[n]  rest == Drop(key, i)  cp == CommonPrefix(x.frag, rest)
<1>1. x.frag \in Seq(Char) /\ x.kids \in Seq(Node)
  BY DEF Wood, HeapTypeOK, Fields
<1>2. /\ rest \in Seq(Char) /\ Len(rest) = Len(key) - i
      /\ \A j \in 1 .. Len(key) - i : rest[j] = key[i + j]
  BY DropType DEF Drop
<1>3. cp \in Nat /\ cp <= Len(rest)
  BY <1>1, <1>2, CommonPrefixIs
<1>4. i + cp \in 0 .. Len(key)
  <2> HIDE DEF cp, rest
  <2> QED BY <1>2, <1>3
<1>5. \A j \in 1 .. Len(x.kids) : x.kids[j] \in Range(x.kids) /\ x.kids[j] \in Live
  BY <1>1, WoodKids DEF Range
<1> QED BY <1>1, <1>2, <1>3, <1>4, <1>5

-----------------------------------------------------------------------------
(* Both searches satisfy their equations.                                  *)

\* What the functions that search for a key return.
Asked(key)    == [0 .. Len(key) -> Answer]
LocAnswer     == [ptr : Live \cup {NoPtr}, pms : Nat, matched : BOOLEAN, dad : Live \cup {NoPtr}]
LocAsked(key) == [0 .. Len(key) -> [Live \cup {NoPtr} -> LocAnswer]]

\* A node's answer is an answer, and depends on those of its children alone.
LEMMA FindAtType ==
  ASSUME Wood, NEW n \in Live, NEW key \in Seq(Char), NEW i \in 0 .. Len(key),
         NEW g, \A k \in Range(node[n].kids) : g[k] \in Asked(key)
  PROVE  FindAt(n, key, i, g) \in Answer
<1> DEFINE x  == node[n]
           cp == CommonPrefix(x.frag, Drop(key, i))
           answers == [j \in DOMAIN x.kids |-> g[x.kids[j]][i + cp]]
<1>1. cp \in Nat /\ i + cp \in 0 .. Len(key)
      /\ Len(x.kids) \in Nat /\ DOMAIN x.kids = 1 .. Len(x.kids)
      /\ \A j \in 1 .. Len(x.kids) : x.kids[j] \in Range(x.kids)
  BY ChildAsked
<1>2. \A j \in 1 .. Len(x.kids) : answers[j] \in Answer
  <2> HIDE DEF cp
  <2> QED BY <1>1 DEF Asked
<1>3. ASSUME NEW other \in Answer PROVE FirstHit(answers, other) \in Answer
  <2>1. DOMAIN answers = 1 .. Len(x.kids)
    BY <1>1
  <2> HIDE DEF answers
  <2> QED BY <1>1, <1>2, <2>1, FirstHitIn
<1>4. Miss \in Answer /\ Matched(n) \in Answer /\ Partial(n, cp) \in Answer
  <2> HIDE DEF cp
  <2> QED BY <1>1 DEF Miss, Matched, Partial, Answer
<1>5. FindAt(n, key, i, g) \in {Miss, Matched(n), Partial(n, cp), FirstHit(answers, Miss),
                                FirstHit(answers, Partial(n, cp))}
  BY <1>1 DEF FindAt
<1> HIDE DEF answers, cp
<1> QED BY <1>3, <1>4, <1>5

\* What a call finds depends on the calls below it alone.
LEMMA FindAtSame ==
  ASSUME Wood, NEW n \in Live, NEW key \in Seq(Char), NEW i \in 0 .. Len(key),
         NEW f, NEW g, \A k \in Range(node[n].kids) : f[k] = g[k]
  PROVE  FindAt(n, key, i, f) = FindAt(n, key, i, g)
<1> DEFINE x  == node[n]
           cp == CommonPrefix(x.frag, Drop(key, i))
           answers(h) == [j \in DOMAIN x.kids |-> h[x.kids[j]][i + cp]]
<1>1. DOMAIN x.kids = 1 .. Len(x.kids) /\ \A j \in 1 .. Len(x.kids) : x.kids[j] \in Range(x.kids)
  BY ChildAsked
<1>2. answers(f) = answers(g)
  BY <1>1
<1> QED BY <1>2 DEF FindAt

\* f answers for every node and every part of the key as fast_find_internal does.
Searches(f, key) ==
  /\ f \in [Live -> Asked(key)]
  /\ \A n \in Live, i \in 0 .. Len(key) : f[n][i] = FindAt(n, key, i, f)

\* The search that Find defines exists.
LEMMA FindIs ==
  ASSUME Wood, NEW top \in Live, NEW key \in Seq(Char)
  PROVE  \E f : Searches(f, key) /\ Find(top, key) = f[top][0]
<1> DEFINE I == 0 .. Len(key)
           step == [n \in Live |-> [g \in [KidsOf[n] -> Asked(key)] |->
                      [i \in I |-> FindAt(n, key, i, g)]]]
           Def(f) == [n \in Live |-> [i \in I |-> FindAt(n, key, i, f)]]
<1>1. Computes(step, Live, KidsOf, Asked(key))
  <2> SUFFICES ASSUME NEW n \in Live, NEW g \in [KidsOf[n] -> Asked(key)]
               PROVE  step[n][g] \in Asked(key)
    BY DEF Computes
  <2>1. \A i \in I : FindAt(n, key, i, g) \in Answer
    BY FindAtType DEF KidsOf
  <2>2. step[n][g] = [i \in I |-> FindAt(n, key, i, g)]
    OBVIOUS
  <2> QED BY <2>1, <2>2 DEF Asked
<1>2. PICK f : Solves(f, step, Live, KidsOf, Asked(key))
  <2> HIDE DEF step
  <2> QED BY <1>1, WoodRecursion
<1>3. ASSUME NEW n \in Live PROVE f[n] = [i \in I |-> FindAt(n, key, i, f)]
  <2> DEFINE g == [k \in KidsOf[n] |-> f[k]]
  <2>1. KidsOf[n] = Range(node[n].kids) /\ KidsOf[n] \subseteq Live
    BY WoodKids
  <2>2. g \in [KidsOf[n] -> Asked(key)] /\ \A k \in KidsOf[n] : g[k] = f[k]
    BY <1>2, <2>1 DEF Solves
  <2>3. f[n] = step[n][g]
    <3> HIDE DEF g, step
    <3> QED BY <1>2, <2>2 DEF Solves
  <2>4. f[n] = [i \in I |-> FindAt(n, key, i, g)]
    <3> HIDE DEF g
    <3> QED BY <2>2, <2>3
  <2>5. \A i \in I : FindAt(n, key, i, g) = FindAt(n, key, i, f)
    <3>1. \A k \in Range(node[n].kids) : g[k] = f[k]
      BY <2>1, <2>2
    <3> HIDE DEF g
    <3> QED BY <3>1, FindAtSame
  <2> QED BY <2>4, <2>5
<1>4. f \in [Live -> Asked(key)]
  BY <1>2 DEF Solves
<1>5. f = Def(f)
  BY <1>3, <1>4
<1> DEFINE s == CHOOSE h : h = Def(h)
<1>6. s = Def(s)
  <2> HIDE DEF Def
  <2> QED BY <1>5
<1>7. Find(top, key) = s[top][0]
  BY DEF Find
<1> HIDE DEF s
<1>8. DOMAIN s = Live /\ \A n \in Live : s[n] = [i \in I |-> FindAt(n, key, i, s)]
  BY <1>6
<1>9. \A n \in Live : s[n] \in Asked(key)
  <2> DEFINE T == {n \in Live : s[n] \in Asked(key)}
  <2>1. ASSUME NEW n \in Live, Range(node[n].kids) \subseteq T PROVE n \in T
    <3>1. \A i \in I : FindAt(n, key, i, s) \in Answer
      BY <2>1, FindAtType
    <3> QED BY <1>8, <3>1 DEF Asked
  <2>2. T = Live
    <3> HIDE DEF T
    <3>1. T \in SUBSET Live
      BY DEF T
    <3> QED BY <2>1, <3>1, WoodInduction
  <2> QED BY <2>2
<1>10. Searches(s, key)
  <2>1. s = [n \in Live |-> s[n]]
    BY <1>6
  <2>2. s \in [Live -> Asked(key)]
    BY <1>9, <2>1
  <2> QED BY <1>8, <2>2 DEF Searches
<1> QED BY <1>7, <1>10

\* On a tree, from its root.
LEMMA FindAtRoot ==
  ASSUME Tree, NEW key \in Seq(Char)
  PROVE  \E f : Searches(f, key) /\ Find(Root, key) = f[Root][0]
<1>1. Root \in Live
  BY DEF Tree, TypeOK
<1> QED BY <1>1, TreeIsWood, FindIs

\* The same of locate_internal.
LEMMA LocateAtType ==
  ASSUME Wood, NEW n \in Live, NEW key \in Seq(Char), NEW i \in 0 .. Len(key),
         NEW dad \in Live \cup {NoPtr},
         NEW g, \A k \in Range(node[n].kids) : g[k] \in LocAsked(key)
  PROVE  LocateAt(n, key, i, dad, g) \in LocAnswer
<1> DEFINE x  == node[n]
           cp == CommonPrefix(x.frag, Drop(key, i))
           answers == [j \in DOMAIN x.kids |-> g[x.kids[j]][i + cp][n]]
<1>1. cp \in Nat /\ i + cp \in 0 .. Len(key)
      /\ Len(x.kids) \in Nat /\ DOMAIN x.kids = 1 .. Len(x.kids)
      /\ \A j \in 1 .. Len(x.kids) : x.kids[j] \in Range(x.kids)
  BY ChildAsked
<1>2. ASSUME NEW j \in 1 .. Len(x.kids) PROVE answers[j] \in LocAnswer
  <2>1. answers[j] = g[x.kids[j]][i + cp][n] /\ g[x.kids[j]] \in LocAsked(key)
    BY <1>1
  <2> HIDE DEF answers, cp
  <2> QED BY <1>1, <2>1 DEF LocAsked
<1>3. ASSUME NEW other \in LocAnswer PROVE FirstHit(answers, other) \in LocAnswer
  <2>1. DOMAIN answers = 1 .. Len(x.kids)
    BY <1>1
  <2> HIDE DEF answers
  <2> QED BY <1>1, <1>2, <2>1, FirstHitIn
<1>4. At(Miss, NoPtr) \in LocAnswer /\ At(Matched(n), dad) \in LocAnswer
      /\ At(Partial(n, cp), dad) \in LocAnswer
  <2> HIDE DEF cp
  <2> QED BY <1>1 DEF Miss, Matched, Partial, At, LocAnswer
<1>5. LocateAt(n, key, i, dad, g) \in
        {At(Miss, NoPtr), At(Matched(n), dad), At(Partial(n, cp), dad),
         FirstHit(answers, At(Miss, NoPtr)), FirstHit(answers, At(Partial(n, cp), dad))}
  BY DEF LocateAt
<1> HIDE DEF answers, cp
<1> QED BY <1>3, <1>4, <1>5

\* The same of locate_internal.
LEMMA LocateAtSame ==
  ASSUME Wood, NEW n \in Live, NEW key \in Seq(Char), NEW i \in 0 .. Len(key), NEW dad,
         NEW f, NEW g, \A k \in Range(node[n].kids) : f[k] = g[k]
  PROVE  LocateAt(n, key, i, dad, f) = LocateAt(n, key, i, dad, g)
<1> DEFINE x  == node[n]
           cp == CommonPrefix(x.frag, Drop(key, i))
           answers(h) == [j \in DOMAIN x.kids |-> h[x.kids[j]][i + cp][n]]
<1>1. DOMAIN x.kids = 1 .. Len(x.kids) /\ \A j \in 1 .. Len(x.kids) : x.kids[j] \in Range(x.kids)
  BY ChildAsked
<1>2. answers(f) = answers(g)
  BY <1>1
<1> QED BY <1>2 DEF LocateAt

Locates(f, key) ==
  /\ f \in [Live -> LocAsked(key)]
  /\ \A n \in Live, i \in 0 .. Len(key), dad \in Live \cup {NoPtr} :
       f[n][i][dad] = LocateAt(n, key, i, dad, f)

\* The search that Locate defines exists.
LEMMA LocateIs ==
  ASSUME Wood, NEW top \in Live, NEW key \in Seq(Char)
  PROVE  \E f : Locates(f, key) /\ Locate(top, key) = f[top][0][NoPtr]
<1> DEFINE I == 0 .. Len(key)
           D == Live \cup {NoPtr}
           table(n, g) == [i \in I |-> [dad \in D |-> LocateAt(n, key, i, dad, g)]]
           step == [n \in Live |-> [g \in [KidsOf[n] -> LocAsked(key)] |-> table(n, g)]]
           Def(f) == [n \in Live |-> table(n, f)]
<1>1. ASSUME NEW n \in Live, NEW g, \A k \in Range(node[n].kids) : g[k] \in LocAsked(key)
      PROVE  table(n, g) \in LocAsked(key)
  <2>1. \A i \in I, dad \in D : LocateAt(n, key, i, dad, g) \in LocAnswer
    BY <1>1, LocateAtType
  <2> QED BY <2>1 DEF LocAsked
<1>2. Computes(step, Live, KidsOf, LocAsked(key))
  <2> SUFFICES ASSUME NEW n \in Live, NEW g \in [KidsOf[n] -> LocAsked(key)]
               PROVE  step[n][g] \in LocAsked(key)
    BY DEF Computes
  <2>1. \A k \in Range(node[n].kids) : g[k] \in LocAsked(key)
    BY DEF KidsOf
  <2>2. step[n][g] = table(n, g)
    <3> HIDE DEF table
    <3> QED OBVIOUS
  <2> QED BY <1>1, <2>1, <2>2
<1>3. PICK f : Solves(f, step, Live, KidsOf, LocAsked(key))
  <2> HIDE DEF step
  <2> QED BY <1>2, WoodRecursion
<1>4. ASSUME NEW n \in Live PROVE f[n] = table(n, f)
  <2> DEFINE g == [k \in KidsOf[n] |-> f[k]]
  <2>1. KidsOf[n] = Range(node[n].kids) /\ KidsOf[n] \subseteq Live
    BY WoodKids
  <2>2. g \in [KidsOf[n] -> LocAsked(key)] /\ \A k \in KidsOf[n] : g[k] = f[k]
    BY <1>3, <2>1 DEF Solves
  <2>3. f[n] = step[n][g]
    <3> HIDE DEF g, step
    <3> QED BY <1>3, <2>2 DEF Solves
  <2>4. f[n] = table(n, g)
    <3> HIDE DEF g, table
    <3> QED BY <2>2, <2>3
  <2>5. \A i \in I, dad \in D : LocateAt(n, key, i, dad, g) = LocateAt(n, key, i, dad, f)
    <3>1. \A k \in Range(node[n].kids) : g[k] = f[k]
      BY <2>1, <2>2
    <3> HIDE DEF g
    <3> QED BY <3>1, LocateAtSame
  <2>6. table(n, g) = table(n, f)
    <3> HIDE DEF g
    <3> QED BY <2>5
  <2> QED BY <2>4, <2>6
<1>5. f = Def(f)
  <2>1. f \in [Live -> LocAsked(key)]
    BY <1>3 DEF Solves
  <2> HIDE DEF table
  <2> QED BY <1>4, <2>1
<1> DEFINE s == CHOOSE h : h = Def(h)
<1>6. s = Def(s)
  <2> HIDE DEF Def
  <2> QED BY <1>5
<1>7. Locate(top, key) = s[top][0][NoPtr]
  BY DEF Locate
<1> HIDE DEF s
<1>8. DOMAIN s = Live /\ \A n \in Live : s[n] = table(n, s)
  <2> HIDE DEF table
  <2> QED BY <1>6
<1>9. \A n \in Live : s[n] \in LocAsked(key)
  <2> DEFINE T == {n \in Live : s[n] \in LocAsked(key)}
  <2>1. ASSUME NEW n \in Live, Range(node[n].kids) \subseteq T PROVE n \in T
    <3>1. \A k \in Range(node[n].kids) : s[k] \in LocAsked(key)
      BY <2>1
    <3> HIDE DEF table
    <3> QED BY <1>1, <1>8, <3>1
  <2>2. T = Live
    <3> HIDE DEF T
    <3>1. T \in SUBSET Live
      BY DEF T
    <3> QED BY <2>1, <3>1, WoodInduction
  <2> QED BY <2>2
<1>10. Locates(s, key)
  <2>1. s = [n \in Live |-> s[n]]
    <3> HIDE DEF table
    <3> QED BY <1>6
  <2>2. s \in [Live -> LocAsked(key)]
    BY <1>9, <2>1
  <2> QED BY <1>8, <2>2 DEF Locates
<1> QED BY <1>7, <1>10

-----------------------------------------------------------------------------
(* The two searches agree.                                                 *)

\* What a node is asked about: the rest of the key, what its fragment shares with it, and
\* the answers of its children.
Rest(key, i)      == Drop(key, i)
Shared(n, key, i) == CommonPrefix(node[n].frag, Rest(key, i))
Answers(f, n, key, i) ==
  [j \in DOMAIN node[n].kids |-> f[node[n].kids[j]][i + Shared(n, key, i)]]

\* fast_find_internal decides on lengths what locate_internal decides on strings.
LEMMA FindAtCases ==
  ASSUME Wood, NEW n \in Live, NEW key \in Seq(Char), NEW i \in 0 .. Len(key), NEW f
  PROVE  FindAt(n, key, i, f) =
           IF node[n].frag = <<>> THEN FirstHit(Answers(f, n, key, i), Miss)
           ELSE IF Shared(n, key, i) = 0 THEN Miss
           ELSE IF node[n].frag = Rest(key, i) THEN Matched(n)
           ELSE IF Shared(n, key, i) < Len(node[n].frag) /\ Len(Rest(key, i)) < Len(node[n].frag)
             THEN Partial(n, Shared(n, key, i))
           ELSE FirstHit(Answers(f, n, key, i), Partial(n, Shared(n, key, i)))
<1> DEFINE frag == node[n].frag
           rest == Rest(key, i)
           flen == Len(frag)
           plen == Len(key) - i
           cp   == Shared(n, key, i)
<1>1. /\ frag \in Seq(Char) /\ rest \in Seq(Char) /\ Len(rest) = plen
      /\ flen \in Nat /\ plen \in Nat
  <2>1. /\ frag \in Seq(Char) /\ Drop(key, i) \in Seq(Char)
        /\ Len(Drop(key, i)) = Len(key) - i
    BY ChildAsked
  <2>2. plen \in Nat
    OBVIOUS
  <2> QED BY <2>1, <2>2 DEF Rest
<1>2. /\ cp \in Nat /\ cp <= flen /\ cp <= plen
      /\ \A j \in 1 .. cp : frag[j] = rest[j]
      /\ cp = flen \/ cp = plen \/ frag[cp + 1] # rest[cp + 1]
  <2>1. cp = CommonPrefix(frag, rest)
    BY DEF Shared
  <2> HIDE DEF cp, frag, rest
  <2> QED BY <1>1, <2>1, CommonPrefixIs
<1>3. FindAt(n, key, i, f) =
        CASE flen = 0             -> FirstHit(Answers(f, n, key, i), Miss)
          [] flen > 0 /\ cp = 0   -> Miss
          [] cp > 0 /\ cp = flen /\ cp = plen   -> Matched(n)
          [] cp > 0 /\ cp < flen /\ plen < flen -> Partial(n, cp)
          [] OTHER                -> FirstHit(Answers(f, n, key, i), Partial(n, cp))
  BY DEF FindAt, Answers, Shared, Rest
<1>4. (flen > 0 <=> flen # 0) /\ (cp > 0 <=> cp # 0) /\ (flen = 0 => cp = 0)
      /\ (cp = flen => ~ (cp < flen))
  <2> HIDE DEF cp, flen, frag
  <2> QED BY <1>1, <1>2
<1>5. (frag = <<>> <=> flen = 0) /\ (frag = rest <=> cp = flen /\ cp = plen)
  <2> HIDE DEF cp, rest, frag
  <2> QED BY <1>1, <1>2
<1>6. FindAt(n, key, i, f) =
        IF flen = 0 THEN FirstHit(Answers(f, n, key, i), Miss)
        ELSE IF cp = 0 THEN Miss
        ELSE IF cp = flen /\ cp = plen THEN Matched(n)
        ELSE IF cp < flen /\ plen < flen THEN Partial(n, cp)
        ELSE FirstHit(Answers(f, n, key, i), Partial(n, cp))
  <2> HIDE DEF cp, flen, plen
  <2> QED BY <1>3, <1>4, Zenon
<1> HIDE DEF cp, rest, frag
<1> QED BY <1>1, <1>5, <1>6 DEF cp, rest, frag

SameAnswer(p, q) == p.ptr = q.ptr /\ p.pms = q.pms /\ p.matched = q.matched

SameAnswers(a, b, n) == /\ DOMAIN a = 1 .. n /\ DOMAIN b = 1 .. n
                        /\ \A j \in 1 .. n : SameAnswer(a[j], b[j])

EndAlike(a, b, n, o, p) ==
  \/ FirstHit(a, o) = o /\ FirstHit(b, p) = p
  \/ \E j \in 1 .. n : /\ FirstHit(a, o) = a[j] /\ FirstHit(b, p) = b[j]
                       /\ IsHit(a[j]) /\ IsHit(b[j])

\* Loops over children that give the same answers end at the same child.
LEMMA FirstHitsAgree ==
  ASSUME NEW n \in Nat, NEW a, NEW b, SameAnswers(a, b, n), NEW o, NEW p
  PROVE  EndAlike(a, b, n, o, p)
<1> DEFINE hits(c) == {j \in 1 .. n : IsHit(c[j])}
<1>1. hits(a) = hits(b)
  BY DEF SameAnswers, SameAnswer, IsHit
<1>2. /\ FirstHit(a, o) = IF hits(a) = {} THEN o ELSE a[First(hits(a))]
      /\ FirstHit(b, p) = IF hits(b) = {} THEN p ELSE b[First(hits(b))]
  BY DEF FirstHit, SameAnswers
<1>3. CASE hits(a) = {}
  BY <1>1, <1>2, <1>3 DEF EndAlike
<1>4. CASE hits(a) # {}
  <2>1. hits(a) \in SUBSET Nat
    OBVIOUS
  <2>2. First(hits(a)) \in hits(a)
    <3> HIDE DEF hits
    <3> QED BY <1>4, <2>1, LeastNumber DEF First
  <2>3. FirstHit(a, o) = a[First(hits(a))] /\ FirstHit(b, p) = b[First(hits(a))]
    <3> HIDE DEF hits
    <3> QED BY <1>1, <1>2, <1>4
  <2>4. First(hits(a)) \in hits(b)
    BY <1>1, <2>2
  <2> QED BY <2>2, <2>3, <2>4 DEF EndAlike
<1> QED BY <1>3, <1>4

\* The answer names a node and the node that has it as a child.
Hangs(r) == r.dad \in Live /\ r.ptr \in Range(node[r.dad].kids)

\* What the two searches answer at node n, asked by dad: the same, and a hit is n itself
\* or hangs from the parent reported.
Agree(p, q, n, dad) ==
  /\ SameAnswer(p, q)
  /\ IsHit(p) => Hangs(q) \/ (q.ptr = n /\ q.dad = dad /\ node[n].frag # <<>>)

\* Searches that agree at the children of a node agree at the node.
LEMMA AgreeAt ==
  ASSUME Wood, NEW n \in Live, NEW key \in Seq(Char), NEW i \in 0 .. Len(key),
         NEW dad, NEW f, NEW g,
         \A k \in Range(node[n].kids), j \in 0 .. Len(key) : Agree(f[k][j], g[k][j][n], k, n)
  PROVE  Agree(FindAt(n, key, i, f), LocateAt(n, key, i, dad, g), n, dad)
<1> DEFINE x  == node[n]
           cp == Shared(n, key, i)
           as == Answers(f, n, key, i)
           bs == [j \in DOMAIN x.kids |-> g[x.kids[j]][i + cp][n]]
           p  == FindAt(n, key, i, f)
           q  == LocateAt(n, key, i, dad, g)
<1>1. /\ i + cp \in 0 .. Len(key) /\ cp \in Nat
      /\ Len(x.kids) \in Nat /\ DOMAIN x.kids = 1 .. Len(x.kids)
      /\ \A j \in 1 .. Len(x.kids) : x.kids[j] \in Range(x.kids)
  BY ChildAsked DEF Shared, Rest
<1>2. DOMAIN as = 1 .. Len(x.kids) /\ DOMAIN bs = 1 .. Len(x.kids)
  BY <1>1 DEF Answers
<1>3. \A j \in 1 .. Len(x.kids) : /\ as[j] = f[x.kids[j]][i + cp]
                                 /\ bs[j] = g[x.kids[j]][i + cp][n]
  BY <1>1 DEF Answers
<1>4. \A j \in 1 .. Len(x.kids) : Agree(as[j], bs[j], x.kids[j], n)
  <2> HIDE DEF as, bs, cp
  <2> QED BY <1>1, <1>3
<1>5. \A j \in 1 .. Len(x.kids) : SameAnswer(as[j], bs[j]) /\ (IsHit(as[j]) => Hangs(bs[j]))
  <2> HIDE DEF as, bs
  <2> QED BY <1>1, <1>4 DEF Agree, Hangs
<1>6. ASSUME NEW o, NEW op, Agree(o, op, n, dad)
      PROVE  Agree(FirstHit(as, o), FirstHit(bs, op), n, dad)
  <2> HIDE DEF as, bs
  <2>1. \/ FirstHit(as, o) = o /\ FirstHit(bs, op) = op
        \/ \E j \in 1 .. Len(x.kids) :
             /\ FirstHit(as, o) = as[j] /\ FirstHit(bs, op) = bs[j]
             /\ IsHit(as[j]) /\ IsHit(bs[j])
    <3> DEFINE N == Len(x.kids)
    <3>1. SameAnswers(as, bs, N)
      BY <1>2, <1>5 DEF SameAnswers
    <3>2. N \in Nat
      BY <1>1
    <3> HIDE DEF N
    <3>3. EndAlike(as, bs, N, o, op)
      BY <3>1, <3>2, FirstHitsAgree
    <3> QED BY <3>3 DEF N, EndAlike
  <2>2. CASE FirstHit(as, o) = o /\ FirstHit(bs, op) = op
    BY <1>6, <2>2
  <2>3. CASE \E j \in 1 .. Len(x.kids) :
               /\ FirstHit(as, o) = as[j] /\ FirstHit(bs, op) = bs[j]
               /\ IsHit(as[j]) /\ IsHit(bs[j])
    BY <1>5, <2>3 DEF Agree
  <2> QED BY <2>1, <2>2, <2>3
<1>7. Agree(Miss, At(Miss, NoPtr), n, dad)
  BY DEF Agree, SameAnswer, Miss, At, IsHit
<1>8. x.frag # <<>> => /\ Agree(Matched(n), At(Matched(n), dad), n, dad)
                      /\ Agree(Partial(n, cp), At(Partial(n, cp), dad), n, dad)
  <2> HIDE DEF cp
  <2> QED BY <1>1 DEF Agree, SameAnswer, Matched, Partial, At, IsHit
<1>9. p = IF x.frag = <<>> THEN FirstHit(as, Miss)
          ELSE IF cp = 0 THEN Miss
          ELSE IF x.frag = Rest(key, i) THEN Matched(n)
          ELSE IF cp < Len(x.frag) /\ Len(Rest(key, i)) < Len(x.frag) THEN Partial(n, cp)
          ELSE FirstHit(as, Partial(n, cp))
  BY FindAtCases
<1>10. q = IF x.frag = <<>> THEN FirstHit(bs, At(Miss, NoPtr))
           ELSE IF cp = 0 THEN At(Miss, NoPtr)
           ELSE IF x.frag = Rest(key, i) THEN At(Matched(n), dad)
           ELSE IF cp < Len(x.frag) /\ Len(Rest(key, i)) < Len(x.frag) THEN At(Partial(n, cp), dad)
           ELSE FirstHit(bs, At(Partial(n, cp), dad))
  BY DEF LocateAt, Shared, Rest
<1> HIDE DEF as, bs, p, q, cp
<1>11. CASE x.frag = <<>>
  BY <1>6, <1>7, <1>9, <1>10, <1>11 DEF p, q
<1>12. CASE x.frag # <<>>
  BY <1>6, <1>7, <1>8, <1>9, <1>10, <1>12 DEF p, q
<1> QED BY <1>11, <1>12

\* fast_find and locate agree on every heap without cycles, from every node that has no
\* fragment, on every key.
LEMMA AgreeBelow ==
  ASSUME Wood, NEW top \in Live, node[top].frag = <<>>, NEW key \in Seq(Char)
  PROVE  /\ SameAnswer(Find(top, key), Locate(top, key))
         /\ Find(top, key) \in Answer /\ Locate(top, key) \in LocAnswer
         /\ IsHit(Find(top, key)) => Hangs(Locate(top, key))
<1>2. PICK f : Searches(f, key) /\ Find(top, key) = f[top][0]
  BY FindIs
<1>3. PICK g : Locates(g, key) /\ Locate(top, key) = g[top][0][NoPtr]
  BY LocateIs
<1> DEFINE D == Live \cup {NoPtr}
           P(n) == \A i \in 0 .. Len(key), dad \in D : Agree(f[n][i], g[n][i][dad], n, dad)
           T == {n \in Live : P(n)}
<1>4. ASSUME NEW n \in Live, Range(node[n].kids) \subseteq T PROVE n \in T
  <2> SUFFICES ASSUME NEW i \in 0 .. Len(key), NEW dad \in D
               PROVE  Agree(f[n][i], g[n][i][dad], n, dad)
    OBVIOUS
  <2>1. \A k \in Range(node[n].kids), j \in 0 .. Len(key) : Agree(f[k][j], g[k][j][n], k, n)
    BY <1>4
  <2>2. Agree(FindAt(n, key, i, f), LocateAt(n, key, i, dad, g), n, dad)
    BY <2>1, AgreeAt
  <2>3. f[n][i] = FindAt(n, key, i, f) /\ g[n][i][dad] = LocateAt(n, key, i, dad, g)
    BY <1>2, <1>3 DEF Searches, Locates
  <2> QED BY <2>2, <2>3
<1>5. T = Live
  <2> HIDE DEF T
  <2>1. T \in SUBSET Live
    BY DEF T
  <2> QED BY <1>4, <2>1, WoodInduction
<1>6. Agree(Find(top, key), Locate(top, key), top, NoPtr)
  <2>1. 0 \in 0 .. Len(key)
    OBVIOUS
  <2> QED BY <1>2, <1>3, <1>5, <2>1
<1>7. Find(top, key) \in Answer /\ Locate(top, key) \in LocAnswer
  <2>1. 0 \in 0 .. Len(key)
    OBVIOUS
  <2> QED BY <1>2, <1>3, <2>1 DEF Searches, Asked, Locates, LocAsked
<1> QED BY <1>6, <1>7 DEF Agree

\* They do on every heap that is a tree.
LEMMA AgreeOnKey ==
  ASSUME SearchInv, NEW key \in Seq(Char)
  PROVE  /\ SameAnswer(Find(Root, key), Locate(Root, key))
         /\ Find(Root, key) \in Answer /\ Locate(Root, key) \in LocAnswer
         /\ IsHit(Find(Root, key)) => Hangs(Locate(Root, key))
<1>1. Tree /\ Root \in Live /\ node[Root].frag = <<>>
  BY DEF SearchInv, IInv, Tree, TypeOK, HeapTypeOK, RootHasNoTitle
<1> QED BY <1>1, TreeIsWood, AgreeBelow

\* Whatever calls have been made, the two copies of the search agree on every key, and
\* the parent remove deletes from is the parent of the node it found.
THEOREM SearchesAgreeAlways == Spec => []SearchesAgree
<1>1. ASSUME SearchInv PROVE SearchesAgree
  <2>1. ASSUME NEW key \in Key
        PROVE  /\ SameAnswer(Find(Root, key), Locate(Root, key))
               /\ IsHit(Find(Root, key)) => Hangs(Locate(Root, key))
    <3>1. key \in Seq(Char)
      BY KeyAssumption
    <3> QED BY <1>1, <3>1, AgreeOnKey
  <2> QED BY <2>1 DEF SearchesAgree, SameAnswer, Hangs
<1> QED BY <1>1, SearchInvariant, PTL
=============================================================================
