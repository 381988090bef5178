----------------------------- MODULE WalkProofs ------------------------------
(***************************************************************************)
(* Theorems about TrieWalk: calls on keys below the node visited leave the *)
(* suspended loops of walk_internal alone; so the frames stand on a path   *)
(* of live nodes; each node is visited, and once only, as Traversal has    *)
(* it; and what size() adds up.                                            *)
(***************************************************************************)
EXTENDS TrieWalk, StoreProofs

Frame == [n : Live, next : Nat]

\* The frames are a path of live nodes from the root, and each loop stands just behind
\* the child it is in: the reference `ch` the recursion runs on is the element that it
\* was taken from, and `index` and `level` are that child's.
FramesArePath ==
  \A j \in 1 .. Len(stack) - 1 :
    /\ stack[j].next - 1 \in DOMAIN node[stack[j].n].kids
    /\ stack[j + 1].n = node[stack[j].n].kids[stack[j].next - 1]

\* The walk began at the root.
BeginsAtRoot == Walking => stack[1].n = Root

\* Between walks nothing counts as visited or as new.
NothingKept == ~ Walking => seen = {} /\ born = {}

\* The tree, the frames on it, and where they begin.
WalkInv == IInv /\ WalkTypeOK /\ FramesArePath /\ BeginsAtRoot /\ NothingKept

\* What is inductive.  That the frames stay a path rests on where searches end, and so
\* on the invariant of the store.
WalkingInv == WalkInv /\ StoreInv

\* The client's calls are calls of the trie.
LEMMA StoreCallsTrie == StoreNext => Next
  BY DEF StoreNext, StoreInsert, StoreRemove, Next

\* Those in its callback are calls of the store.
LEMMA CallbackCallsStore == Callback => StoreNext
  BY DEF Callback, CallBelow, StoreNext

\* A walk and its client keep the invariant of the tree.
LEMMA TreeStep ==
  ASSUME IInv, WalkNext
  PROVE  IInv'
<1>1. CASE Begin \/ WalkStep
  <2>1. UNCHANGED vars
    BY <1>1 DEF Begin, WalkStep, CallbackReturns, Descend, Leave, vars
  <2> QED BY <2>1, IInvStep
<1>2. CASE Callback \/ Client
  <2>1. Next
    BY <1>2, StoreCallsTrie, CallbackCallsStore DEF Client
  <2> QED BY <2>1, IInvStep
<1> QED BY <1>1, <1>2 DEF WalkNext

\* The frame on top, and its node.
LEMMA TopFrame ==
  ASSUME WalkTypeOK, Walking
  PROVE  /\ Len(stack) \in Nat /\ Len(stack) # 0
         /\ \A j \in 1 .. Len(stack) : stack[j] \in Frame
         /\ Top = stack[Len(stack)] /\ Top \in Frame
         /\ Top.n \in Live /\ Top.next \in Nat
<1>1. stack \in Seq(Frame) /\ stack # <<>>
  BY DEF WalkTypeOK, Frame, Walking
<1>2. /\ Len(stack) \in Nat /\ Len(stack) # 0
      /\ \A j \in 1 .. Len(stack) : stack[j] \in Frame
  BY <1>1
<1>3. Top = stack[Len(stack)]
  BY DEF Top, Last
<1> QED BY <1>2, <1>3 DEF Frame

\* A call puts one frame on those below it.
LEMMA EnterPushes ==
  ASSUME NEW n \in Live, NEW below \in Seq(Frame), NEW before, before \subseteq Live,
         Enter(n, below, before), WalkTypeOK, sizing' \in BOOLEAN
  PROVE  /\ stack' \in Seq(Frame)
         /\ Len(stack') = Len(below) + 1
         /\ \A j \in 1 .. Len(below) : stack'[j] = below[j]
         /\ stack'[Len(below) + 1].n = n
         /\ seen' \subseteq Live /\ count' \in Nat
<1> DEFINE calls == node[n].type # "none"
           f == [n |-> n, next |-> IF calls THEN 0 ELSE 1]
<1>1. f \in Frame /\ f.n = n
  BY DEF Frame
<1>2. stack' = Append(below, f)
  BY DEF Enter
<1>3. seen' \subseteq Live
  BY DEF Enter
<1>4. count' \in Nat
  BY DEF Enter, Counted, WalkTypeOK
<1> HIDE DEF f
<1> QED BY <1>1, <1>2, <1>3, <1>4, AppendProperties

-----------------------------------------------------------------------------
(* Keys below the node visited.                                            *)

\* A walk leaves the trie to the store.
LEMMA WalkStepIsStoreStep == [WalkNext]_walkVars => [StoreNext]_vars
<1>1. CASE Begin \/ WalkStep
  BY <1>1 DEF Begin, WalkStep, CallbackReturns, Descend, Leave, vars
<1>2. CASE Callback \/ Client
  BY <1>2, CallbackCallsStore DEF Client
<1>3. CASE UNCHANGED walkVars
  BY <1>3 DEF walkVars, vars
<1> QED BY <1>1, <1>2, <1>3 DEF WalkNext

\* Down the frames the paths get longer.
LEMMA FramesGoDown ==
  ASSUME WalkingInv, NEW j \in 1 .. Len(stack) - 1
  PROVE  Len(node[stack[j].n].path) < Len(node[stack[Len(stack)].n].path)
<1> DEFINE L == Len(stack)
           g == [i \in 1 .. L |-> Len(node[stack[i].n].path)]
<1>1. Grove /\ FramesArePath /\ stack \in Seq(Frame)
  BY StoreInvMeans, StoreIsGrove DEF WalkingInv, WalkInv, WalkTypeOK, Frame
<1>2. L \in Nat /\ \A i \in 1 .. L : stack[i].n \in Live
  <2>1. \A i \in 1 .. L : stack[i] \in Frame
    BY <1>1
  <2> QED BY <1>1, <2>1 DEF Frame
<1>3. \A n \in Live : Len(node[n].path) \in Nat
  <2>1. \A n \in Live : node[n].path \in Seq(Char)
    BY <1>1, NodePath
  <2> QED BY <2>1
<1>4. g \in [1 .. L -> Nat]
  BY <1>2, <1>3
<1>5. ASSUME NEW i \in 1 .. L - 1 PROVE g[i] < g[i + 1]
  <2>1. stack[i + 1].n \in Range(node[stack[i].n].kids)
    BY <1>1 DEF FramesArePath, Range
  <2>2. i \in 1 .. L /\ i + 1 \in 1 .. L
    BY <1>2
  <2> DEFINE n == stack[i].n  k == stack[i + 1].n
  <2>3. Start(k) = Len(node[n].path) /\ Start(k) \in Nat
        /\ Len(node[k].frag) \in Nat \ {0}
        /\ Len(node[k].path) = Start(k) + Len(node[k].frag)
    BY <1>1, <1>2, <2>1, <2>2, KidPath
  <2>4. Len(node[n].path) < Len(node[k].path)
    <3>1. \A a \in Nat, b \in Nat \ {0} : a < a + b
      OBVIOUS
    <3> HIDE DEF n, k, L, g
    <3> QED BY <2>3, <3>1
  <2> QED BY <2>2, <2>4
<1>6. j \in 1 .. L /\ L \in 1 .. L /\ j < L
  BY <1>2
<1> HIDE DEF g, L
<1>7. g[j] < g[L]
  BY <1>2, <1>4, <1>5, <1>6, StepsUp
<1> QED BY <1>6, <1>7 DEF g, L

\* The search for such a key ends in or below that node: the vectors an insert adds to
\* and a remove deletes from are in no loop, and neither is a node that a remove frees.
LEMMA SearchEndsBelow ==
  ASSUME WalkingInv, InCallback, NEW key \in Key, IsStrictPrefix(node[Top.n].path, key)
  PROVE  /\ ~ Find(Root, key).matched
              => (IF IsHit(Find(Root, key)) THEN Find(Root, key).ptr ELSE Root) \notin InLoop
         /\ Locate(Root, key).matched \/ EndsInDelim(Locate(Root, key))
              => /\ Locate(Root, key).dad \notin InLoop
                 /\ InLoop \cap Subtree(Locate(Root, key).ptr) = {}
<1> DEFINE n == Top.n  L == Len(stack)  f == Find(Root, key)  l == Locate(Root, key)
<1>1. /\ Store /\ Grove /\ WalkTypeOK /\ SearchInv /\ Walking /\ BeginsAtRoot
      /\ Root \in Live /\ ~ Titled(Root) /\ Live = Subtree(Root)
  BY StoreInvMeans, StoreIsGrove DEF WalkingInv, WalkInv, StoreInv, InCallback
<1>2. n \in Live /\ L \in Nat /\ L # 0 /\ Top = stack[L]
  BY <1>1, TopFrame
<1>3. \A x \in InLoop : Len(node[x].path) < Len(node[n].path)
  <2> SUFFICES ASSUME NEW j \in 1 .. Len(stack) - 1
               PROVE  Len(node[stack[j].n].path) < Len(node[n].path)
    BY DEF InLoop
  <2> QED BY <1>2, FramesGoDown
<1>4. CASE n = Root
  <2>1. node[n].path = <<>>
    BY <1>1, <1>2, <1>4, NodePath
  <2>2. Len(node[n].path) = 0
    BY <2>1
  <2>3. InLoop = {}
    <3> SUFFICES ASSUME NEW j \in 1 .. L - 1 PROVE FALSE
      BY DEF InLoop
    <3>1. stack[j].n \in Live
      <4>1. stack[j] \in Frame
        BY <1>1, <1>2, TopFrame
      <4> QED BY <4>1 DEF Frame
    <3>2. Len(node[stack[j].n].path) < 0
      BY <1>3, <2>2 DEF InLoop
    <3>3. node[stack[j].n].path \in Seq(Char)
      BY <1>1, <3>1, NodePath
    <3>4. Len(node[stack[j].n].path) \in Nat
      BY <3>3
    <3> QED BY <3>2, <3>4
  <2> QED BY <2>3
<1>5. CASE n # Root
  <2>1. key \in Seq(Char) /\ node[n].path \in Seq(Char)
    BY <1>1, <1>2, KeyAssumption, NodePath
  <2>2. Len(key) \in Nat /\ Len(node[n].path) \in Nat
    BY <2>1
  <2>3. Begins(node[n].path, key)
    <3>1. IsPrefix(node[n].path, key)
      BY DEF IsStrictPrefix
    <3> QED BY <2>1, <3>1, PrefixMeans
  <2>4. Len(node[n].path) < Len(key)
    <3>1. Len(node[n].path) = Len(key) => node[n].path = key
      BY <2>1, <2>2, <2>3, SeqEqual DEF Begins
    <3>2. node[n].path # key
      BY DEF IsStrictPrefix
    <3>3. Len(node[n].path) <= Len(key)
      BY <2>3 DEF Begins
    <3> QED BY <2>2, <3>1, <3>2, <3>3
  <2>5. /\ IsHit(f)
        /\ \/ f = Partial(n, Len(node[n].frag))
           \/ f.ptr \in Subtree(n) \ {n}
    <3>1. Titled(n)
      BY <1>1, <1>2, <1>5, StoreIsGrove
    <3> QED BY <1>1, <1>2, <2>1, <2>3, <2>4, <3>1, SearchStaysBelow
  <2>6. SameAnswer(f, l) /\ Hangs(l)
    BY <1>1, <2>1, <2>5, AgreeOnKey
  <2>7. NoDanglingKid
    BY <1>1 DEF Store, Tree, HeapIsTree
  <2>8. \A m \in Subtree(n) : m \notin InLoop
    <3> SUFFICES ASSUME NEW m \in Subtree(n) PROVE m \notin InLoop
      OBVIOUS
    <3>1. m \in Live /\ Len(node[n].path) <= Len(node[m].path)
      BY <1>1, <1>2, PathsGrow DEF Begins
    <3>2. node[m].path \in Seq(Char)
      BY <1>1, <3>1, NodePath
    <3>3. Len(node[m].path) \in Nat
      BY <3>2
    <3> QED BY <1>3, <2>2, <3>1, <3>3
  <2>9. f.ptr \in Subtree(n)
    <3>1. n \in Subtree(n) /\ Partial(n, Len(node[n].frag)).ptr = n
      BY <1>2, <2>7, SubtreeClosed DEF Partial
    <3> HIDE DEF f
    <3> QED BY <2>5, <3>1
  <2>10. ASSUME l.matched \/ EndsInDelim(l) PROVE l.dad \notin InLoop
    <3>1. f # Partial(n, Len(node[n].frag))
      <4> SUFFICES ASSUME f = Partial(n, Len(node[n].frag)) PROVE FALSE
        OBVIOUS
      <4>1. l.ptr = n /\ l.pms = Len(node[n].frag) /\ l.matched = FALSE
        <5>1. SameAnswer(Partial(n, Len(node[n].frag)), l)
          BY <2>6
        <5> QED BY <5>1 DEF SameAnswer, Partial
      <4>2. Len(node[n].frag) = Len(node[n].frag) + 1
        <5> HIDE DEF l, n
        <5> QED BY <2>10, <4>1 DEF EndsInDelim
      <4>3. Len(node[n].frag) \in Nat
        BY <1>1, <1>2, NodePath
      <4> QED BY <4>2, <4>3
    <3>2. f.ptr \in Subtree(n) \ {n} /\ l.ptr = f.ptr
      <4> HIDE DEF f, l
      <4> QED BY <2>5, <2>6, <3>1 DEF SameAnswer
    <3>3. l.dad \in Live /\ l.ptr \in Range(node[l.dad].kids)
      BY <2>6 DEF Hangs
    <3>4. Start(l.ptr) = Len(node[l.dad].path)
      BY <1>1, <3>3, KidPath
    <3>5. Len(node[n].path) <= Start(l.ptr)
      BY <1>1, <1>2, <3>2, PathsGrow
    <3>6. Len(node[l.dad].path) \in Nat
      <4>1. node[l.dad].path \in Seq(Char)
        BY <1>1, <3>3, NodePath
      <4> QED BY <4>1
    <3> HIDE DEF l, f
    <3> QED BY <1>3, <2>2, <3>4, <3>5, <3>6
  <2>12. InLoop \cap Subtree(l.ptr) = {}
    <3>1. l.ptr \in Subtree(n) /\ l.ptr \in Live
      <4>1. l.ptr = f.ptr
        BY <2>6 DEF SameAnswer
      <4> HIDE DEF f, l
      <4> QED BY <1>2, <2>7, <2>9, <4>1, SubtreeClosed
    <3> HIDE DEF l
    <3>2. Subtree(l.ptr) \subseteq Subtree(n)
      BY <1>2, <2>7, <3>1, SubtreeClosed, SubtreeLeast
    <3> QED BY <2>8, <3>2
  <2> HIDE DEF f, l
  <2>11. (IF IsHit(f) THEN f.ptr ELSE Root) \notin InLoop
    BY <2>5, <2>8, <2>9
  <2> QED BY <2>10, <2>11, <2>12 DEF f, l
<1> QED BY <1>4, <1>5

\* In its callback, a client that keeps to keys going on after the node it is called for
\* changes no vector a loop is in.
LEMMA CallsBelowKeep ==
  ASSUME WalkingInv, InCallback, CallBelow
  PROVE  KeepsIterators
<1>1. PICK key \in Key :
        /\ IsStrictPrefix(node[Top.n].path, key)
        /\ \/ \E v \in Value : InsertKey(Root, key, v)
           \/ \E include_children \in BOOLEAN : RemoveKey(Root, key, include_children)
  BY DEF CallBelow, StoreInsert, StoreRemove
<1> DEFINE f == Find(Root, key)  l == Locate(Root, key)
<1>2. /\ ~ f.matched => (IF IsHit(f) THEN f.ptr ELSE Root) \notin InLoop
      /\ l.matched \/ EndsInDelim(l) => l.dad \notin InLoop /\ InLoop \cap Subtree(l.ptr) = {}
  BY <1>1, SearchEndsBelow
<1>3. HeapTypeOK /\ Root \in Live /\ InLoop \subseteq Live
  <2>1. WalkTypeOK /\ TypeOK /\ Walking
    BY DEF WalkingInv, WalkInv, WalkTypeOK, InCallback
  <2>2. ASSUME NEW j \in 1 .. Len(stack) - 1 PROVE stack[j].n \in Live
    <3>1. stack[j] \in Frame
      BY <2>1, TopFrame
    <3> QED BY <3>1 DEF Frame
  <2> QED BY <2>1, <2>2 DEF TypeOK, InLoop
<1>4. SUFFICES ASSUME NEW x \in InLoop PROVE x \in Live' /\ node'[x].kids = node[x].kids
  BY DEF KeepsIterators
<1>5. x \in Live
  BY <1>3
<1>6. ASSUME NEW n \in Live, NEW v, SetsValue(n, v)
      PROVE  x \in Live' /\ node'[x].kids = node[x].kids
  BY <1>3, <1>5, <1>6 DEF SetsValue, HeapTypeOK, Fields
<1> HIDE DEF f, l
<1>7. ASSUME NEW v \in Value, InsertKey(Root, key, v)
      PROVE  x \in Live' /\ node'[x].kids = node[x].kids
  <2>1. CASE Replace(Root, f, v)
    BY <1>3, <1>6, <2>1, ReplaceStep
  <2>2. CASE AddChild(Root, f, key, v)
    <3>1. PICK n \in Live \ {Root}, a \in Node \ Live :
            /\ f = Partial(n, Len(node[n].frag))
            /\ \E title \in RestTitle(key, Len(node[n].path)) : AddsChild(key, v, n, a, title)
      BY <1>3, <2>2, AddChildStep
    <3>2. f.ptr = n /\ ~ f.matched /\ IsHit(f)
      BY <2>2, <3>1 DEF AddChild, Partial, IsHit
    <3>3. x # n /\ x # a
      BY <1>2, <1>5, <3>2
    <3> QED BY <1>5, <3>1, <3>3 DEF AddsChild
  <2>3. CASE Split(Root, f, key, v)
    <3>1. PICK n \in Live \ {Root}, b \in Node \ Live :
            \E c \in Node \ (Live \cup {b}), pms \in 1 .. Len(node[n].frag) - 1 :
              /\ f = Partial(n, pms)
              /\ \E title \in RestTitle(key, CutAt(n, pms)) :
                   Splits(key, v, n, pms, b, c, title)
      BY <1>3, <2>3, SplitStep
    <3>2. PICK c \in Node \ (Live \cup {b}), pms \in 1 .. Len(node[n].frag) - 1 :
            /\ f = Partial(n, pms)
            /\ \E title \in RestTitle(key, CutAt(n, pms)) :
                 Splits(key, v, n, pms, b, c, title)
      BY <3>1
    <3>3. f.ptr = n /\ ~ f.matched /\ IsHit(f)
      BY <3>2 DEF Partial, IsHit
    <3>4. x # n /\ x # b /\ x # c
      BY <1>2, <1>5, <3>3
    <3> QED BY <1>5, <3>2, <3>4 DEF Splits
  <2>4. CASE AddAtRoot(Root, f, key, v)
    <3>1. f = Miss /\ \E a \in Node \ Live : AddsAtRoot(Root, key, v, a)
      BY <1>3, <2>4, AddAtRootStep
    <3>2. ~ f.matched /\ ~ IsHit(f)
      BY <3>1 DEF Miss, IsHit
    <3>3. x # Root
      BY <1>2, <3>2
    <3> QED BY <1>5, <3>1, <3>3 DEF AddsAtRoot
  <2> QED BY <1>7, <2>1, <2>2, <2>3, <2>4 DEF InsertKey, f
<1>8. ASSUME NEW include_children \in BOOLEAN, RemoveKey(Root, key, include_children)
      PROVE  x \in Live' /\ node'[x].kids = node[x].kids
  <2>1. CASE RemoveTree(Root, l)
    <3>1. PICK n \in Live \ {Root}, d \in Live :
            Takes(l, n) /\ l.dad = d /\ \E j \in DOMAIN node[d].kids : RemovesTree(n, d, j)
      BY <2>1 DEF RemoveTree, RemovesTree, Live
    <3>2. x # d /\ x \notin Subtree(n)
      BY <1>2, <3>1 DEF Takes
    <3> QED BY <1>5, <3>1, <3>2 DEF RemovesTree
  <2>2. CASE RemoveValue(Root, l)
    BY <1>3, <1>6, <2>2, RemoveValueStep
  <2>3. CASE RemoveNone(l)
    BY <1>5, <2>3 DEF RemoveNone, vars, Live
  <2> QED BY <1>8, <2>1, <2>2, <2>3 DEF RemoveKey, l
<1> QED BY <1>1, <1>7, <1>8

\* So the loops are as they were, whichever call the client has made.
LEMMA CallbackKeeps ==
  ASSUME WalkingInv, Callback
  PROVE  KeepsIterators
BY CallsBelowKeep DEF Callback

-----------------------------------------------------------------------------
(* The steps of a walk.                                                    *)

\* A walk begins with the frame of the root.
LEMMA WhenBegun ==
  ASSUME WalkInv, Begin
  PROVE  WalkTypeOK' /\ FramesArePath' /\ BeginsAtRoot' /\ NothingKept'
<1> DEFINE none == <<>>
           nobody == {}
<1>1. /\ Enter(Root, none, nobody) /\ sizing' \in BOOLEAN
      /\ UNCHANGED <<node, oob, born>>
  BY DEF Begin
<1>2. Root \in Live /\ none \in Seq(Frame) /\ Len(none) = 0 /\ Live' = Live
  BY <1>1 DEF WalkInv, WalkTypeOK, TypeOK, HeapTypeOK, Live
<1>3. /\ stack' \in Seq(Frame) /\ Len(stack') = 1 /\ stack'[1].n = Root
      /\ seen' \subseteq Live /\ count' \in Nat
  <2>1. WalkTypeOK /\ nobody \subseteq Live
    BY DEF WalkInv
  <2> HIDE DEF none, nobody
  <2>2. /\ stack' \in Seq(Frame)
        /\ Len(stack') = Len(none) + 1
        /\ stack'[Len(none) + 1].n = Root
        /\ seen' \subseteq Live /\ count' \in Nat
    BY <1>1, <1>2, <2>1, EnterPushes
  <2> QED BY <1>2, <2>2
<1>4. WalkTypeOK'
  BY <1>1, <1>2, <1>3 DEF WalkInv, WalkTypeOK, TypeOK, HeapTypeOK, Frame
<1>5. FramesArePath'
  BY <1>3 DEF FramesArePath
<1>6. NothingKept'
  BY <1>3 DEF NothingKept, Walking
<1> QED BY <1>3, <1>4, <1>5, <1>6 DEF BeginsAtRoot

\* When the callback returns, its frame turns to the first child.
LEMMA WhenCallbackReturns ==
  ASSUME WalkInv, CallbackReturns
  PROVE  WalkTypeOK' /\ FramesArePath' /\ BeginsAtRoot' /\ NothingKept'
<1> DEFINE L == Len(stack)
<1>1. /\ Walking /\ stack' = [stack EXCEPT ![L].next = 1]
      /\ UNCHANGED <<node, oob, seen, born, sizing, count>>
  BY DEF CallbackReturns, InCallback
<1>2. /\ stack \in Seq(Frame) /\ Live' = Live
      /\ L \in Nat /\ L # 0 /\ \A j \in 1 .. L : stack[j] \in Frame
  BY <1>1, TopFrame DEF WalkInv, WalkTypeOK, Frame, Live
<1>3. [stack[L] EXCEPT !.next = 1] \in Frame
  BY <1>2 DEF Frame
<1>4. /\ stack' \in Seq(Frame) /\ Len(stack') = L
      /\ \A j \in 1 .. L : stack'[j].n = stack[j].n /\ (j # L => stack'[j] = stack[j])
  BY <1>1, <1>2, <1>3, ExceptSeq
<1>5. WalkTypeOK'
  BY <1>1, <1>2, <1>4 DEF WalkInv, WalkTypeOK, TypeOK, HeapTypeOK, Frame
<1>6. FramesArePath'
  <2>1. ASSUME NEW j \in 1 .. L - 1
        PROVE  /\ stack'[j] = stack[j] /\ stack'[j + 1].n = stack[j + 1].n
    <3>1. j \in 1 .. L /\ j + 1 \in 1 .. L /\ j # L
      BY <1>2
    <3> HIDE DEF L
    <3>2. stack'[j] = stack[j]
      BY <1>4, <3>1
    <3>3. stack'[j + 1].n = stack[j + 1].n
      BY <1>4, <3>1
    <3> QED BY <3>2, <3>3
  <2> QED BY <1>1, <1>2, <1>4, <2>1 DEF FramesArePath, WalkInv
<1>7. BeginsAtRoot'
  BY <1>1, <1>2, <1>4 DEF BeginsAtRoot, WalkInv, Walking
<1>8. NothingKept'
  BY <1>2, <1>4 DEF NothingKept, Walking
<1> QED BY <1>5, <1>6, <1>7, <1>8

\* The next child gets a frame on those below it.
LEMMA WhenDescending ==
  ASSUME WalkInv, Descend
  PROVE  WalkTypeOK' /\ FramesArePath' /\ BeginsAtRoot' /\ NothingKept'
<1> DEFINE L  == Len(stack)
           ch == node[Top.n].kids[Top.next]
           below == [stack EXCEPT ![L].next = @ + 1]
<1>1. /\ Walking /\ Top.next \in DOMAIN node[Top.n].kids
      /\ Enter(ch, below, seen) /\ UNCHANGED <<node, oob, born, sizing>>
  BY DEF Descend, Child, Increment
<1>2. /\ stack \in Seq(Frame) /\ Live' = Live
      /\ L \in Nat /\ L # 0 /\ \A j \in 1 .. L : stack[j] \in Frame
      /\ Top = stack[L] /\ Top.n \in Live /\ Top.next \in Nat
  BY <1>1, TopFrame DEF WalkInv, WalkTypeOK, Frame, Live
<1>3. ch \in Live
  BY <1>1, <1>2 DEF WalkInv, IInv, HeapIsTree, NoDanglingKid, Range
<1>4. [stack[L] EXCEPT !.next = @ + 1] \in Frame
  BY <1>2 DEF Frame
<1>5. /\ below \in Seq(Frame) /\ Len(below) = L
      /\ \A j \in 1 .. L : below[j].n = stack[j].n /\ (j # L => below[j] = stack[j])
      /\ below[L].next = Top.next + 1
  BY <1>2, <1>4, ExceptSeq DEF Frame
<1> HIDE DEF below, ch
<1>6. /\ stack' \in Seq(Frame) /\ Len(stack') = L + 1
      /\ \A j \in 1 .. L : stack'[j] = below[j]
      /\ stack'[L + 1].n = ch
      /\ seen' \subseteq Live /\ count' \in Nat
  <2>1. WalkTypeOK /\ seen \subseteq Live /\ sizing' \in BOOLEAN
    BY <1>1 DEF WalkInv, WalkTypeOK
  <2>2. /\ stack' \in Seq(Frame)
        /\ Len(stack') = Len(below) + 1
        /\ \A j \in 1 .. Len(below) : stack'[j] = below[j]
        /\ stack'[Len(below) + 1].n = ch
        /\ seen' \subseteq Live /\ count' \in Nat
    BY <1>1, <1>3, <1>5, <2>1, EnterPushes
  <2> QED BY <1>5, <2>2
<1>7. WalkTypeOK'
  BY <1>1, <1>2, <1>6 DEF WalkInv, WalkTypeOK, TypeOK, HeapTypeOK, Frame
<1>8. ASSUME NEW j \in 1 .. L
      PROVE  /\ stack'[j].next - 1 \in DOMAIN node[stack'[j].n].kids
             /\ stack'[j + 1].n = node[stack'[j].n].kids[stack'[j].next - 1]
  <2>1. CASE j = L
    <3>1. stack'[j].n = Top.n /\ stack'[j].next = Top.next + 1 /\ stack'[j + 1].n = ch
      BY <1>2, <1>5, <1>6, <2>1
    <3>2. stack'[j].next - 1 = Top.next
      BY <1>2, <3>1
    <3> QED BY <1>1, <3>1, <3>2 DEF ch
  <2>2. CASE j \in 1 .. L - 1
    <3>1. j + 1 \in 1 .. L /\ j # L
      BY <1>2, <2>2
    <3>2. stack'[j] = stack[j] /\ stack'[j + 1].n = stack[j + 1].n
      BY <1>5, <1>6, <3>1
    <3> QED BY <2>2, <3>2 DEF FramesArePath, WalkInv
  <2> QED BY <1>2, <2>1, <2>2
<1>9. FramesArePath'
  BY <1>1, <1>2, <1>6, <1>8 DEF FramesArePath
<1>10. BeginsAtRoot'
  BY <1>1, <1>2, <1>5, <1>6 DEF BeginsAtRoot, WalkInv, Walking
<1>11. NothingKept'
  BY <1>2, <1>6 DEF NothingKept, Walking
<1> QED BY <1>7, <1>9, <1>10, <1>11

\* A loop that is done takes its frame away.
LEMMA WhenLeaving ==
  ASSUME WalkInv, Leave
  PROVE  WalkTypeOK' /\ FramesArePath' /\ BeginsAtRoot' /\ NothingKept'
<1> DEFINE L == Len(stack)
<1>1. Walking /\ stack' = Front(stack) /\ UNCHANGED <<node, oob>>
  BY DEF Leave, LoopDone
<1>2. /\ seen' \subseteq Live /\ born' \subseteq Live
      /\ sizing' \in BOOLEAN /\ count' \in Nat
  <2>1. CASE Len(stack) > 1
    BY <1>1, <2>1 DEF Leave, WalkInv, WalkTypeOK
  <2>2. CASE ~ (Len(stack) > 1)
    <3>1. seen' = {} /\ born' = {} /\ sizing' = FALSE /\ count' = 0
      BY <2>2 DEF Leave
    <3> QED BY <3>1
  <2> QED BY <2>1, <2>2
<1>3. stack \in Seq(Frame) /\ stack # <<>> /\ Live' = Live /\ L \in Nat /\ L # 0
  BY <1>1, TopFrame DEF WalkInv, WalkTypeOK, Frame, Live, Walking
<1>4. /\ stack' \in Seq(Frame) /\ Len(stack') = L - 1
      /\ \A j \in 1 .. L - 1 : stack'[j] = stack[j]
  BY <1>1, <1>3, FrontAndLast
<1>5. WalkTypeOK'
  BY <1>1, <1>2, <1>3, <1>4 DEF WalkInv, WalkTypeOK, TypeOK, HeapTypeOK, Frame
<1>6. FramesArePath'
  <2>1. ASSUME NEW j \in 1 .. L - 1 - 1
        PROVE  /\ stack'[j] = stack[j] /\ stack'[j + 1] = stack[j + 1]
               /\ j \in 1 .. L - 1
    <3>1. j \in 1 .. L - 1 /\ j + 1 \in 1 .. L - 1
      BY <1>3
    <3> QED BY <1>4, <3>1
  <2> QED BY <1>1, <1>4, <2>1 DEF FramesArePath, WalkInv
<1>7. BeginsAtRoot'
  <2>1. CASE L = 1
    <3>1. stack' = <<>>
      BY <1>4, <2>1
    <3> QED BY <3>1 DEF BeginsAtRoot, Walking
  <2>2. CASE L # 1
    <3>1. stack'[1] = stack[1]
      BY <1>3, <1>4, <2>2
    <3> QED BY <1>1, <3>1 DEF BeginsAtRoot, WalkInv
  <2> QED BY <2>1, <2>2
<1>8. NothingKept'
  <2>1. CASE L = 1
    BY <1>3, <2>1 DEF Leave, NothingKept
  <2>2. CASE L # 1
    <3>1. stack' # <<>>
      BY <1>3, <1>4, <2>2
    <3> QED BY <3>1 DEF NothingKept, Walking
  <2> QED BY <2>1, <2>2
<1> QED BY <1>5, <1>6, <1>7, <1>8

\* The client, in its callback: the loops above keep their children, and the node the
\* callback is for is the root or one of those.
LEMMA WhenCalledBack ==
  ASSUME WalkingInv, Callback, IInv'
  PROVE  WalkTypeOK' /\ FramesArePath' /\ BeginsAtRoot' /\ NothingKept'
<1> DEFINE L == Len(stack)
<1>1. /\ WalkInv /\ Walking /\ KeepsIterators /\ UNCHANGED <<stack, sizing, count>>
      /\ seen' \subseteq Live' /\ born' \subseteq Live'
  BY CallbackKeeps DEF Callback, InCallback, WalkingInv, WalkInv, WalkTypeOK
<1>2. /\ stack \in Seq(Frame) /\ L \in Nat /\ L # 0
      /\ \A j \in 1 .. L : stack[j] \in Frame
  BY <1>1, TopFrame DEF WalkInv, WalkTypeOK, Frame
<1>3. TypeOK' /\ HeapIsTree'
  BY DEF IInv
<1>4. \A j \in 1 .. L - 1 : stack[j].n \in Live' /\ node'[stack[j].n].kids = node[stack[j].n].kids
  BY <1>1 DEF KeepsIterators, InLoop
<1>5. FramesArePath'
  BY <1>1, <1>4 DEF FramesArePath, WalkInv
<1>6. \A j \in 1 .. L : stack[j].n \in Live'
  <2>1. ASSUME NEW j \in 1 .. L PROVE stack[j].n \in Live'
    <3>1. CASE j \in 1 .. L - 1
      BY <1>4, <3>1
    <3>2. CASE j = 1
      BY <1>1, <1>3, <3>2 DEF WalkInv, BeginsAtRoot, TypeOK, HeapTypeOK
    <3>3. CASE j # 1 /\ j = L
      <4> DEFINE i == j - 1
      <4>1. i \in 1 .. L - 1 /\ i + 1 = j
        BY <1>2, <3>3
      <4> HIDE DEF i
      <4>2. stack[j].n \in Range(node'[stack[i].n].kids)
        BY <1>1, <1>4, <4>1 DEF WalkInv, FramesArePath, Range
      <4> QED BY <1>3, <1>4, <4>1, <4>2 DEF HeapIsTree, NoDanglingKid
    <3> QED BY <1>2, <3>1, <3>2, <3>3
  <2> QED BY <2>1
<1>7. stack' \in Seq([n : Live', next : Nat])
  <2> DEFINE F == [n : Live', next : Nat]
  <2>1. \A j \in 1 .. L : stack[j] \in F
    BY <1>2, <1>6 DEF Frame
  <2> HIDE DEF F
  <2>2. stack = [j \in 1 .. L |-> stack[j]]
    BY <1>2
  <2>3. stack \in Seq(F)
    BY <1>2, <2>1, <2>2, IsASeq
  <2> QED BY <1>1, <2>3 DEF F
<1>8. WalkTypeOK'
  BY <1>1, <1>3, <1>7 DEF WalkInv, WalkTypeOK
<1>9. BeginsAtRoot'
  BY <1>1 DEF BeginsAtRoot, WalkInv, Walking
<1>10. NothingKept'
  BY <1>1 DEF NothingKept, Walking
<1> QED BY <1>5, <1>8, <1>9, <1>10

\* Between walks there are no frames, and nothing has been seen.
LEMMA BetweenWalks ==
  ASSUME WalkInv, Client, IInv'
  PROVE  WalkTypeOK' /\ FramesArePath' /\ BeginsAtRoot' /\ NothingKept'
<1>1. stack = <<>> /\ UNCHANGED <<stack, seen, born, sizing, count>> /\ TypeOK'
  BY DEF Walking, Client, IInv
<1>2. WalkTypeOK'
  BY <1>1 DEF WalkInv, WalkTypeOK, NothingKept, Walking
<1>3. FramesArePath' /\ BeginsAtRoot' /\ NothingKept'
  BY <1>1 DEF FramesArePath, BeginsAtRoot, Walking, WalkInv, NothingKept
<1> QED BY <1>2, <1>3

-----------------------------------------------------------------------------
(* The theorems.                                                           *)

\* The invariant of the frames holds in the beginning.
LEMMA WalkInvInit == WalkInit => WalkInv
<1> SUFFICES ASSUME WalkInit PROVE WalkInv
  OBVIOUS
<1>1. /\ Init /\ stack = <<>> /\ seen = {} /\ born = {}
      /\ sizing = FALSE /\ count = 0
  BY DEF WalkInit
<1>2. IInv
  BY <1>1, IInvInit
<1>3. WalkTypeOK
  <2>1. <<>> \in Seq([n : Live, next : Nat]) /\ 0 \in Nat /\ FALSE \in BOOLEAN
    OBVIOUS
  <2>2. TypeOK
    BY <1>2 DEF IInv
  <2> QED BY <1>1, <2>1, <2>2 DEF WalkTypeOK
<1>4. FramesArePath /\ BeginsAtRoot /\ NothingKept
  BY <1>1 DEF FramesArePath, BeginsAtRoot, NothingKept, Walking
<1> QED BY <1>2, <1>3, <1>4 DEF WalkInv

\* With the invariant of the store this is one of the walk: it holds in the beginning,
LEMMA WalkingInvInit == WalkInit => WalkingInv
BY WalkInvInit, StoreInvInit DEF WalkInit, WalkingInv

\* and every step keeps it.
LEMMA WalkInvStep ==
  ASSUME WalkingInv, [WalkNext]_walkVars
  PROVE  WalkInv'
<1>0. WalkInv
  BY DEF WalkingInv
<1>1. CASE WalkNext
  <2>1. IInv'
    BY <1>0, <1>1, TreeStep DEF WalkInv
  <2>2. CASE Begin
    BY <1>0, <2>1, <2>2, WhenBegun DEF WalkInv
  <2>3. CASE CallbackReturns
    BY <1>0, <2>1, <2>3, WhenCallbackReturns DEF WalkInv
  <2>4. CASE Descend
    BY <1>0, <2>1, <2>4, WhenDescending DEF WalkInv
  <2>5. CASE Leave
    BY <1>0, <2>1, <2>5, WhenLeaving DEF WalkInv
  <2>6. CASE Callback
    BY <1>0, <2>1, <2>6, WhenCalledBack DEF WalkInv
  <2>7. CASE Client
    BY <1>0, <2>1, <2>7, BetweenWalks DEF WalkInv
  <2> QED BY <1>1, <2>2, <2>3, <2>4, <2>5, <2>6, <2>7 DEF WalkNext, WalkStep
<1>2. CASE UNCHANGED walkVars
  <2>1. UNCHANGED vars /\ UNCHANGED <<stack, seen, born, sizing, count>> /\ Live' = Live
    BY <1>2 DEF walkVars, vars, Live
  <2>2. IInv'
    BY <1>0, <2>1, IInvStep DEF WalkInv
  <2>3. WalkTypeOK'
    BY <1>0, <2>1, <2>2 DEF WalkInv, WalkTypeOK, IInv
  <2>4. FramesArePath' /\ BeginsAtRoot' /\ NothingKept'
    BY <1>0, <2>1 DEF WalkInv, FramesArePath, BeginsAtRoot, NothingKept, Walking, vars
  <2> QED BY <2>2, <2>3, <2>4 DEF WalkInv
<1> QED BY <1>1, <1>2

\* together with that of the store.
LEMMA WalkingInvStep == WalkingInv /\ [WalkNext]_walkVars => WalkingInv'
BY WalkInvStep, WalkStepIsStoreStep, StoreInvStep DEF WalkingInv

\* Whatever the client does from its callback, the frames of a walk hold live nodes:
\* no reference walk_internal goes on with has been freed.
THEOREM WalkTypes == WalkSpec => []WalkTypeOK
<1>1. WalkingInv => WalkTypeOK
  BY DEF WalkingInv, WalkInv
<1> QED BY <1>1, WalkingInvInit, WalkingInvStep, PTL DEF WalkSpec

\* The search for a key that goes on after the node visited ends in no vector that a loop
\* is in.
THEOREM KeysBelowAreSafe == WalkSpec => []BelowIsSafe
<1>1. WalkingInv => BelowIsSafe
  BY SearchEndsBelow DEF BelowIsSafe
<1> QED BY <1>1, WalkingInvInit, WalkingInvStep, PTL DEF WalkSpec

\* A callback that inserts and removes keys below the node it is called for, and does not
\* look at the loops it runs inside of, leaves them their nodes and their vectors.
THEOREM CallsBelowKeepLoops == WalkSpec => LoopsUndisturbed
<1>1. WalkingInv /\ [WalkNext]_walkVars => (InCallback /\ CallBelow => KeepsIterators)
  BY CallsBelowKeep
<1> QED BY <1>1, WalkingInvInit, WalkingInvStep, PTL DEF WalkSpec, LoopsUndisturbed

-----------------------------------------------------------------------------
(* Each node is visited once.                                              *)

\* Only the root is ever of the type a walk passes over, and then it has no children.
TypesKnown == /\ \A n \in Live \ {Root} : node[n].type # "none"
              /\ node[Root].type = "none" => node[Root].kids = <<>>

\* A step of the trie moves no node to another parent: a node that stays has no child it
\* did not have but new ones, and a new node is a leaf without children.
StaysPut ==
  /\ \A x \in Live \cap Live' :
       /\ Range(node'[x].kids) \subseteq Range(node[x].kids) \cup (Live' \ Live)
       /\ node'[x].type \in {node[x].type, "branch"}
       /\ node'[x].type = "none" => Range(node'[x].kids) \subseteq Range(node[x].kids)
  /\ \A x \in Live' \ Live : node'[x].kids = <<>> /\ node'[x].type = "leaf"

\* The nodes of s become children of n.
LEMMA GrowthStaysPut ==
  ASSUME TypeOK, NEW n \in Live, NEW s \in Seq(Node \ Live), GrowsAt(n, s),
         \A m \in Live \ {n} : node'[m].type = node[m].type,
         node'[n].type \in {node[n].type, "branch"}, node'[n].type # "none",
         \A m \in Range(s) : node'[m].type = "leaf"
  PROVE  StaysPut
<1>1. node[n].kids \in Seq(Node) /\ Range(s) \cap Live = {} /\ Live' \ Live = Range(s)
  <2>1. \A i \in DOMAIN s : s[i] \in Node \ Live
    OBVIOUS
  <2> QED BY <2>1 DEF TypeOK, HeapTypeOK, Fields, GrowsAt, Range
<1>2. Range(node'[n].kids) \subseteq Range(node[n].kids) \cup Range(s)
  <2>1. node'[n].kids = node[n].kids \o s /\ s \in Seq(Node)
    <3>1. s \in Seq(Node)
      <4>1. \A i \in 1 .. Len(s) : s[i] \in Node
        OBVIOUS
      <4>2. s = [i \in 1 .. Len(s) |-> s[i]] /\ Len(s) \in Nat
        OBVIOUS
      <4> QED BY <4>1, <4>2, IsASeq
    <3> QED BY <3>1 DEF GrowsAt
  <2> QED BY <1>1, <2>1, ConcatRange
<1>3. \A m \in Live \ {n} : node'[m].kids = node[m].kids
  BY DEF GrowsAt
<1>4. \A m \in Range(s) : node'[m].kids = <<>>
  BY DEF GrowsAt
<1> QED BY <1>1, <1>2, <1>3, <1>4 DEF StaysPut

\* Every insert and every remove leaves the nodes where they are.
LEMMA NodesStayPut ==
  ASSUME IInv, TypesKnown, Next
  PROVE  StaysPut
<1>1. TypeOK /\ HeapIsTree
  BY DEF IInv
<1>2. PICK key \in Key : \/ \E v \in Value : InsertKey(Root, key, v)
                         \/ \E include_children \in BOOLEAN : RemoveKey(Root, key, include_children)
  BY DEF Next
<1>3. PICK r : \/ \E v \in Value : \/ Replace(Root, r, v) \/ AddChild(Root, r, key, v)
                                   \/ Split(Root, r, key, v) \/ AddAtRoot(Root, r, key, v)
               \/ RemoveTree(Root, r) \/ RemoveValue(Root, r) \/ RemoveNone(r)
  BY <1>2 DEF InsertKey, RemoveKey
<1>4. ASSUME NEW n \in Live, NEW v, SetsValue(n, v) PROVE StaysPut
  <2>1. Live' = Live /\ \A x \in Live : node'[x].kids = node[x].kids /\ node'[x].type = node[x].type
    BY <1>1, <1>4 DEF SetsValue, TypeOK, HeapTypeOK, Fields
  <2> QED BY <2>1 DEF StaysPut
<1>5. CASE \E v \in Value : Replace(Root, r, v)
  BY <1>1, <1>4, <1>5, ReplaceStep DEF TypeOK
<1>6. CASE RemoveValue(Root, r)
  BY <1>1, <1>4, <1>6, RemoveValueStep DEF TypeOK
<1>7. CASE RemoveNone(r)
  <2>1. node' = node /\ Live' = Live
    BY <1>7 DEF RemoveNone, vars, Live
  <2> QED BY <2>1 DEF StaysPut
<1>8. ASSUME NEW v \in Value, AddChild(Root, r, key, v) PROVE StaysPut
  <2>1. PICK n \in Live \ {Root}, a \in Node \ Live :
          \E title \in RestTitle(key, Len(node[n].path)) : AddsChild(key, v, n, a, title)
    BY <1>1, <1>8, AddChildStep DEF TypeOK
  <2>2. PICK title \in RestTitle(key, Len(node[n].path)) : AddsChild(key, v, n, a, title)
    BY <2>1
  <2>3. GrowsAt(n, <<a>>)
    BY <1>1, <2>2, AddChildGrows DEF TypeOK
  <2>4. node'[n].type \in {node[n].type, "branch"} /\ node'[n].type # "none"
    <3>1. node'[n] = Adopt(node[n], a) /\ node[n] \in Fields
      BY <1>1, <2>2 DEF AddsChild, TypeOK, HeapTypeOK
    <3>2. Adopt(node[n], a).type = node[n].type
      BY <3>1, AdoptFields
    <3> QED BY <3>1, <3>2 DEF TypesKnown
  <2>5. /\ \A m \in Live \ {n} : node'[m].type = node[m].type
        /\ \A m \in Range(<<a>>) : node'[m].type = "leaf"
    <3>1. \A m \in Live \ {n} : node'[m] = node[m]
      BY <2>2 DEF AddsChild
    <3>2. node'[a].type = "leaf" /\ Range(<<a>>) = {a}
      BY <2>2 DEF AddsChild, Leaf, Range
    <3> QED BY <3>1, <3>2
  <2>6. <<a>> \in Seq(Node \ Live)
    OBVIOUS
  <2> QED BY <1>1, <2>3, <2>4, <2>5, <2>6, GrowthStaysPut
<1>9. ASSUME NEW v \in Value, AddAtRoot(Root, r, key, v) PROVE StaysPut
  <2>1. PICK a \in Node \ Live : AddsAtRoot(Root, key, v, a)
    BY <1>1, <1>9, AddAtRootStep DEF TypeOK
  <2>2. GrowsAt(Root, <<a>>) /\ Root \in Live
    BY <1>1, <2>1, AddAtRootGrows DEF TypeOK, HeapTypeOK
  <2>3. node'[Root].type = "branch"
    <3>1. Adopt(node[Root], a) \in Fields
      BY <1>1, <2>2, AdoptType DEF TypeOK, HeapTypeOK
    <3>2. node'[Root] = [Adopt(node[Root], a) EXCEPT !.value = NoValue, !.type = "branch"]
      BY <2>1, <2>2 DEF AddsAtRoot
    <3> QED BY <3>1, <3>2 DEF Fields
  <2>4. /\ \A m \in Live \ {Root} : node'[m].type = node[m].type
        /\ \A m \in Range(<<a>>) : node'[m].type = "leaf"
    <3>1. \A m \in Live \ {Root} : node'[m] = node[m]
      BY <2>1 DEF AddsAtRoot
    <3>2. node'[a].type = "leaf" /\ Range(<<a>>) = {a}
      BY <2>1 DEF AddsAtRoot, Leaf, Range
    <3> QED BY <3>1, <3>2
  <2>5. <<a>> \in Seq(Node \ Live)
    OBVIOUS
  <2>6. node'[Root].type \in {node[Root].type, "branch"} /\ node'[Root].type # "none"
    BY <2>3
  <2> QED BY <1>1, <2>2, <2>4, <2>5, <2>6, GrowthStaysPut
<1>10. ASSUME NEW v \in Value, Split(Root, r, key, v) PROVE StaysPut
  <2>1. PICK n \in Live \ {Root}, b \in Node \ Live :
        \E c \in Node \ (Live \cup {b}), pms \in 1 .. Len(node[n].frag) - 1 :
        \E title \in RestTitle(key, CutAt(n, pms)) : Splits(key, v, n, pms, b, c, title)
    BY <1>1, <1>10, SplitStep DEF TypeOK
  <2>2. PICK c \in Node \ (Live \cup {b}), pms \in 1 .. Len(node[n].frag) - 1 :
        \E title \in RestTitle(key, CutAt(n, pms)) : Splits(key, v, n, pms, b, c, title)
    BY <2>1
  <2>3. PICK title \in RestTitle(key, CutAt(n, pms)) : Splits(key, v, n, pms, b, c, title)
    BY <2>2
  <2>4. GrowsAt(n, <<b, c>>)
    BY <1>1, <2>3, SplitGrows DEF TypeOK
  <2>5. node'[n].type = "branch"
    BY <2>3 DEF Splits, CutNode
  <2>6. /\ \A m \in Live \ {n} : node'[m].type = node[m].type
        /\ \A m \in Range(<<b, c>>) : node'[m].type = "leaf"
    <3>1. \A m \in Live \ {n} : node'[m] = node[m]
      BY <2>3 DEF Splits
    <3>2. node'[b].type = "leaf" /\ node'[c].type = "leaf" /\ Range(<<b, c>>) = {b, c}
      BY <2>3 DEF Splits, CutOff, Leaf, Range
    <3> QED BY <3>1, <3>2
  <2>7. <<b, c>> \in Seq(Node \ Live)
    OBVIOUS
  <2>8. node'[n].type \in {node[n].type, "branch"} /\ node'[n].type # "none"
    BY <2>5
  <2> QED BY <1>1, <2>4, <2>6, <2>7, <2>8, GrowthStaysPut
<1>11. CASE RemoveTree(Root, r)
  <2>1. PICK n \in Live \ {Root}, d \in Live :
          \E j \in DOMAIN node[d].kids : RemovesTree(n, d, j)
    BY <1>1, <1>11, RemoveTreeStep DEF TypeOK
  <2>2. PICK j \in DOMAIN node[d].kids : RemovesTree(n, d, j)
    BY <2>1
  <2>3. /\ Live' \subseteq Live
        /\ \A m \in Live' : node'[m] = IF m = d THEN [node[d] EXCEPT !.kids = RemoveAt(@, j)]
                                               ELSE node[m]
    BY <2>2 DEF RemovesTree
  <2>4. node[d] \in Fields /\ node[d].kids \in Seq(Node)
    BY <1>1 DEF TypeOK, HeapTypeOK, Fields
  <2>5. \A m \in Live' : /\ node'[m].type = node[m].type
                         /\ node'[m].kids = IF m = d THEN RemoveAt(node[d].kids, j)
                                                     ELSE node[m].kids
    BY <2>3, <2>4 DEF Fields
  <2>6. Range(RemoveAt(node[d].kids, j)) \subseteq Range(node[d].kids)
    BY <2>2, <2>4, RemoveAtPlaces DEF Range
  <2>7. \A m \in Live' : Range(node'[m].kids) \subseteq Range(node[m].kids)
    BY <2>5, <2>6
  <2> QED BY <2>3, <2>5, <2>7 DEF StaysPut
<1> QED BY <1>3, <1>5, <1>6, <1>7, <1>8, <1>9, <1>10, <1>11

\* So types stay known,
LEMMA TypesStayKnown ==
  ASSUME TypeOK, TypeOK', TypesKnown, StaysPut
  PROVE  TypesKnown'
<1>1. Root \in Live /\ Root \in Live' /\ node'[Root] \in Fields
  BY DEF TypeOK, HeapTypeOK
<1>2. \A n \in Live' \ {Root} : node'[n].type # "none"
  BY DEF StaysPut, TypesKnown
<1>3. ASSUME node'[Root].type = "none" PROVE node'[Root].kids = <<>>
  <2>1. node[Root].kids = <<>>
    BY <1>1, <1>3 DEF StaysPut, TypesKnown
  <2>2. Range(node'[Root].kids) \subseteq Range(node[Root].kids)
    BY <1>1, <1>3 DEF StaysPut
  <2>3. Range(node[Root].kids) = {}
    BY <2>1 DEF Range
  <2>4. node'[Root].kids \in Seq(Node)
    BY <1>1 DEF Fields
  <2>5. DOMAIN node'[Root].kids = {}
    BY <2>2, <2>3 DEF Range
  <2> DEFINE kids == node'[Root].kids
  <2>6. kids \in Seq(Node) /\ DOMAIN kids = {}
    BY <2>4, <2>5
  <2> HIDE DEF kids
  <2>7. Len(kids) \in Nat /\ DOMAIN kids = 1 .. Len(kids)
    BY <2>6
  <2>8. Len(kids) = 0
    BY <2>6, <2>7
  <2>9. kids = <<>>
    BY <2>6, <2>8
  <2> QED BY <2>9 DEF kids
<1> QED BY <1>2, <1>3 DEF TypesKnown

\* and no subtree gains a node that was there before.
LEMMA SubtreesStay ==
  ASSUME NoDanglingKid, NoDanglingKid', StaysPut, NEW m \in Live'
  PROVE  /\ m \in Live => Subtree(m)' \subseteq Subtree(m) \cup (Live' \ Live)
         /\ m \notin Live => Subtree(m)' = {m}
         /\ Subtree(m)' \subseteq Live'
<1>1. ASSUME NEW S \in SUBSET Live', m \in S,
             \A x \in S : Range(node'[x].kids) \subseteq S
      PROVE  Subtree(m)' \subseteq S
  BY <1>1 DEF Subtree
<1>2. m \in Subtree(m)' /\ Subtree(m)' \subseteq Live'
  BY DEF Subtree
<1>3. ASSUME m \in Live PROVE Subtree(m)' \subseteq Subtree(m) \cup (Live' \ Live)
  <2> DEFINE S == (Subtree(m) \cup (Live' \ Live)) \cap Live'
  <2>1. Subtree(m) \subseteq Live /\ m \in Subtree(m)
        /\ \A x \in Subtree(m) : Range(node[x].kids) \subseteq Subtree(m)
    BY <1>3, SubtreeClosed
  <2>2. ASSUME NEW x \in S PROVE Range(node'[x].kids) \subseteq S
    <3>1. Range(node'[x].kids) \subseteq Live'
      BY DEF NoDanglingKid
    <3>2. CASE x \in Live
      BY <2>1, <3>1, <3>2 DEF StaysPut
    <3>3. CASE x \notin Live
      <4>1. node'[x].kids = <<>>
        BY <3>3 DEF StaysPut
      <4> QED BY <4>1 DEF Range
    <3> QED BY <3>2, <3>3
  <2>3. S \in SUBSET Live' /\ m \in S
    BY <2>1
  <2>4. Subtree(m)' \subseteq S
    <3> HIDE DEF S
    <3> QED BY <1>1, <2>2, <2>3
  <2> QED BY <2>4
<1>4. ASSUME m \notin Live PROVE Subtree(m)' = {m}
  <2>1. node'[m].kids = <<>>
    BY <1>4 DEF StaysPut
  <2>2. \A x \in {m} : Range(node'[x].kids) \subseteq {m}
    BY <2>1 DEF Range
  <2>3. Subtree(m)' \subseteq {m}
    BY <1>1, <2>2
  <2> QED BY <1>2, <2>3
<1> QED BY <1>2, <1>3, <1>4

\* Frame j.  The client has been called for its node;
Called(j) == \/ stack[j].n \in seen
             \/ node[stack[j].n].type = "none" /\ stack[j].next # 0

\* nothing below the children ahead of its loop has been visited;
Ahead(j) ==
  \A i \in DOMAIN node[stack[j].n].kids :
    i >= stack[j].next => Subtree(node[stack[j].n].kids[i]) \cap seen = {}

\* and all that was there below those behind it has been, except below the child the
\* next frame is for.
Behind(j) ==
  \A i \in DOMAIN node[stack[j].n].kids :
    i < stack[j].next /\ (j = Len(stack) \/ i # stack[j].next - 1)
      => Subtree(node[stack[j].n].kids[i]) \subseteq seen \cup born

FrameInOrder(j) == Called(j) /\ Ahead(j) /\ Behind(j)

InOrder == \A j \in 1 .. Len(stack) : FrameInOrder(j)

\* What a walk keeps so that no node is visited twice and none is passed over.
VisitInv == WalkingInv /\ TypesKnown /\ InOrder

\* Nothing lies below two children of one node.
LEMMA SiblingsApart ==
  ASSUME Store, NEW n \in Live, NEW k \in Range(node[n].kids), NEW q \in Range(node[n].kids),
         NEW m \in Subtree(k), m \in Subtree(q)
  PROVE  k = q
<1>0. Grove
  BY StoreIsGrove
<1>1. k \in Live /\ q \in Live
  BY <1>0, KidPath
<1>2. m \in Live /\ Begins(node[k].path, node[m].path) /\ Begins(node[q].path, node[m].path)
  BY <1>0, <1>1, PathsGrow
<1>3. node[m].path \in Seq(Char)
  BY <1>0, <1>2, NodePath
<1>4. HeadAt(k, node[m].path, Len(node[n].path)) /\ HeadAt(q, node[m].path, Len(node[n].path))
  BY <1>0, <1>2, <1>3, KidOnTheWay
<1> QED BY <1>0, <1>4, OneKidBegins

\* The frames, their nodes and their children.
LEMMA FrameFacts ==
  ASSUME WalkingInv
  PROVE  /\ Store /\ Tree /\ NoDanglingKid /\ OneParent /\ TypeOK /\ Root \in Live
         /\ stack \in Seq(Frame) /\ Len(stack) \in Nat
         /\ \A j \in 1 .. Len(stack) : /\ stack[j] \in Frame /\ stack[j].n \in Live
                                       /\ stack[j].next \in Nat
         /\ \A j \in 1 .. Len(stack) - 1 :
              /\ j \in 1 .. Len(stack) /\ j + 1 \in 1 .. Len(stack) /\ j # Len(stack)
              /\ stack[j].next - 1 \in DOMAIN node[stack[j].n].kids
              /\ stack[j + 1].n = node[stack[j].n].kids[stack[j].next - 1]
              /\ stack[j + 1].n \in Range(node[stack[j].n].kids)
         /\ \A n \in Live : /\ node[n].kids \in Seq(Node) /\ Len(node[n].kids) \in Nat
                            /\ DOMAIN node[n].kids = 1 .. Len(node[n].kids)
                            /\ \A i \in DOMAIN node[n].kids :
                                 /\ node[n].kids[i] \in Range(node[n].kids)
                                 /\ node[n].kids[i] \in Live \ {Root}
<1>1. Store /\ FramesArePath /\ stack \in Seq(Frame)
  BY StoreInvMeans DEF WalkingInv, WalkInv, WalkTypeOK, Frame
<1>2. Tree /\ NoDanglingKid /\ OneParent /\ TypeOK /\ Root \in Live
  BY <1>1 DEF Store, Tree, HeapIsTree, TypeOK, HeapTypeOK
<1>3. Len(stack) \in Nat /\ \A j \in 1 .. Len(stack) : stack[j] \in Frame
  BY <1>1
<1>4. \A j \in 1 .. Len(stack) : stack[j].n \in Live /\ stack[j].next \in Nat
  BY <1>3 DEF Frame
<1>5. \A j \in 1 .. Len(stack) - 1 :
        j \in 1 .. Len(stack) /\ j + 1 \in 1 .. Len(stack) /\ j # Len(stack)
  BY <1>3
<1>6. \A n \in Live : node[n].kids \in Seq(Node)
  BY <1>2 DEF TypeOK, HeapTypeOK, Fields
<1>7. \A n \in Live : Len(node[n].kids) \in Nat /\ DOMAIN node[n].kids = 1 .. Len(node[n].kids)
  BY <1>6
<1>8. \A n \in Live : \A i \in DOMAIN node[n].kids :
        node[n].kids[i] \in Range(node[n].kids) /\ node[n].kids[i] \in Live \ {Root}
  BY <1>2 DEF NoDanglingKid, Range
<1> QED BY <1>1, <1>2, <1>3, <1>4, <1>5, <1>6, <1>7, <1>8 DEF FramesArePath

\* The node of the last frame lies below those of all.
LEMMA TopBelowFrames ==
  ASSUME WalkingInv, NEW j \in 1 .. Len(stack)
  PROVE  stack[Len(stack)].n \in Subtree(stack[j].n)
<1> DEFINE L == Len(stack)
           Bad == {i \in Nat : i < L /\ stack[L].n \notin Subtree(stack[L - i].n)}
<1>1. L \in Nat /\ L # 0
  BY FrameFacts
<1>2. Bad = {}
  <2> SUFFICES ASSUME Bad # {} PROVE FALSE
    OBVIOUS
  <2>1. PICK i \in Bad : \A k \in Bad : i <= k
    <3>1. Bad \in SUBSET Nat
      OBVIOUS
    <3> HIDE DEF Bad
    <3> QED BY <3>1, LeastNumber
  <2>2. i # 0
    <3>1. stack[L].n \in Live
      BY <1>1, FrameFacts
    <3>2. stack[L].n \in Subtree(stack[L].n)
      BY <3>1, FrameFacts, SubtreeClosed
    <3>3. i = 0 => L - i = L
      BY <1>1
    <3> QED BY <2>1, <3>2, <3>3
  <2>3. PICK k \in Nat : i = k + 1 /\ k < L
    <3>1. i \in Nat /\ i < L
      BY <2>1
    <3>2. i - 1 \in Nat /\ i = (i - 1) + 1 /\ i - 1 < L
      BY <1>1, <2>2, <3>1
    <3> QED BY <3>2
  <2>4. stack[L].n \in Subtree(stack[L - k].n)
    <3>1. k \notin Bad
      <4> HIDE DEF Bad, L
      <4> QED BY <2>1, <2>3
    <3> QED BY <2>3, <3>1
  <2>5. PICK p \in 1 .. L - 1 : p = L - i /\ p + 1 = L - k
    <3>1. L - i \in 1 .. L - 1 /\ L - i + 1 = L - k
      BY <1>1, <2>1, <2>2, <2>3
    <3> QED BY <3>1
  <2>6. stack[p].n \in Live /\ stack[p + 1].n \in Range(node[stack[p].n].kids)
    BY <2>5, FrameFacts
  <2>7. Subtree(stack[p + 1].n) \subseteq Subtree(stack[p].n)
    <3>1. Tree
      BY FrameFacts
    <3> HIDE DEF Bad, L
    <3>2. Subtree(stack[p + 1].n) \subseteq Subtree(stack[p].n) \ {stack[p].n}
      BY <2>6, <3>1, SizeFalls
    <3> QED BY <3>2
  <2> QED BY <2>1, <2>4, <2>5, <2>7
<1>3. L - j \in Nat /\ L - j < L /\ L - (L - j) = j
  BY <1>1
<1>4. L - j \notin Bad
  BY <1>2
<1> HIDE DEF L
<1> QED BY <1>3, <1>4 DEF L

\* While the heap is left alone, so are the subtrees.
LEMMA SameHeapSameSubtrees ==
  ASSUME node' = node
  PROVE  Live' = Live /\ \A n : Subtree(n)' = Subtree(n)
BY DEF Subtree, Live

\* A walk begins in order: nothing has been visited but the root.
LEMMA OrderWhenBegun ==
  ASSUME VisitInv, Begin
  PROVE  InOrder'
<1>1. /\ Enter(Root, <<>>, {}) /\ node' = node /\ born' = born
  BY DEF Begin
<1> DEFINE calls == node[Root].type # "none"
           f == [n |-> Root, next |-> IF calls THEN 0 ELSE 1]
<1>2. stack' = <<f>> /\ seen' = IF calls THEN {Root} ELSE {}
  BY <1>1 DEF Enter
<1>3. /\ Len(stack') = 1 /\ stack'[1].n = Root
      /\ stack'[1].next = IF calls THEN 0 ELSE 1
  BY <1>2
<1>4. WalkingInv
  BY DEF VisitInv
<1> HIDE DEF f
<1>5. ASSUME NEW i \in DOMAIN node[Root].kids
      PROVE  Subtree(node[Root].kids[i])' \cap seen' = {} /\ i \in Nat /\ i >= 1
  <2>1. node[Root].kids[i] \in Live \ {Root} /\ i \in Nat /\ i >= 1
    BY <1>4, FrameFacts
  <2>2. Root \notin Subtree(node[Root].kids[i])
    BY <1>4, <2>1, FrameFacts, RootNotBelow
  <2>3. Subtree(node[Root].kids[i])' = Subtree(node[Root].kids[i])
    BY <1>1, SameHeapSameSubtrees
  <2> QED BY <1>2, <2>1, <2>2, <2>3
<1>6. ASSUME NEW j \in 1 .. Len(stack') PROVE FrameInOrder(j)'
  <2>1. j = 1
    BY <1>3
  <2>2. Called(j)'
    BY <1>1, <1>2, <1>3, <2>1 DEF Called
  <2>3. Ahead(j)'
    BY <1>1, <1>3, <1>5, <2>1 DEF Ahead
  <2>4. Behind(j)'
    <3>1. \A i \in DOMAIN node[Root].kids : ~ (i < stack'[1].next)
      BY <1>3, <1>5
    <3> QED BY <1>1, <1>3, <2>1, <3>1 DEF Behind
  <2> QED BY <2>2, <2>3, <2>4 DEF FrameInOrder
<1> QED BY <1>6 DEF InOrder

\* A frame the step leaves as it is stays in order when nothing below it is visited.
LEMMA FrameStaysInOrder ==
  ASSUME node' = node, born' = born, seen \subseteq seen',
         NEW j \in 1 .. Len(stack), FrameInOrder(j), stack'[j] = stack[j],
         j # Len(stack) => j # Len(stack)',
         \A i \in DOMAIN node[stack[j].n].kids :
           i >= stack[j].next => Subtree(node[stack[j].n].kids[i]) \cap seen' \subseteq seen
  PROVE  FrameInOrder(j)'
<1>1. \A n : Subtree(n)' = Subtree(n)
  BY SameHeapSameSubtrees
<1>2. Called(j)'
  BY DEF FrameInOrder, Called
<1>3. Ahead(j)'
  BY <1>1 DEF FrameInOrder, Ahead
<1>4. Behind(j)'
  BY <1>1 DEF FrameInOrder, Behind
<1> QED BY <1>2, <1>3, <1>4 DEF FrameInOrder

\* When the callback returns, the loop of its node begins.
LEMMA OrderWhenCallbackReturns ==
  ASSUME VisitInv, CallbackReturns
  PROVE  InOrder'
<1> DEFINE L == Len(stack)
<1>1. /\ Walking /\ Top.next = 0 /\ stack' = [stack EXCEPT ![L].next = 1]
      /\ node' = node /\ seen' = seen /\ born' = born
  BY DEF CallbackReturns, InCallback
<1>2. WalkingInv /\ InOrder /\ WalkTypeOK
  BY DEF VisitInv, WalkingInv, WalkInv
<1>3. /\ stack \in Seq(Frame) /\ L \in Nat /\ L # 0
      /\ \A j \in 1 .. L : stack[j] \in Frame
      /\ stack[L].next = 0 /\ stack[L].n \in Live
  BY <1>1, <1>2, TopFrame DEF WalkTypeOK, Frame
<1>4. [stack[L] EXCEPT !.next = 1] \in Frame /\ [stack[L] EXCEPT !.next = 1].n = stack[L].n
      /\ [stack[L] EXCEPT !.next = 1].next = 1
  BY <1>3 DEF Frame
<1>5. /\ Len(stack') = L
      /\ \A j \in 1 .. L : j # L => stack'[j] = stack[j]
      /\ stack'[L].n = stack[L].n /\ stack'[L].next = 1
  BY <1>1, <1>3, <1>4, ExceptSeq
<1>6. ASSUME NEW j \in 1 .. L PROVE FrameInOrder(j)'
  <2>1. FrameInOrder(j)
    BY <1>2 DEF InOrder
  <2>2. CASE j # L
    <3>1. stack'[j] = stack[j] /\ j # Len(stack)'
      BY <1>5, <2>2
    <3> QED BY <1>1, <2>1, <3>1, FrameStaysInOrder
  <2>3. CASE j = L
    <3>1. \A n : Subtree(n)' = Subtree(n)
      BY <1>1, SameHeapSameSubtrees
    <3>2. \A i \in DOMAIN node[stack[L].n].kids : i \in Nat /\ i >= 1
      <4>1. /\ Len(node[stack[L].n].kids) \in Nat
            /\ DOMAIN node[stack[L].n].kids = 1 .. Len(node[stack[L].n].kids)
        BY <1>2, <1>3, FrameFacts
      <4> QED BY <4>1
    <3>3. Called(j)'
      BY <1>1, <1>3, <1>5, <2>1, <2>3 DEF FrameInOrder, Called
    <3>4. Ahead(j)'
      <4>1. \A i \in DOMAIN node[stack[L].n].kids :
              Subtree(node[stack[L].n].kids[i]) \cap seen = {}
        BY <1>3, <2>1, <2>3, <3>2 DEF FrameInOrder, Ahead
      <4> QED BY <1>1, <1>5, <2>3, <3>1, <4>1 DEF Ahead
    <3>5. Behind(j)'
      <4>1. \A i \in DOMAIN node[stack[L].n].kids : ~ (i < 1)
        BY <3>2
      <4> QED BY <1>1, <1>5, <2>3, <4>1 DEF Behind
    <3> QED BY <3>3, <3>4, <3>5 DEF FrameInOrder
  <2> QED BY <2>2, <2>3
<1> QED BY <1>5, <1>6 DEF InOrder

\* The step down to the next child: it has not been visited, and now it is.
LEMMA DescendVisits ==
  ASSUME VisitInv, Descend
  PROVE  LET L == Len(stack)  n == stack[L].n  c == stack[L].next  k == node[n].kids[c] IN
         /\ n \in Live /\ c \in DOMAIN node[n].kids /\ k \in Range(node[n].kids)
         /\ k \in Live \ {Root} /\ k \notin seen
         /\ node' = node /\ born' = born /\ sizing' = sizing /\ seen' = seen \cup {k}
         /\ Len(stack') = L + 1
         /\ \A j \in 1 .. L : j # L => stack'[j] = stack[j]
         /\ stack'[L].n = n /\ stack'[L].next = c + 1
         /\ stack'[L + 1].n = k /\ stack'[L + 1].next = 0
         /\ count' = IF sizing THEN count + Counted(node[k]) ELSE count
<1> DEFINE L == Len(stack)
           n == stack[L].n
           c == stack[L].next
           k == node[n].kids[c]
           f == [n |-> k, next |-> 0]
           below == [stack EXCEPT ![L].next = @ + 1]
<1>1. WalkingInv /\ WalkTypeOK /\ TypesKnown /\ InOrder
  BY DEF VisitInv, WalkingInv, WalkInv
<1>2. /\ Walking /\ Top.next \in DOMAIN node[Top.n].kids
      /\ Enter(node[Top.n].kids[Top.next], below, seen) /\ UNCHANGED <<node, oob, born, sizing>>
  BY DEF Descend, Child, Increment
<1>3. /\ stack \in Seq(Frame) /\ L \in Nat /\ L # 0 /\ L \in 1 .. L
      /\ \A j \in 1 .. L : stack[j] \in Frame
      /\ Top = stack[L] /\ n \in Live /\ c \in Nat
  BY <1>1, <1>2, TopFrame DEF WalkTypeOK, Frame
<1>4. c \in DOMAIN node[n].kids /\ Enter(k, below, seen)
  BY <1>2, <1>3
<1>5. k \in Live \ {Root} /\ k \in Range(node[n].kids)
  BY <1>1, <1>3, <1>4, FrameFacts
<1>6. node[k].type # "none"
  BY <1>1, <1>5 DEF TypesKnown
<1>7. [stack[L] EXCEPT !.next = @ + 1] \in Frame
  BY <1>3 DEF Frame
<1>8. /\ below \in Seq(Frame) /\ Len(below) = L
      /\ \A j \in 1 .. L : j # L => below[j] = stack[j]
      /\ below[L].n = n /\ below[L].next = c + 1
  BY <1>3, <1>7, ExceptSeq DEF Frame
<1>9. stack' = Append(below, f) /\ seen' = seen \cup {k} /\ f \in Frame
  <2>1. stack' = Append(below, f) /\ seen' = seen \cup {k}
    <3> HIDE DEF below, k
    <3> QED BY <1>4, <1>6 DEF Enter
  <2>2. f \in Frame
    BY <1>5 DEF Frame
  <2> QED BY <2>1, <2>2
<1>10. f.n = k /\ f.next = 0
       /\ count' = IF sizing THEN count + Counted(node[k]) ELSE count
  <2>1. f.n = k /\ f.next = 0
    OBVIOUS
  <2>2. count' = IF sizing THEN count + Counted(node[k]) ELSE count
    <3> HIDE DEF below, k
    <3> QED BY <1>2, <1>4, <1>6 DEF Enter
  <2> QED BY <2>1, <2>2
<1>11. k \notin seen
  <2>1. Ahead(L)
    BY <1>1, <1>3 DEF InOrder, FrameInOrder
  <2>2. Subtree(k) \cap seen = {}
    <3>1. \A i \in DOMAIN node[n].kids : i >= c => Subtree(node[n].kids[i]) \cap seen = {}
      BY <2>1 DEF Ahead
    <3>2. c >= c
      BY <1>3
    <3> HIDE DEF n, c
    <3> QED BY <1>4, <3>1, <3>2
  <2>3. k \in Subtree(k)
    BY <1>1, <1>5, FrameFacts, SubtreeClosed
  <2> QED BY <2>2, <2>3
<1> HIDE DEF below, f, k, n, c
<1>12. /\ Len(stack') = L + 1 /\ \A j \in 1 .. L : stack'[j] = below[j]
       /\ stack'[L + 1] = f
  BY <1>8, <1>9, AppendProperties
<1>13. /\ \A j \in 1 .. L : j # L => stack'[j] = stack[j]
       /\ stack'[L].n = n /\ stack'[L].next = c + 1
       /\ stack'[L + 1].n = k /\ stack'[L + 1].next = 0
  BY <1>3, <1>8, <1>10, <1>12
<1> QED BY <1>2, <1>3, <1>4, <1>5, <1>9, <1>10, <1>11, <1>12, <1>13 DEF k, n, c

\* No child but one holds a node below it.
LEMMA OnlyOneHolds ==
  ASSUME WalkingInv, NEW n \in Live, NEW c \in DOMAIN node[n].kids,
         NEW i \in DOMAIN node[n].kids, i # c, NEW m \in Subtree(node[n].kids[c])
  PROVE  m \notin Subtree(node[n].kids[i])
<1>1. /\ Store /\ OneParent
      /\ node[n].kids[c] \in Range(node[n].kids) /\ node[n].kids[i] \in Range(node[n].kids)
  BY FrameFacts
<1>2. node[n].kids[c] # node[n].kids[i]
  BY <1>1 DEF OneParent
<1> QED BY <1>1, <1>2, SiblingsApart

\* The child that gets a frame is the first of those ahead; the frames below it stay in order.
LEMMA OrderWhenDescending ==
  ASSUME VisitInv, Descend
  PROVE  InOrder'
<1>1. WalkingInv /\ InOrder /\ Tree /\ NoDanglingKid /\ Len(stack) \in Nat /\ Len(stack) # 0
  BY FrameFacts, TopFrame DEF VisitInv, WalkingInv, WalkInv, Descend
<1> PICK L \in Nat : L = Len(stack) /\ L # 0
  BY <1>1
<1> DEFINE n == stack[L].n
           c == stack[L].next
           k == node[n].kids[c]
<1>2. /\ n \in Live /\ c \in DOMAIN node[n].kids /\ k \in Range(node[n].kids)
      /\ k \in Live \ {Root} /\ k \notin seen
      /\ node' = node /\ born' = born /\ sizing' = sizing /\ seen' = seen \cup {k}
      /\ Len(stack') = L + 1
      /\ \A j \in 1 .. L : j # L => stack'[j] = stack[j]
      /\ stack'[L].n = n /\ stack'[L].next = c + 1
      /\ stack'[L + 1].n = k /\ stack'[L + 1].next = 0
  BY DescendVisits
<1>3. /\ k \in Subtree(k) /\ Subtree(k) \subseteq Subtree(n)
      /\ \A m : Subtree(m)' = Subtree(m)
  <2>1. k \in Subtree(k)
    BY <1>1, <1>2, SubtreeClosed
  <2>2. Subtree(k) \subseteq Subtree(n) \ {n}
    <3> HIDE DEF k, n
    <3>1. \A q \in Range(node[n].kids) : Subtree(q) \subseteq Subtree(n) \ {n}
      BY <1>1, <1>2, SizeFalls
    <3> QED BY <1>2, <3>1
  <2>3. \A m : Subtree(m)' = Subtree(m)
    BY <1>2, SameHeapSameSubtrees
  <2> QED BY <2>1, <2>2, <2>3
<1> HIDE DEF k, n, c
<1>4. c \in Nat /\ \A i \in DOMAIN node[n].kids : i \in Nat
  <2>1. /\ Len(node[n].kids) \in Nat
        /\ DOMAIN node[n].kids = 1 .. Len(node[n].kids)
    BY <1>1, <1>2, FrameFacts
  <2> QED BY <1>2, <2>1
<1>5. ASSUME NEW j \in 1 .. L, j # L PROVE FrameInOrder(j)'
  <2>1. FrameInOrder(j) /\ stack'[j] = stack[j] /\ j # Len(stack)'
    <3>1. j # L + 1
      BY <1>1
    <3> QED BY <1>1, <1>2, <1>5, <3>1 DEF InOrder
  <2>2. j \in 1 .. L - 1 /\ j + 1 \in 1 .. L
    BY <1>1, <1>5
  <2>3. /\ stack[j].n \in Live
        /\ stack[j].next - 1 \in DOMAIN node[stack[j].n].kids
        /\ stack[j + 1].n = node[stack[j].n].kids[stack[j].next - 1]
    BY <1>1, <2>2, FrameFacts
  <2>4. n \in Subtree(stack[j + 1].n)
    BY <1>1, <2>2, TopBelowFrames DEF n
  <2>5. k \in Subtree(stack[j + 1].n)
    <3>1. Subtree(stack[j + 1].n) \subseteq Live
          /\ \A m \in Subtree(stack[j + 1].n) : Range(node[m].kids) \subseteq Subtree(stack[j + 1].n)
      <4>1. stack[j + 1].n \in Live
        BY <1>1, <2>2, FrameFacts
      <4> QED BY <1>1, <4>1, SubtreeClosed
    <3> QED BY <1>2, <2>4, <3>1
  <2>6. ASSUME NEW i \in DOMAIN node[stack[j].n].kids, i >= stack[j].next
        PROVE  Subtree(node[stack[j].n].kids[i]) \cap seen' \subseteq seen
    <3>1. i # stack[j].next - 1
      <4>1. i \in Nat /\ stack[j].next \in Nat
        <5>1. /\ Len(node[stack[j].n].kids) \in Nat
              /\ DOMAIN node[stack[j].n].kids = 1 .. Len(node[stack[j].n].kids)
          BY <1>1, <2>3, FrameFacts
        <5>2. stack[j].next \in Nat
          BY <1>1, FrameFacts
        <5> QED BY <5>1, <5>2
      <4> QED BY <2>6, <4>1
    <3>2. k \notin Subtree(node[stack[j].n].kids[i])
      BY <1>1, <2>3, <2>5, <3>1, OnlyOneHolds
    <3> QED BY <1>2, <3>2
  <2> QED BY <1>2, <2>1, <2>6, FrameStaysInOrder
<1>6. FrameInOrder(L)'
  <2>1. FrameInOrder(L) /\ L # Len(stack)'
    <3>1. L \in 1 .. L /\ L # L + 1
      OBVIOUS
    <3> QED BY <1>1, <1>2, <3>1 DEF InOrder
  <2>2. Called(L)'
    BY <1>2, <1>4, <2>1 DEF FrameInOrder, Called, n, c
  <2>3. Ahead(L)'
    <3>1. ASSUME NEW i \in DOMAIN node[n].kids, i >= c + 1
          PROVE  Subtree(node[n].kids[i]) \cap seen' = {}
      <4>1. i # c /\ i >= c
        BY <1>4, <3>1
      <4>2. Subtree(node[n].kids[i]) \cap seen = {}
        BY <2>1, <4>1 DEF FrameInOrder, Ahead, n, c
      <4>3. k \notin Subtree(node[n].kids[i])
        BY <1>1, <1>2, <1>3, <4>1, OnlyOneHolds DEF k
      <4> QED BY <1>2, <4>2, <4>3
    <3> QED BY <1>2, <1>3, <3>1 DEF Ahead
  <2>4. Behind(L)'
    <3>1. ASSUME NEW i \in DOMAIN node[n].kids, i < c + 1, i # (c + 1) - 1
          PROVE  Subtree(node[n].kids[i]) \subseteq seen' \cup born
      <4>1. i < c
        BY <1>4, <3>1
      <4>2. Subtree(node[n].kids[i]) \subseteq seen \cup born
        BY <2>1, <4>1 DEF FrameInOrder, Behind, n, c
      <4> QED BY <1>2, <4>2
    <3> QED BY <1>2, <1>3, <2>1, <3>1 DEF Behind
  <2> QED BY <2>2, <2>3, <2>4 DEF FrameInOrder
<1>7. FrameInOrder(L + 1)'
  <2>1. Called(L + 1)'
    BY <1>2 DEF Called
  <2>2. Ahead(L + 1)'
    <3>1. ASSUME NEW i \in DOMAIN node[k].kids
          PROVE  Subtree(node[k].kids[i]) \cap seen' = {}
      <4>1. node[k].kids[i] \in Range(node[k].kids)
        BY <1>1, <1>2, FrameFacts
      <4>2. Subtree(node[k].kids[i]) \subseteq Subtree(k) \ {k}
        BY <1>1, <1>2, <4>1, SizeFalls
      <4>3. Subtree(k) \cap seen = {}
        <5>1. FrameInOrder(L) /\ c >= c
          <6>1. L \in 1 .. L
            OBVIOUS
          <6> QED BY <1>1, <1>4, <6>1 DEF InOrder
        <5> QED BY <1>2, <5>1 DEF FrameInOrder, Ahead, n, c, k
      <4> QED BY <1>2, <4>2, <4>3
    <3> QED BY <1>2, <1>3, <3>1 DEF Ahead
  <2>3. Behind(L + 1)'
    <3>1. /\ Len(node[k].kids) \in Nat /\ DOMAIN node[k].kids = 1 .. Len(node[k].kids)
      BY <1>1, <1>2, FrameFacts
    <3>2. \A i \in DOMAIN node[k].kids : ~ (i < 0)
      BY <3>1
    <3> QED BY <1>2, <3>2 DEF Behind
  <2> QED BY <2>1, <2>2, <2>3 DEF FrameInOrder
<1>8. ASSUME NEW j \in 1 .. Len(stack') PROVE FrameInOrder(j)'
  <2>1. (j \in 1 .. L /\ j # L) \/ j = L \/ j = L + 1
    BY <1>1, <1>2
  <2> QED BY <1>5, <1>6, <1>7, <2>1
<1> QED BY <1>8 DEF InOrder

\* A loop that is done is through: all that was there below its node has been visited.
LEMMA LeftBehind ==
  ASSUME VisitInv, LoopDone
  PROVE  /\ stack[Len(stack)].n \in Live
         /\ \A m \in Subtree(stack[Len(stack)].n) : m \in seen \cup born \/ node[m].type = "none"
<1>1. WalkingInv /\ WalkTypeOK /\ TypesKnown /\ InOrder /\ Tree /\ NoDanglingKid
      /\ Walking /\ Len(stack) \in Nat /\ Len(stack) # 0 /\ Top = stack[Len(stack)]
  BY FrameFacts, TopFrame DEF VisitInv, WalkingInv, WalkInv, LoopDone
<1> PICK L \in Nat : L = Len(stack) /\ L # 0
  BY <1>1
<1> DEFINE n == stack[L].n
<1>2. n \in Live /\ stack[L].next \in Nat /\ stack[L].next > Len(node[n].kids)
      /\ FrameInOrder(L)
  <2>1. L \in 1 .. L
    OBVIOUS
  <2> QED BY <1>1, <2>1, FrameFacts DEF InOrder, LoopDone
<1>3. n \in seen \/ node[n].type = "none"
  BY <1>2 DEF FrameInOrder, Called
<1>4. ASSUME NEW m \in Subtree(n), m # n PROVE m \in seen \cup born
  <2>1. PICK q \in Range(node[n].kids) : m \in Subtree(q)
    BY <1>1, <1>2, <1>4, TreeIsWood, BelowAKid
  <2>2. PICK i \in DOMAIN node[n].kids : q = node[n].kids[i]
    BY DEF Range
  <2>3. i < stack[L].next
    <3>1. Len(node[n].kids) \in Nat /\ DOMAIN node[n].kids = 1 .. Len(node[n].kids)
      BY <1>1, <1>2, FrameFacts
    <3> QED BY <1>2, <2>2, <3>1
  <2>4. Subtree(q) \subseteq seen \cup born
    BY <1>2, <2>2, <2>3 DEF FrameInOrder, Behind
  <2> QED BY <2>1, <2>4
<1> QED BY <1>2, <1>3, <1>4

\* The frame below the one that goes is past the child that has been visited.
LEMMA OrderWhenLeaving ==
  ASSUME VisitInv, Leave
  PROVE  InOrder'
<1>1. WalkingInv /\ InOrder /\ TypesKnown /\ stack \in Seq(Frame)
      /\ Len(stack) \in Nat /\ Len(stack) # 0 /\ stack # <<>>
      /\ stack' = Front(stack) /\ node' = node
  BY FrameFacts, TopFrame DEF VisitInv, WalkingInv, WalkInv, Leave, LoopDone, Walking
<1> PICK L \in Nat : L = Len(stack) /\ L # 0
  BY <1>1
<1>2. Len(stack') = L - 1 /\ \A j \in 1 .. L - 1 : stack'[j] = stack[j]
  BY <1>1, FrontAndLast
<1>3. CASE L = 1
  BY <1>2, <1>3 DEF InOrder
<1>4. CASE L # 1
  <2>1. seen' = seen /\ born' = born
    <3>1. L > 1
      BY <1>4
    <3> QED BY <3>1 DEF Leave
  <2>2. \A m : Subtree(m)' = Subtree(m)
    BY <1>1, SameHeapSameSubtrees
  <2>3. ASSUME NEW j \in 1 .. L - 1 PROVE FrameInOrder(j)'
    <3>1. j \in 1 .. L /\ j # L
      OBVIOUS
    <3>2. FrameInOrder(j) /\ stack'[j] = stack[j]
      BY <1>1, <1>2, <3>1 DEF InOrder
    <3>3. Called(j)' /\ Ahead(j)'
      BY <1>1, <2>1, <2>2, <3>2 DEF FrameInOrder, Called, Ahead
    <3>4. Behind(j)'
      <4>1. ASSUME NEW i \in DOMAIN node[stack[j].n].kids, i < stack[j].next,
                   j = L - 1 \/ i # stack[j].next - 1
            PROVE  Subtree(node[stack[j].n].kids[i]) \subseteq seen \cup born
        <5>1. CASE i # stack[j].next - 1
          BY <3>2, <4>1, <5>1 DEF FrameInOrder, Behind
        <5>2. CASE i = stack[j].next - 1
          <6>1. j = L - 1
            BY <4>1, <5>2
          <6>2. j + 1 = L /\ j \in 1 .. Len(stack) - 1
            BY <6>1
          <6>3. node[stack[j].n].kids[i] = stack[L].n
            BY <1>1, <5>2, <6>2, FrameFacts
          <6>4. node[stack[j].n].kids[i] \in Live \ {Root}
            BY <1>1, <6>2, FrameFacts
          <6>5. Subtree(stack[L].n) \subseteq Live \ {Root}
            <7>1. NoDanglingKid
              BY <1>1, FrameFacts
            <7> QED BY <6>3, <6>4, <7>1, SubtreeClosed, RootNotBelow
          <6>6. \A m \in Subtree(stack[L].n) : m \in seen \cup born
            BY <1>1, <6>5, LeftBehind DEF TypesKnown, Leave
          <6> QED BY <6>3, <6>6
        <5> QED BY <5>1, <5>2
      <4>2. \A i \in DOMAIN node'[stack'[j].n].kids :
               i < stack'[j].next /\ (j = Len(stack') \/ i # stack'[j].next - 1)
                 => Subtree(node[stack[j].n].kids[i]) \subseteq seen \cup born
        BY <1>1, <1>2, <3>2, <4>1
      <4> QED BY <1>1, <2>1, <2>2, <3>2, <4>2 DEF Behind
    <3> QED BY <3>3, <3>4 DEF FrameInOrder
  <2> QED BY <1>2, <2>3 DEF InOrder
<1> QED BY <1>3, <1>4

\* While the callback runs, every node with a frame has been visited.
LEMMA FramesSeen ==
  ASSUME VisitInv, InCallback, NEW j \in 1 .. Len(stack)
  PROVE  stack[j].n \in seen
<1>1. /\ WalkingInv /\ TypesKnown /\ Top.next = 0 /\ Top = stack[Len(stack)]
      /\ Len(stack) \in Nat /\ stack[j].n \in Live
  BY FrameFacts, TopFrame DEF VisitInv, WalkingInv, WalkInv, InCallback
<1>2. Called(j)
  BY DEF VisitInv, InOrder, FrameInOrder
<1>3. CASE j = Len(stack)
  BY <1>1, <1>2, <1>3 DEF Called
<1>4. CASE j # Len(stack)
  <2>1. j \in 1 .. Len(stack) - 1
    BY <1>1, <1>4
  <2>2. stack[j].next - 1 \in DOMAIN node[stack[j].n].kids
    BY <1>1, <2>1, FrameFacts
  <2>3. node[stack[j].n].kids # <<>>
    BY <2>2
  <2>4. node[stack[j].n].type # "none"
    BY <1>1, <2>3 DEF TypesKnown
  <2> QED BY <1>2, <2>4 DEF Called
<1> QED BY <1>3, <1>4

\* The client's call leaves the nodes in a loop their children, and brings no node that
\* was there below another child.
LEMMA OrderWhenCalledBack ==
  ASSUME VisitInv, Callback, WalkingInv'
  PROVE  InOrder'
<1>1. /\ WalkingInv /\ InOrder /\ TypesKnown /\ Walking /\ Top.next = 0
      /\ Len(stack) \in Nat /\ Len(stack) # 0 /\ Top = stack[Len(stack)]
      /\ seen \subseteq Live /\ born \subseteq Live /\ Len(stack') = Len(stack)
  BY FrameFacts, TopFrame
  DEF VisitInv, WalkingInv, WalkInv, WalkTypeOK, Callback, InCallback
<1> PICK L \in Nat : L = Len(stack) /\ L # 0
  BY <1>1
<1>2. /\ stack' = stack /\ KeepsIterators /\ Next
      /\ seen' = seen \cap Live' /\ born' = (born \cap Live') \cup (Live' \ Live)
  BY StoreCallsTrie, CallbackCallsStore, CallbackKeeps DEF Callback, VisitInv
<1>3. StaysPut /\ NoDanglingKid
  BY <1>1, <1>2, NodesStayPut, FrameFacts DEF WalkingInv, WalkInv
<1>4. NoDanglingKid' /\ WalkTypeOK'
  BY DEF WalkingInv, WalkInv, IInv, HeapIsTree
<1>5. \A m \in Live' :
        /\ m \in Live => Subtree(m)' \subseteq Subtree(m) \cup (Live' \ Live)
        /\ m \notin Live => Subtree(m)' = {m}
        /\ Subtree(m)' \subseteq Live'
  BY <1>3, <1>4, SubtreesStay
<1>6. \A j \in 1 .. L : stack[j].n \in Live /\ stack[j].n \in Live'
  <2>1. \A j \in 1 .. L : stack[j].n \in Live
    BY <1>1, FrameFacts
  <2> DEFINE F == [n : Live', next : Nat]
  <2>2. stack \in Seq(F)
    BY <1>2, <1>4 DEF WalkTypeOK
  <2> HIDE DEF F
  <2>3. \A j \in 1 .. L : stack[j] \in F
    BY <2>2
  <2> QED BY <2>1, <2>3 DEF F
<1>7. \A j \in 1 .. L : stack[j].n \in seen
  BY FramesSeen DEF Callback
<1>8. \A n \in Live' : DOMAIN node'[n].kids \subseteq Nat
      /\ \A i \in DOMAIN node'[n].kids : node'[n].kids[i] \in Live'
                                         /\ node'[n].kids[i] \in Range(node'[n].kids)
  <2>1. TypeOK'
    BY <1>4 DEF WalkTypeOK
  <2>2. \A n \in Live' : node'[n].kids \in Seq(Node)
    BY <2>1 DEF TypeOK, HeapTypeOK, Fields
  <2>3. \A n \in Live' : DOMAIN node'[n].kids \subseteq Nat
    BY <2>2
  <2> QED BY <1>4, <2>3 DEF NoDanglingKid, Range
<1>9. ASSUME NEW j \in 1 .. L PROVE FrameInOrder(j)'
  <2> DEFINE n == stack[j].n
  <2>1. n \in Live /\ n \in Live' /\ n \in seen /\ FrameInOrder(j)
    BY <1>1, <1>6, <1>7 DEF InOrder
  <2>2. Called(j)'
    BY <1>2, <2>1 DEF Called
  <2>3. CASE j # L
    <3>1. node'[n].kids = node[n].kids
      <4>1. n \in InLoop
        BY <2>3 DEF InLoop
      <4> QED BY <1>2, <4>1 DEF KeepsIterators
    <3>2. ASSUME NEW i \in DOMAIN node[n].kids, NEW q \in {node[n].kids[i]}
          PROVE  Subtree(q)' \subseteq (Subtree(q) \cup (Live' \ Live)) \cap Live'
      <4>1. q \in Live
        BY <1>1, <2>1, FrameFacts, SMTT(30)
      <4>2. q \in Live'
        BY <1>8, <2>1, <3>1
      <4> QED BY <1>5, <4>1, <4>2
    <3>3. Ahead(j)'
      <4>1. ASSUME NEW i \in DOMAIN node[n].kids, NEW q \in {node[n].kids[i]},
                   i >= stack[j].next
            PROVE  Subtree(q)' \cap seen' = {}
        <5>1. Subtree(q) \cap seen = {}
          BY <2>1, <4>1 DEF FrameInOrder, Ahead
        <5> QED BY <1>1, <1>2, <3>2, <5>1
      <4> QED BY <1>2, <3>1, <4>1 DEF Ahead
    <3>4. Behind(j)'
      <4>1. ASSUME NEW i \in DOMAIN node[n].kids, NEW q \in {node[n].kids[i]},
                   i < stack[j].next /\ (j = Len(stack) \/ i # stack[j].next - 1)
            PROVE  Subtree(q)' \subseteq seen' \cup born'
        <5>1. Subtree(q) \subseteq seen \cup born
          BY <2>1, <4>1 DEF FrameInOrder, Behind
        <5> QED BY <1>2, <3>2, <5>1
      <4> QED BY <1>2, <3>1, <4>1 DEF Behind
    <3> QED BY <2>2, <3>3, <3>4 DEF FrameInOrder
  <2>4. CASE j = L
    <3>1. stack[j].next = 0
      BY <1>1, <2>4
    <3>2. ASSUME NEW i \in DOMAIN node'[n].kids, NEW q \in {node'[n].kids[i]}
          PROVE  Subtree(q)' \cap seen = {}
      <4>1. q \in Live' /\ q \in Range(node'[n].kids)
        BY <1>8, <2>1
      <4>2. CASE q \in Live
        <5>1. q \in Range(node[n].kids)
          BY <1>3, <2>1, <4>1, <4>2 DEF StaysPut
        <5>2. PICK k \in DOMAIN node[n].kids : q = node[n].kids[k]
          BY <5>1 DEF Range
        <5>3. k >= stack[j].next
          <6>1. DOMAIN node[n].kids = 1 .. Len(node[n].kids) /\ Len(node[n].kids) \in Nat
            BY <1>1, <2>1, FrameFacts
          <6> QED BY <3>1, <5>2, <6>1
        <5>4. Subtree(q) \cap seen = {}
          BY <2>1, <5>2, <5>3 DEF FrameInOrder, Ahead
        <5>5. Subtree(q)' \subseteq Subtree(q) \cup (Live' \ Live)
          BY <1>5, <4>1, <4>2
        <5> QED BY <1>1, <5>4, <5>5
      <4>3. CASE q \notin Live
        <5>1. Subtree(q)' = {q}
          BY <1>5, <4>1, <4>3
        <5> QED BY <1>1, <4>3, <5>1
      <4> QED BY <4>2, <4>3
    <3>3. Ahead(j)'
      BY <1>2, <3>2 DEF Ahead
    <3>4. Behind(j)'
      <4>1. \A i \in DOMAIN node'[n].kids : ~ (i < 0)
        BY <1>8, <2>1
      <4> QED BY <1>2, <3>1, <4>1 DEF Behind
    <3> QED BY <2>2, <3>3, <3>4 DEF FrameInOrder
  <2> QED BY <2>3, <2>4
<1> QED BY <1>1, <1>9 DEF InOrder

\* The order holds in the beginning, and every step keeps it.
LEMMA VisitInvInit == WalkInit => VisitInv
<1> SUFFICES ASSUME WalkInit PROVE VisitInv
  OBVIOUS
<1>1. stack = <<>> /\ Init /\ WalkingInv
  BY WalkingInvInit DEF WalkInit
<1>2. InOrder
  BY <1>1 DEF InOrder
<1>3. Live = {Root} /\ node[Root].kids = <<>>
  BY <1>1 DEF Init, Live
<1> QED BY <1>1, <1>2, <1>3 DEF VisitInv, TypesKnown

\* Types stay known through every step.
LEMMA TypesKnownStep ==
  ASSUME VisitInv, [WalkNext]_walkVars, WalkingInv'
  PROVE  TypesKnown'
<1>1. IInv /\ TypeOK /\ TypeOK' /\ TypesKnown
  BY DEF VisitInv, WalkingInv, WalkInv, IInv
<1>2. CASE node' = node
  BY <1>1, <1>2 DEF TypesKnown, Live
<1>3. CASE StoreNext
  BY <1>1, <1>3, StoreCallsTrie, NodesStayPut, TypesStayKnown
<1> QED BY <1>2, <1>3, WalkStepIsStoreStep DEF vars

\* And so it is with every step.
LEMMA VisitInvStep == VisitInv /\ [WalkNext]_walkVars => VisitInv'
<1> SUFFICES ASSUME VisitInv, [WalkNext]_walkVars PROVE VisitInv'
  OBVIOUS
<1>1. WalkingInv' /\ TypesKnown'
  BY WalkingInvStep, TypesKnownStep DEF VisitInv
<1>2. CASE WalkNext
  <2>1. InOrder'
    <3>1. CASE Begin
      BY <3>1, OrderWhenBegun
    <3>2. CASE CallbackReturns
      BY <3>2, OrderWhenCallbackReturns
    <3>3. CASE Descend
      BY <3>3, OrderWhenDescending
    <3>4. CASE Leave
      BY <3>4, OrderWhenLeaving
    <3>5. CASE Callback
      BY <1>1, <3>5, OrderWhenCalledBack
    <3>6. CASE Client
      <4>1. stack' = <<>>
        BY <3>6 DEF Client, Walking
      <4> QED BY <4>1 DEF InOrder
    <3> QED BY <1>2, <3>1, <3>2, <3>3, <3>4, <3>5, <3>6 DEF WalkNext, WalkStep
  <2> QED BY <1>1, <2>1 DEF VisitInv
<1>3. CASE UNCHANGED walkVars
  <2>1. UNCHANGED <<node, stack, seen, born>> /\ \A n : Subtree(n)' = Subtree(n)
    BY <1>3, SameHeapSameSubtrees DEF walkVars
  <2>2. ASSUME NEW j \in 1 .. Len(stack) PROVE FrameInOrder(j)'
    <3>1. FrameInOrder(j)
      BY DEF VisitInv, InOrder
    <3> QED BY <2>1, <3>1 DEF FrameInOrder, Called, Ahead, Behind
  <2> QED BY <1>1, <2>1, <2>2 DEF VisitInv, InOrder
<1> QED BY <1>2, <1>3

-----------------------------------------------------------------------------
(* The steps of a walk, as those of module Traversal.                      *)

\* The client is being called exactly while the frame on top says so.
LEMMA CallingMeans ==
  ASSUME VisitInv, Walking
  PROVE  /\ Top.next = 0 => Calling = Top.n /\ Calling \in Live /\ Calling # NoPtr
         /\ Top.next # 0 => Calling = NoPtr
         /\ Top = stack[Len(stack)] /\ Top.n \in Live
<1>1. Top \in Frame /\ Top = stack[Len(stack)] /\ Live \subseteq Node
  BY TopFrame DEF VisitInv, WalkingInv, WalkInv, IInv, TypeOK, HeapTypeOK
<1> QED BY <1>1, NodeAssumption DEF Calling, InCallback, Frame

\* A walk that begins owes its client the nodes that are there.
LEMMA BeginIsBegin ==
  ASSUME VisitInv, Begin
  PROVE  visit!Begin
<1> DEFINE f == [n |-> Root, next |-> IF node[Root].type # "none" THEN 0 ELSE 1]
           none == <<>>
<1>1. ~ Walking /\ Enter(Root, none, {}) /\ UNCHANGED <<node, oob, born>>
  BY DEF Begin
<1>2. stack' = Append(none, f) /\ seen' = IF node[Root].type # "none" THEN {Root} ELSE {}
  BY <1>1 DEF Enter
<1>3. Root \in Node /\ Live \subseteq Node
  BY DEF VisitInv, WalkingInv, WalkInv, IInv, TypeOK, HeapTypeOK
<1>4. Live' = Live
  BY <1>1 DEF Live
<1>5. Owed' \in SUBSET Node
  BY <1>3, <1>4 DEF Owed
<1>6. Walking' /\ Top' = f
  <2> HIDE DEF f
  <2>1. stack' = <<f>>
    BY <1>2
  <2> QED BY <2>1 DEF Walking, Top, Last
<1>7. \/ Calling' = NoPtr /\ seen' = {}
      \/ Calling' \in Node /\ seen' = {Calling'}
  BY <1>2, <1>3, <1>6 DEF Calling, InCallback
<1> QED BY <1>1, <1>5, <1>6, <1>7 DEF visit!Begin

\* The client is called for the child the walk steps down to, for the first time.
LEMMA DescendIsVisit ==
  ASSUME VisitInv, Descend
  PROVE  \E n \in Node : visit!Visit(n)
<1> DEFINE L == Len(stack)
           k == node[stack[L].n].kids[stack[L].next]
<1>1. /\ k \in Live \ {Root} /\ k \notin seen
      /\ node' = node /\ born' = born /\ seen' = seen \cup {k} /\ Len(stack') = L + 1
  BY DescendVisits
<1>2. Walking /\ L \in Nat /\ k \in Node
  BY <1>1, FrameFacts DEF Descend, VisitInv, TypeOK, HeapTypeOK
<1>3. Walking'
  <2>1. stack' # <<>>
    BY <1>1, <1>2
  <2> QED BY <2>1 DEF Walking
<1>4. Live' = Live
  BY <1>1 DEF Live
<1>5. Calling = NoPtr
  <2>1. Top.next \in DOMAIN node[Top.n].kids /\ Top.n \in Live /\ TypeOK
    BY <1>2, CallingMeans DEF Descend, VisitInv, WalkingInv, WalkInv, IInv
  <2>2. node[Top.n].kids \in Seq(Node)
    BY <2>1 DEF TypeOK, HeapTypeOK, Fields
  <2>3. Top.next # 0
    BY <2>1, <2>2
  <2> QED BY <1>2, <2>3, CallingMeans
<1>6. Calling' = k
  <2> DEFINE f == [n |-> k, next |-> 0]
             below == [stack EXCEPT ![L].next = Increment(@)]
  <2>1. node[k].type # "none"
    BY <1>1 DEF VisitInv, TypesKnown
  <2>2. stack' = Append(below, f)
    <3>1. Top = stack[L] /\ Enter(Child(node[Top.n], Top.next), below, seen)
      BY <1>2, CallingMeans DEF Descend
    <3>2. Child(node[Top.n], Top.next) = k
      BY <3>1 DEF Child
    <3> HIDE DEF k, below
    <3> QED BY <2>1, <3>1, <3>2 DEF Enter
  <2>3. below \in Seq(Frame)
    <3>1. /\ stack \in Seq(Frame) /\ L \in Nat /\ L # 0
          /\ \A j \in 1 .. L : stack[j] \in Frame
      BY <1>2, FrameFacts, TopFrame DEF VisitInv, WalkingInv, WalkInv
    <3>2. [stack[L] EXCEPT !.next = Increment(@)] \in Frame
      BY <3>1 DEF Frame, Increment
    <3> QED BY <3>1, <3>2, ExceptSeq
  <2>4. f \in Frame
    BY <1>1 DEF Frame
  <2> HIDE DEF f, below
  <2>5. Last(stack') = f
    BY <2>2, <2>3, <2>4, AppendProperties DEF Last
  <2> HIDE DEF k
  <2> QED BY <1>3, <2>5 DEF Calling, InCallback, Top, f
<1> HIDE DEF k, L
<1>7. Owed' = Owed \ {k}
  BY <1>1, <1>2, <1>3, <1>4 DEF Owed
<1> QED BY <1>1, <1>2, <1>3, <1>5, <1>6, <1>7 DEF visit!Visit

\* The frame stays when its callback returns.
LEMMA StaysWalking ==
  ASSUME VisitInv, CallbackReturns
  PROVE  Walking'
<1>1. Walking /\ stack' = [stack EXCEPT ![Len(stack)].next = 1]
  BY DEF CallbackReturns, InCallback
<1>2. stack \in Seq(Frame) /\ Len(stack) \in Nat /\ Len(stack) # 0
  BY <1>1, FrameFacts, TopFrame DEF VisitInv, WalkingInv, WalkInv
<1>3. DOMAIN stack' = DOMAIN stack /\ DOMAIN stack = 1 .. Len(stack)
  BY <1>1, <1>2
<1>4. 1 \in DOMAIN stack'
  BY <1>2, <1>3
<1> QED BY <1>4 DEF Walking

\* Then the client is called for no node.
LEMMA ReturnIsReturn ==
  ASSUME VisitInv, CallbackReturns
  PROVE  visit!Return
<1> DEFINE L == Len(stack)
<1>1. /\ Walking /\ Walking' /\ Top.next = 0 /\ stack' = [stack EXCEPT ![L].next = 1]
      /\ node' = node /\ seen' = seen /\ born' = born /\ Live' = Live
  BY StaysWalking DEF CallbackReturns, InCallback, Live
<1>2. Owed' = Owed
  BY <1>1 DEF Owed
<1>3. Calling # NoPtr
  BY <1>1, CallingMeans
<1>4. Calling' = NoPtr
  <2>1. stack \in Seq(Frame) /\ L \in Nat /\ L # 0
    BY <1>1, FrameFacts, TopFrame DEF VisitInv, WalkingInv, WalkInv
  <2>2. L \in 1 .. L /\ stack[L] \in Frame
    BY <2>1
  <2>3. [stack[L] EXCEPT !.next = 1] \in Frame
    BY <2>2 DEF Frame
  <2>4. Len(stack') = L
    BY <1>1, <2>1, <2>3, ExceptSeq
  <2>5. stack'[L].next = 1
    BY <1>1, <2>1, <2>2 DEF Frame
  <2> HIDE DEF L
  <2> QED BY <2>4, <2>5 DEF Calling, InCallback, Top, Last
<1> QED BY <1>1, <1>2, <1>3, <1>4 DEF visit!Return

\* When the frame of the root is left, nothing is owed.
LEMMA LeaveIsEnd ==
  ASSUME VisitInv, Leave
  PROVE  visit!End \/ UNCHANGED visit!vars
<1>1. /\ WalkingInv /\ stack \in Seq(Frame) /\ stack # <<>> /\ Walking /\ BeginsAtRoot
      /\ Len(stack) \in Nat /\ Len(stack) # 0 /\ AllReachable
      /\ stack' = Front(stack) /\ node' = node /\ Live' = Live
  BY FrameFacts, TopFrame
  DEF VisitInv, WalkingInv, WalkInv, IInv, HeapIsTree, Leave, LoopDone, Walking, Live
<1>2. /\ Len(stack') = Len(stack) - 1
      /\ \A j \in 1 .. Len(stack) - 1 : stack'[j] = stack[j]
  BY <1>1, FrontAndLast
<1>3. Calling = NoPtr
  <2>1. Top.next > Len(node[Top.n].kids) /\ Top.n \in Live /\ TypeOK
    BY <1>1, CallingMeans DEF Leave, LoopDone, WalkingInv, WalkInv, IInv
  <2>2. Len(node[Top.n].kids) \in Nat
    BY <2>1 DEF TypeOK, HeapTypeOK, Fields
  <2>3. Top.next # 0
    BY <2>1, <2>2
  <2> QED BY <1>1, <2>3, CallingMeans
<1>4. CASE Len(stack) > 1
  <2>1. seen' = seen /\ born' = born
    BY <1>4 DEF Leave
  <2>2. Walking'
    <3>1. stack' # <<>>
      BY <1>1, <1>2, <1>4
    <3> QED BY <3>1 DEF Walking
  <2>3. Owed' = Owed
    BY <1>1, <2>1, <2>2 DEF Owed
  <2>4. Calling' = NoPtr
    <3> DEFINE j == Len(stack) - 1
    <3>1. j \in 1 .. Len(stack) - 1 /\ Len(stack') = j
      BY <1>1, <1>2, <1>4
    <3>2. stack[j].next - 1 \in DOMAIN node[stack[j].n].kids /\ stack[j].n \in Live /\ TypeOK
      BY <1>1, <3>1, FrameFacts DEF WalkingInv, WalkInv, IInv
    <3>3. node[stack[j].n].kids \in Seq(Node)
      BY <3>2 DEF TypeOK, HeapTypeOK, Fields
    <3>4. ~ (0 - 1 \in DOMAIN node[stack[j].n].kids)
      BY <3>3
    <3>5. stack[j].next # 0 /\ stack'[j] = stack[j]
      BY <1>2, <3>1, <3>2, <3>4
    <3> HIDE DEF j
    <3> QED BY <3>1, <3>5 DEF Calling, InCallback, Top, Last
  <2> QED BY <1>1, <1>3, <2>1, <2>2, <2>3, <2>4 DEF visit!vars
<1>5. CASE Len(stack) = 1
  <2>1. seen' = {}
    BY <1>5 DEF Leave
  <2>2. ~ Walking'
    <3>1. Len(stack') = 0
      BY <1>2, <1>5
    <3>2. stack' \in Seq(Frame)
      BY <1>1, FrontAndLast
    <3>3. stack' = <<>>
      BY <3>1, <3>2
    <3> QED BY <3>3 DEF Walking
  <2>3. Owed' = {} /\ Calling' = NoPtr
    BY <2>2 DEF Owed, Calling, InCallback
  <2>4. stack[Len(stack)].n = Root
    BY <1>1, <1>5 DEF BeginsAtRoot
  <2>5. \A m \in Live : m \in seen \cup born \/ node[m].type = "none"
    BY <1>1, <2>4, LeftBehind DEF AllReachable, Leave
  <2>6. Owed = {}
    BY <2>5 DEF Owed
  <2> QED BY <1>1, <1>3, <2>1, <2>2, <2>3, <2>6 DEF visit!End
<1>6. Len(stack) > 1 \/ Len(stack) = 1
  BY <1>1, SMTT(30)
<1> QED BY <1>4, <1>5, <1>6

\* What the client removes in its callback is no longer owed, and nothing is that was not.
LEMMA CallbackIsEdit ==
  ASSUME VisitInv, Callback, VisitInv'
  PROVE  visit!Edit
<1> DEFINE gone == Live \ Live'
<1>1. /\ InCallback /\ Walking /\ Walking' /\ Next /\ stack' = stack /\ seen \subseteq Live
      /\ seen' = seen \cap Live' /\ born' = (born \cap Live') \cup (Live' \ Live)
  BY StoreCallsTrie, CallbackCallsStore
  DEF Callback, InCallback, Walking, VisitInv, WalkingInv, WalkInv, WalkTypeOK
<1>2. StaysPut
  BY <1>1, NodesStayPut DEF VisitInv, WalkingInv, WalkInv
<1>3. Root \in seen
  <2>1. 1 \in 1 .. Len(stack) /\ stack[1].n = Root
    <3>1. Len(stack) \in Nat /\ Len(stack) # 0 /\ stack[1].n = Root
      BY <1>1, TopFrame DEF VisitInv, WalkingInv, WalkInv, BeginsAtRoot
    <3> QED BY <3>1
  <2> QED BY <1>1, <2>1, FramesSeen
<1>4. Owed' \subseteq Owed \ gone
  <2> SUFFICES ASSUME NEW n \in Live', n \notin born', n \notin seen', node'[n].type # "none"
               PROVE  n \in Live /\ n \notin born /\ n \notin seen /\ node[n].type # "none"
    BY <1>1 DEF Owed
  <2>1. n \in Live /\ n \notin born /\ n \notin seen
    BY <1>1
  <2>2. n # Root
    BY <1>3, <2>1
  <2> QED BY <2>1, <2>2 DEF VisitInv, TypesKnown
<1>5. Owed \ gone \subseteq Owed'
  <2> SUFFICES ASSUME NEW n \in Live \cap Live', n \notin born, n \notin seen
               PROVE  n \notin born' /\ n \notin seen' /\ node'[n].type # "none"
    BY <1>1 DEF Owed
  <2>1. n # Root
    BY <1>3
  <2> QED BY <1>1, <2>1 DEF VisitInv, TypesKnown
<1>6. gone \in SUBSET Node
  BY DEF VisitInv, WalkingInv, WalkInv, IInv, TypeOK, HeapTypeOK
<1>7. seen' = seen \ gone
  BY <1>1
<1>8. Calling' = Calling /\ Calling \in Node \ gone
  <2>1. Calling' = Calling /\ Calling = Top.n /\ Calling \in Live
    BY <1>1, CallingMeans DEF Calling, InCallback, Top, Walking
  <2>2. Top.n \in Live'
    <3>1. WalkTypeOK' /\ Len(stack) \in Nat /\ Len(stack) # 0 /\ Top = stack[Len(stack)]
      BY <1>1, TopFrame DEF VisitInv, WalkingInv, WalkInv
    <3> DEFINE F == [n : Live', next : Nat]
    <3>2. stack \in Seq(F)
      BY <1>1, <3>1 DEF WalkTypeOK
    <3> HIDE DEF F
    <3>3. stack[Len(stack)] \in F
      BY <3>1, <3>2
    <3> QED BY <3>1, <3>3 DEF F
  <2>3. Live \subseteq Node
    BY DEF VisitInv, WalkingInv, WalkInv, IInv, TypeOK, HeapTypeOK
  <2> QED BY <2>1, <2>2, <2>3
<1> HIDE DEF gone
<1>9. Owed' = Owed \ gone
  BY <1>4, <1>5
<1> QED BY <1>1, <1>6, <1>7, <1>8, <1>9 DEF visit!Edit

\* A walk calls its client for every node that is there from its beginning to its end, and
\* for no node twice, whatever the client inserts and removes when it is called.
THEOREM WalkVisitsOnce == WalkSpec => ImplementsTraversal
<1>1. WalkInit => visit!Init
  BY DEF WalkInit, visit!Init, Owed, Calling, InCallback, Walking
<1>2. ASSUME VisitInv, [WalkNext]_walkVars
      PROVE  [visit!Next]_(visit!vars)
  <2>1. CASE Begin
    BY <1>2, <2>1, BeginIsBegin DEF visit!Next
  <2>2. CASE Descend
    BY <1>2, <2>2, DescendIsVisit DEF visit!Next
  <2>3. CASE Leave
    BY <1>2, <2>3, LeaveIsEnd DEF visit!Next
  <2>4. CASE Callback
    BY <1>2, <2>4, CallbackIsEdit, VisitInvStep DEF visit!Next
  <2>5. CASE CallbackReturns
    BY <1>2, <2>5, ReturnIsReturn DEF visit!Next
  <2>6. CASE Client
    <3>1. ~ Walking /\ ~ Walking' /\ seen' = seen
      BY <2>6 DEF Client, Walking
    <3>2. Owed' = Owed /\ Walking' = Walking /\ Calling' = Calling
      BY <2>6, <3>1 DEF Owed, Client, Walking, Calling, InCallback
    <3> QED BY <3>1, <3>2 DEF visit!vars
  <2>7. CASE UNCHANGED walkVars
    BY <2>7 DEF walkVars, visit!vars, Owed, Walking, Live, Calling, InCallback, Top
  <2> QED BY <1>2, <2>1, <2>2, <2>3, <2>4, <2>5, <2>6, <2>7 DEF WalkNext, WalkStep
<1> QED BY <1>1, <1>2, VisitInvInit, VisitInvStep, PTL
        DEF WalkSpec, ImplementsTraversal, visit!Spec

-----------------------------------------------------------------------------
(* What size() counts.                                                     *)

\* Only clients' keys hold values.
HeldAreKeys == \A n \in Live : node[n].value # NoValue => node[n].path \in Key

\* An insert puts its value at its key and leaves every other where it was.
LEMMA InsertHoldsKey ==
  ASSUME StoreInv, HeldAreKeys, NEW key \in Key, NEW v \in Value, StoreInsert(Root, key, v)
  PROVE  HeldAreKeys'
<1>1. IInv /\ TypeOK /\ ProperInsert(Root, key) /\ InsertKey(Root, key, v)
  BY StoreInvMeans DEF StoreInsert, IInv
<1>2. CASE Live' \ Live # {}
  <2>1. Contents' = Contents \cup {<<key, v>>}
    BY <1>1, <1>2, IInvInsert DEF GrowsContents
  <2>2. ASSUME NEW n \in Live', node'[n].value # NoValue PROVE node'[n].path \in Key
    <3>1. <<node'[n].path, node'[n].value>> \in Contents'
      BY <2>2 DEF Contents
    <3>2. CASE <<node'[n].path, node'[n].value>> \in Contents
      BY <3>2 DEF Contents, HeldAreKeys
    <3> QED BY <2>1, <3>1, <3>2
  <2> QED BY <2>2 DEF HeldAreKeys
<1>3. CASE Live' \ Live = {}
  <2>1. PICK n \in Live : SetsValue(n, v) /\ node[n].path = key
    BY <1>1, <1>3, InsertOverwrites
  <2>2. /\ Live' = Live
        /\ \A m \in Live : /\ node'[m].path = node[m].path
                           /\ node'[m].value = IF m = n THEN v ELSE node[m].value
    BY <1>1, <2>1 DEF SetsValue, TypeOK, HeapTypeOK, Fields
  <2> QED BY <2>1, <2>2 DEF HeldAreKeys
<1> QED BY <1>2, <1>3

\* A remove puts no value anywhere.
LEMMA RemoveHoldsKeys ==
  ASSUME TypeOK, HeldAreKeys, NEW key \in Key, NEW include_children \in BOOLEAN,
         RemoveKey(Root, key, include_children)
  PROVE  HeldAreKeys'
<1>1. PICK r : RemoveTree(Root, r) \/ RemoveValue(Root, r) \/ RemoveNone(r)
  BY DEF RemoveKey
<1>2. CASE RemoveTree(Root, r)
  <2>1. PICK n \in Live \ {Root}, d \in Live :
          \E j \in DOMAIN node[d].kids : RemovesTree(n, d, j)
    BY <1>2, RemoveTreeStep DEF TypeOK
  <2>2. /\ Live' \subseteq Live
        /\ \A m \in Live' : node'[m].path = node[m].path /\ node'[m].value = node[m].value
    BY <2>1 DEF RemovesTree, TypeOK, HeapTypeOK, Fields
  <2> QED BY <2>2 DEF HeldAreKeys
<1>3. CASE RemoveValue(Root, r)
  <2>1. PICK n \in Live : SetsValue(n, NoValue)
    BY <1>3, RemoveValueStep DEF TypeOK
  <2>2. /\ Live' = Live
        /\ \A m \in Live : /\ node'[m].path = node[m].path
                           /\ node'[m].value = IF m = n THEN NoValue ELSE node[m].value
    BY <2>1 DEF SetsValue, TypeOK, HeapTypeOK, Fields
  <2> QED BY <2>2 DEF HeldAreKeys
<1>4. CASE RemoveNone(r)
  BY <1>4 DEF RemoveNone, vars, HeldAreKeys, Live
<1> QED BY <1>1, <1>2, <1>3, <1>4

\* size() has counted the leaves it has visited.
CountsSeen ==
  /\ ~ Walking => ~ sizing /\ count = 0
  /\ sizing => born = {} /\ count = Cardinality({n \in seen : node[n].type = "leaf"})

SizeInv == VisitInv /\ HeldAreKeys /\ CountsSeen

\* A node counts once, when it is first visited.
LEMMA CountsOneMore ==
  ASSUME IsFiniteSet(Live), seen \subseteq Live, NEW k \in Live \ seen
  PROVE  Cardinality({n \in seen \cup {k} : node[n].type = "leaf"})
           = Cardinality({n \in seen : node[n].type = "leaf"}) + Counted(node[k])
<1> DEFINE S == {n \in seen : node[n].type = "leaf"}
           T == {n \in seen \cup {k} : node[n].type = "leaf"}
<1>1. IsFiniteSet(S) /\ Cardinality(S) \in Nat
  <2>1. S \in SUBSET Live
    OBVIOUS
  <2> HIDE DEF S
  <2> QED BY <2>1, FS_Subset, FS_CardinalityType
<1>2. CASE node[k].type = "leaf"
  <2>1. T = S \cup {k} /\ k \notin S
    BY <1>2
  <2> HIDE DEF S, T
  <2>2. Cardinality(T) = Cardinality(S) + 1
    BY <1>1, <2>1, FS_AddElement
  <2> QED BY <1>2, <2>2 DEF S, T, Counted
<1>3. CASE node[k].type # "leaf"
  <2>1. T = S /\ Counted(node[k]) = 0
    BY <1>3 DEF Counted
  <2> HIDE DEF S, T
  <2>2. Cardinality(T) = Cardinality(S) + Counted(node[k])
    BY <1>1, <2>1
  <2> QED BY <2>2 DEF S, T
<1> QED BY <1>2, <1>3

\* So values stay at keys through every step.
LEMMA HeldAreKeysStep ==
  ASSUME WalkingInv, HeldAreKeys, [WalkNext]_walkVars
  PROVE  HeldAreKeys'
<1>1. StoreInv /\ TypeOK
  BY DEF WalkingInv, WalkInv, IInv
<1>2. CASE StoreNext
  <2>1. PICK key \in Key : \/ \E v \in Value : StoreInsert(Root, key, v)
                           \/ \E ic \in BOOLEAN : RemoveKey(Root, key, ic)
    BY <1>2 DEF StoreNext, StoreRemove
  <2> QED BY <1>1, <2>1, InsertHoldsKey, RemoveHoldsKeys
<1>3. CASE node' = node
  BY <1>3 DEF HeldAreKeys, Live
<1> QED BY <1>2, <1>3, WalkStepIsStoreStep DEF vars

\* Every step keeps the count in line with what has been visited.
LEMMA CountsSeenStep ==
  ASSUME SizeInv, [WalkNext]_walkVars
  PROVE  CountsSeen'
<1>1. /\ VisitInv /\ CountsSeen /\ NothingKept /\ WalkTypeOK /\ IsFiniteSet(Live) /\ Root \in Live
      /\ seen \subseteq Live
  BY FrameFacts DEF SizeInv, VisitInv, WalkingInv, WalkInv, StoreInv, SearchInv, WalkTypeOK
<1>2. CASE Begin
  <2>1. /\ ~ Walking /\ Enter(Root, <<>>, {}) /\ node' = node /\ born' = born
        /\ seen = {} /\ born = {} /\ count = 0
    BY <1>1, <1>2 DEF Begin, CountsSeen, NothingKept
  <2>2. stack' # <<>>
    BY <2>1 DEF Enter
  <2>3. Cardinality({n \in seen : node[n].type = "leaf"}) = 0
    <3>1. {n \in seen : node[n].type = "leaf"} = {}
      BY <2>1
    <3> QED BY <3>1, FS_EmptySet
  <2>4. ASSUME sizing' PROVE count' = Cardinality({n \in seen' : node[n].type = "leaf"})
    <3>1. CASE node[Root].type # "none"
      <4>1. seen' = seen \cup {Root} /\ count' = 0 + Counted(node[Root])
        BY <2>1, <2>4, <3>1 DEF Enter
      <4>2. Root \in Live \ seen
        BY <1>1, <2>1
      <4> QED BY <1>1, <2>3, <4>1, <4>2, CountsOneMore
    <3>2. CASE node[Root].type = "none"
      BY <2>1, <2>3, <3>2 DEF Enter
    <3> QED BY <3>1, <3>2
  <2> QED BY <2>1, <2>2, <2>4 DEF CountsSeen, Walking
<1>3. CASE CallbackReturns
  <2>1. Walking' /\ UNCHANGED <<node, seen, born, sizing, count>>
    BY <1>1, <1>3, StaysWalking DEF CallbackReturns
  <2> QED BY <1>1, <2>1 DEF CountsSeen
<1>4. CASE Descend
  <2> DEFINE L == Len(stack)
             k == node[stack[L].n].kids[stack[L].next]
  <2>1. /\ k \in Live /\ k \notin seen
        /\ node' = node /\ born' = born /\ sizing' = sizing /\ seen' = seen \cup {k}
        /\ Len(stack') = L + 1
        /\ count' = IF sizing THEN count + Counted(node[k]) ELSE count
    BY <1>1, <1>4, DescendVisits
  <2>2. Walking'
    <3>1. L \in Nat
      BY <1>1, FrameFacts DEF VisitInv
    <3>2. stack' # <<>>
      BY <2>1, <3>1
    <3> QED BY <3>2 DEF Walking
  <2> HIDE DEF k, L
  <2>3. Cardinality({n \in seen \cup {k} : node[n].type = "leaf"})
          = Cardinality({n \in seen : node[n].type = "leaf"}) + Counted(node[k])
    BY <1>1, <2>1, CountsOneMore
  <2> QED BY <1>1, <2>1, <2>2, <2>3 DEF CountsSeen
<1>5. CASE Leave
  <2>1. CASE Len(stack) > 1
    <3>1. UNCHANGED <<node, seen, born, sizing, count>>
      BY <1>5, <2>1 DEF Leave
    <3>2. Walking'
      <4>1. /\ stack \in Seq(Frame) /\ stack # <<>> /\ Len(stack) \in Nat
            /\ stack' = Front(stack)
        BY <1>1, <1>5, FrameFacts DEF VisitInv, Leave, LoopDone, Walking
      <4>2. Len(stack') = Len(stack) - 1
        BY <4>1, FrontAndLast
      <4>3. stack' # <<>>
        BY <2>1, <4>1, <4>2
      <4> QED BY <4>3 DEF Walking
    <3> QED BY <1>1, <3>1, <3>2 DEF CountsSeen
  <2>2. CASE ~ (Len(stack) > 1)
    BY <1>5, <2>2 DEF Leave, CountsSeen
  <2> QED BY <2>1, <2>2
<1>6. CASE Callback
  BY <1>6 DEF Callback, InCallback, Walking, CountsSeen
<1>7. CASE Client
  BY <1>1, <1>7 DEF Client, Walking, CountsSeen
<1>8. CASE UNCHANGED walkVars
  BY <1>1, <1>8 DEF walkVars, Walking, CountsSeen
<1> QED BY <1>2, <1>3, <1>4, <1>5, <1>6, <1>7, <1>8 DEF WalkNext, WalkStep

\* When a size() is about to return, it has counted every leaf.
LEMMA AllLeavesCounted ==
  ASSUME SizeInv, sizing, Len(stack) = 1, LoopDone
  PROVE  count = Cardinality({n \in Live : node[n].type = "leaf"})
<1>1. VisitInv /\ CountsSeen /\ BeginsAtRoot /\ AllReachable /\ seen \subseteq Live /\ Walking
  BY DEF SizeInv, VisitInv, WalkingInv, WalkInv, IInv, HeapIsTree, WalkTypeOK, LoopDone
<1>2. stack[Len(stack)].n = Root
  BY <1>1 DEF BeginsAtRoot
<1>3. \A m \in Live : m \in seen \cup born \/ node[m].type = "none"
  BY <1>1, <1>2, LeftBehind DEF AllReachable
<1>4. born = {} /\ count = Cardinality({n \in seen : node[n].type = "leaf"})
  BY <1>1 DEF CountsSeen
<1>5. {n \in seen : node[n].type = "leaf"} = {n \in Live : node[n].type = "leaf"}
  BY <1>1, <1>3, <1>4
<1> QED BY <1>4, <1>5

\* As many nodes hold a value as keys have one.
LEMMA KeysAndNodes ==
  ASSUME StoreInv, HeldAreKeys
  PROVE  Cardinality({k \in Key : kv[k] # NoValue})
           = Cardinality({n \in Live : node[n].value # NoValue})
<1> DEFINE S == {n \in Live : node[n].value # NoValue}
           T == {k \in Key : kv[k] # NoValue}
           f == [n \in S |-> node[n].path]
<1>1. Store /\ KvHolds /\ IsFiniteSet(Live) /\ TypeOK
  BY StoreInvMeans, KvMeans DEF StoreInv, SearchInv, IInv
<1>2. IsFiniteSet(S)
  <2>1. S \in SUBSET Live
    OBVIOUS
  <2> HIDE DEF S
  <2> QED BY <1>1, <2>1, FS_Subset
<1>3. ASSUME NEW n \in S PROVE f[n] \in T
  <2>1. node[n].path \in Key /\ node[n].value \in Value
    BY <1>1 DEF HeldAreKeys, TypeOK, HeapTypeOK, Fields
  <2>2. <<node[n].path, node[n].value>> \in Contents
    BY DEF Contents
  <2>3. kv[node[n].path] = node[n].value
    BY <1>1, <2>1, <2>2 DEF KvHolds
  <2> QED BY <2>1, <2>3
<1>4. ASSUME NEW k \in T PROVE \E n \in S : f[n] = k
  <2>1. <<k, kv[k]>> \in Contents
    BY <1>1 DEF KvHolds
  <2> QED BY <2>1 DEF Contents
<1>5. ASSUME NEW m \in S, NEW n \in S, f[m] = f[n] PROVE m = n
  BY <1>1, <1>5, PathsDiffer
<1>6. f \in [S -> T]
  BY <1>3
<1> HIDE DEF S, T, f
<1>7. Cardinality(T) = Cardinality(S)
  BY <1>2, <1>4, <1>5, <1>6, SameSize
<1> QED BY <1>7 DEF S, T

\* size() is off by the leaves that hold no value and the branches that do, and by nothing
\* else: every other leaf stands for one key.
THEOREM SizeIsOffByThese == WalkSpec => []SizeCountsLeaves
<1>1. WalkInit => SizeInv
  <2> SUFFICES ASSUME WalkInit PROVE SizeInv
    OBVIOUS
  <2>1. HeldAreKeys
    BY DEF WalkInit, Init, Live, HeldAreKeys
  <2>2. CountsSeen
    BY DEF WalkInit, CountsSeen
  <2> QED BY <2>1, <2>2, VisitInvInit DEF SizeInv
<1>2. SizeInv /\ [WalkNext]_walkVars => SizeInv'
  BY VisitInvStep, HeldAreKeysStep, CountsSeenStep DEF SizeInv, VisitInv
<1>3. ASSUME SizeInv, sizing, Len(stack) = 1, LoopDone
      PROVE  count + Cardinality({n \in Live : node[n].type = "branch" /\ node[n].value # NoValue})
               = Cardinality({k \in Key : kv[k] # NoValue})
                 + Cardinality({n \in Live : node[n].type = "leaf" /\ node[n].value = NoValue})
  <2> DEFINE Leaves == {n \in Live : node[n].type = "leaf"}
             Held   == {n \in Live : node[n].value # NoValue}
             Both   == {n \in Live : node[n].type = "leaf" /\ node[n].value # NoValue}
             Bare   == {n \in Live : node[n].type = "leaf" /\ node[n].value = NoValue}
             Extra  == {n \in Live : node[n].type = "branch" /\ node[n].value # NoValue}
  <2>1. StoreInv /\ HeldAreKeys /\ TypeOK /\ TypesKnown /\ RootIsEmpty /\ IsFiniteSet(Live)
    BY <1>3 DEF SizeInv, VisitInv, WalkingInv, WalkInv, IInv, Titles, StoreInv, SearchInv
  <2>2. \A n \in Live : node[n].type \in {"leaf", "branch"} \/ node[n].value = NoValue
    BY <2>1 DEF TypeOK, HeapTypeOK, Fields, TypesKnown, RootIsEmpty
  <2>3. /\ Leaves = Both \cup Bare /\ Both \cap Bare = {}
        /\ Held = Both \cup Extra /\ Both \cap Extra = {}
    BY <2>2
  <2>4. count = Cardinality(Leaves)
    BY <1>3, AllLeavesCounted
  <2>5. Cardinality({k \in Key : kv[k] # NoValue}) = Cardinality(Held)
    BY <2>1, KeysAndNodes
  <2>6. Both \in SUBSET Live /\ Bare \in SUBSET Live /\ Extra \in SUBSET Live
    OBVIOUS
  <2> HIDE DEF Leaves, Held, Both, Bare, Extra
  <2>7. /\ IsFiniteSet(Both) /\ IsFiniteSet(Bare) /\ IsFiniteSet(Extra)
        /\ Cardinality(Both) \in Nat /\ Cardinality(Bare) \in Nat /\ Cardinality(Extra) \in Nat
    BY <2>1, <2>6, FS_Subset, FS_CardinalityType
  <2>8. /\ Cardinality(Leaves) = Cardinality(Both) + Cardinality(Bare)
        /\ Cardinality(Held) = Cardinality(Both) + Cardinality(Extra)
    BY <2>3, <2>7, DisjointSizes
  <2>9. count + Cardinality(Extra) = Cardinality(Held) + Cardinality(Bare)
    BY <2>4, <2>7, <2>8
  <2> QED BY <2>5, <2>9 DEF Extra, Bare
<1>4. SizeInv => SizeCountsLeaves
  BY <1>3 DEF SizeCountsLeaves
<1> QED BY <1>1, <1>2, <1>4, PTL DEF WalkSpec
=============================================================================
