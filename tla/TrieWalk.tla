------------------------------ MODULE TrieWalk ------------------------------
(***************************************************************************)
(* walk(cb) of trie-core.hh, run on the trie of module TrieStore.          *)
(* walk_internal recurses: a frame for a node first calls the client and   *)
(* then runs a range-for over the node's children, so the client runs      *)
(* between two steps of every loop above the node it is called for.  The   *)
(* callback may call back into the trie.                                   *)
(***************************************************************************)
EXTENDS TrieStore

VARIABLES
  stack,     \* the frames of walk_internal: a node and where its loop stands
  seen,      \* the nodes cb has been called for
  born,      \* the nodes allocated since the walk began
  sizing,    \* the walk is the one trie_t::size makes, its callback counts
  count      \* `count` of trie_t::size

walkVars == <<node, oob, stack, seen, born, sizing, count>>

\* In a frame, next = 0 while cb runs, and i while the loop is before child i.
WalkTypeOK == /\ TypeOK
              /\ stack \in Seq([n : Live, next : Nat])
              /\ seen \subseteq Live /\ born \subseteq Live
              /\ sizing \in BOOLEAN /\ count \in Nat

WalkInit == /\ Init
            /\ stack = <<>> /\ seen = {} /\ born = {}
            /\ sizing = FALSE /\ count = 0

Walking    == stack # <<>>
Top        == Last(stack)
InCallback == Walking /\ Top.next = 0

-----------------------------------------------------------------------------
(* The steps of walk_internal.                                             *)

\* Mutant: every node is counted, not only the leaves.
CountedAny(x) == IF x.type # "none" THEN 1 ELSE 0

\* What the callback of size() adds for a node.
Counted(x) == IF x.type = "leaf" THEN 1 ELSE 0

\* A call of walk_internal on n, on top of the frames `below`: cb is not called for
\* a node of type NODE_NONE, which only the root of an empty trie is.
Enter(n, below, before) ==
  LET calls == node[n].type # "none" IN
  /\ stack' = Append(below, [n |-> n, next |-> IF calls THEN 0 ELSE 1])
  /\ seen'  = IF calls THEN before \cup {n} ELSE before
  /\ count' = IF calls /\ sizing' THEN count + Counted(node[n]) ELSE count

\* walk(cb), or size().
Begin == /\ ~ Walking
         /\ sizing' \in BOOLEAN
         /\ Enter(Root, <<>>, {})
         /\ UNCHANGED <<node, oob, born>>

CallbackReturns == /\ InCallback
                   /\ stack' = [stack EXCEPT ![Len(stack)].next = 1]
                   /\ UNCHANGED <<node, oob, seen, born, sizing, count>>

\* Mutant: the loop stands still.
StandStill(i) == i

\* *it and ++it of the range-for.
Child(x, i) == x.kids[i]
Increment(i) == i + 1

Descend == /\ Walking
           /\ UNCHANGED sizing
           /\ Top.next \in DOMAIN node[Top.n].kids
           /\ Enter(Child(node[Top.n], Top.next),
                    [stack EXCEPT ![Len(stack)].next = Increment(@)], seen)
           /\ UNCHANGED <<node, oob, born>>

LoopDone == Walking /\ Top.next > Len(node[Top.n].kids)

Leave == /\ LoopDone
         /\ stack' = Front(stack)
         /\ IF Len(stack) > 1
              THEN UNCHANGED <<seen, born, sizing, count>>
              ELSE seen' = {} /\ born' = {} /\ sizing' = FALSE /\ count' = 0
         /\ UNCHANGED <<node, oob>>

WalkStep == CallbackReturns \/ Descend \/ Leave

-----------------------------------------------------------------------------
(* The client.                                                             *)

\* The nodes whose loops are suspended while cb runs.
InLoop == {stack[j].n : j \in 1 .. Len(stack) - 1}

\* A range-for holds iterators into a vector: the children of the nodes in a loop must
\* stay as they are.
KeepsIterators == \A n \in InLoop : n \in Live' /\ node'[n].kids = node[n].kids

\* A call on a key that goes on after the path of the node cb is called for.
CallBelow == \E key \in Key :
  /\ IsStrictPrefix(node[Top.n].path, key)
  /\ \/ \E v \in Value : StoreInsert(Root, key, v)
     \/ \E include_children \in BOOLEAN : StoreRemove(Root, key, include_children)

\* cb may call on such keys without a further thought; of all other calls it may make
\* those that leave the loops alone.
Callback == /\ InCallback /\ ~ sizing
            /\ CallBelow \/ (StoreNext /\ KeepsIterators)
            /\ seen' = seen \cap Live'
            /\ born' = (born \cap Live') \cup (Live' \ Live)
            /\ UNCHANGED <<stack, sizing, count>>

Client == ~ Walking /\ StoreNext /\ UNCHANGED <<stack, seen, born, sizing, count>>

WalkNext == Begin \/ WalkStep \/ Callback \/ Client

\* The steps of a walk are those of one running procedure, and cb returns.
WalkSpec == WalkInit /\ [][WalkNext]_walkVars /\ WF_walkVars(WalkStep)

-----------------------------------------------------------------------------
(* What a walk promises.                                                   *)

\* The search for a key below the node visited never ends above that node: no vector
\* that a loop is in is the one an insert adds to or a remove deletes from.
BelowIsSafe ==
  InCallback =>
    \A key \in Key :
      IsStrictPrefix(node[Top.n].path, key) =>
        LET f == Find(Root, key)  l == Locate(Root, key) IN
        /\ ~ f.matched => (IF IsHit(f) THEN f.ptr ELSE Root) \notin InLoop
        /\ l.matched \/ EndsInDelim(l) => l.dad \notin InLoop

\* So there is a rule a client can follow: whatever the calls it makes in cb on keys
\* below the node visited cut, add and free, every suspended loop of walk_internal
\* comes back to the node and the vector it left.
LoopsUndisturbed == [][InCallback /\ CallBelow => KeepsIterators]_walkVars

\* size() counts leaves, not keys.  The leaves without a value (removed without
\* their children) are too many, the branches that hold one are missing.
SizeCountsLeaves ==
  sizing /\ Len(stack) = 1 /\ LoopDone =>
    count + Cardinality({n \in Live : node[n].type = "branch" /\ node[n].value # NoValue})
      = Cardinality({k \in Key : kv[k] # NoValue})
        + Cardinality({n \in Live : node[n].type = "leaf" /\ node[n].value = NoValue})

\* The nodes that were there when the walk began and await their visit.
Owed == IF Walking THEN {n \in Live \ (born \cup seen) : node[n].type # "none"} ELSE {}

\* The node that cb is running for.
Calling == IF InCallback THEN Top.n ELSE NoPtr

\* Whatever the client changes during a walk, each node is visited, and once only.
visit == INSTANCE Traversal WITH
           running <- Walking,
           calling <- Calling,
           owed    <- Owed,
           seen    <- seen

ImplementsTraversal == visit!Spec

\* A walk ends, though the client may grow the tree below the node it is called for: the
\* nodes the tree can have, and with them the children a loop finds, are bounded by Node.
WalkEnds == Walking ~> ~ Walking
=============================================================================
