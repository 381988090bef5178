---------------------------- MODULE TrieHandles -----------------------------
(***************************************************************************)
(* The handles a client may hold on the nodes of a trie while the trie     *)
(* goes on changing: the weak_node_ptr that get(key) returns, the node_ptr *)
(* it locks, and the roots, which trie_t objects share when one is copied  *)
(* from another (its destructor is declared, so it is never moved) and     *)
(* which root(new_root) exchanges.                                         *)
(*                                                                         *)
(* Here the heap holds several trees, and nodes that are in no tree but    *)
(* held: a node is freed when neither a trie_t nor a node_ptr owns it.     *)
(***************************************************************************)
EXTENDS TrieStore

CONSTANTS
  Tries,     \* trie_t objects
  Holder     \* scopes of clients, each with a weak_node_ptr and a node_ptr

VARIABLES
  root,      \* trie_t::_root, by trie
  weak,      \* the weak_node_ptr of a holder; NoPtr once it has expired
  strong,    \* the node_ptr of a holder
  asked      \* the key a holder's handle was got with, <<>> if it has none

handleVars == <<node, oob, root, weak, strong, asked>>

Ptr == Live \cup {NoPtr}

HandleTypeOK == /\ HeapTypeOK
                /\ root \in [Tries -> Live]
                /\ weak \in [Holder -> Ptr] /\ strong \in [Holder -> Ptr]
                /\ asked \in [Holder -> Key \cup {<<>>}]

\* std::make_shared<node_t>()
Blank == [type |-> "none", path |-> <<>>, frag |-> <<>>, value |-> NoValue, kids |-> <<>>]

\* Each trie_t makes a root of its own; the allocator hands out the lowest ids first.
HandleInit == /\ root \in Injection(Tries, Node)
              /\ \A n \in Range(root), m \in Node \ Range(root) : n < m
              /\ node = [n \in Range(root) |-> Blank] /\ oob = FALSE
              /\ weak = [h \in Holder |-> NoPtr]
              /\ strong = [h \in Holder |-> NoPtr]
              /\ asked = [h \in Holder |-> <<>>]

-----------------------------------------------------------------------------
(* Ownership.                                                              *)

\* The nodes of a heap that the nodes in S own, directly or not: those in every set of
\* nodes that holds S and the children of its members.
Owned(heap, S) ==
  LET closed == {T \in SUBSET DOMAIN heap :
                   S \subseteq T /\ \A m \in T : Range(heap[m].kids) \subseteq T}
  IN {m \in DOMAIN heap : \A T \in closed : m \in T}

Below(t) == Owned(node, {root[t]})

\* The nodes that roots and node_ptrs own directly.
Held(roots, ptrs) == (Range(roots) \cup Range(ptrs)) \ {NoPtr}

\* The end of a call that leaves this heap, these roots, node_ptrs and weak_node_ptrs:
\* what nobody owns any longer is freed, and the weak handles to it expire.
Settle(heap, roots, ptrs, weaks, keys) ==
  LET owned == Owned(heap, Held(roots, ptrs))
      holds(h) == weaks[h] \in owned \/ ptrs[h] \in owned
  IN /\ node' = [n \in owned |-> heap[n]]
     /\ root' = roots
     /\ strong' = ptrs
     /\ weak' = [h \in Holder |-> IF weaks[h] \in owned THEN weaks[h] ELSE NoPtr]
     /\ asked' = [h \in Holder |-> IF holds(h) THEN keys[h] ELSE <<>>]
     /\ UNCHANGED oob

-----------------------------------------------------------------------------
(* Calls on a trie.                                                        *)

TreeInsert(t, key, v) ==
  /\ StoreInsert(root[t], key, v)
  /\ UNCHANGED <<root, weak, strong, asked>>

\* removed_fully empties the node before its parent drops it: who holds it finds it
\* without its value.
TreeRemove(t, key, include_children) ==
  /\ ProperRemove(root[t], key)
  /\ LET l == Locate(root[t], key) IN
       \/ /\ include_children
          /\ \E n, d \in Live : \E j \in DOMAIN node[d].kids :
               /\ Takes(l, n) /\ l.dad = d /\ node[d].kids[j] = n
               /\ Settle([node EXCEPT ![n].value = NoValue, ![d].kids = RemoveAt(@, j)],
                         root, strong, weak, asked)
       \/ /\ ~ include_children \/ RemoveNone(l)
          /\ RemoveKey(root[t], key, include_children)
          /\ UNCHANGED <<root, weak, strong, asked>>

\* trie_t's implicit operator=: two objects with one root.
Assign(t, u) == Settle(node, [root EXCEPT ![t] = root[u]], strong, weak, asked)

\* Mutant: the new root is copied from the old one, children and all.
ShallowCopy(t) == node[root[t]]

\* The tree a client makes to put in the place of t's.
NewTree(t) == Blank

\* Mutant: _root is never swapped into `old`, which is returned all the same.
OldForgotten(t) == NoPtr

\* What root(new_root) returns.
Old(t) == root[t]

\* h = t.root(h): t gets the tree that h holds, and h gets the tree of t.
SwapRoot(t, h) ==
  /\ strong[h] # NoPtr /\ node[strong[h]].path = <<>>
  /\ Settle(node, [root EXCEPT ![t] = strong[h]], [strong EXCEPT ![h] = Old(t)],
            weak, asked)

\* h = t.root(std::make_shared<node_t>())
ResetRoot(t, h) ==
  /\ strong[h] = NoPtr
  /\ \E a \in Fresh(Live) :
       Settle(MakeShared(node, a, NewTree(t)), [root EXCEPT ![t] = a],
              [strong EXCEPT ![h] = Old(t)], weak, asked)

-----------------------------------------------------------------------------
(* Handles.                                                                *)

\* get(key) is proper if the search goes down along the key, and the key ends where the
\* search does unless that is at the end of a fragment: on other calls it fails as
\* has(key) does in HasMeansExists.
ProperGet(top, key) == LET r == Locate(top, key) IN
  IsHit(r) => /\ IsPrefix(Located(r), key)
              /\ r.matched \/ r.pms < Len(node[r.ptr].frag) => Located(r) = key

\* wp = t.get(key)
GetNode(t, key, h) ==
  /\ weak[h] = NoPtr /\ strong[h] = NoPtr
  /\ ProperGet(root[t], key)
  /\ LET found == Search(root[t], key) IN
       /\ found.matched
       /\ Settle(node, root, strong, [weak EXCEPT ![h] = found.ptr],
                 [asked EXCEPT ![h] = key])

\* sp = wp.lock(), the last use of wp.
Lock(h) == /\ weak[h] # NoPtr
           /\ Settle(node, root, [strong EXCEPT ![h] = weak[h]],
                     [weak EXCEPT ![h] = NoPtr], asked)

\* The scope that holds wp and sp ends.
Release(h) == /\ weak[h] # NoPtr \/ strong[h] # NoPtr
              /\ Settle(node, root, [strong EXCEPT ![h] = NoPtr],
                        [weak EXCEPT ![h] = NoPtr], asked)

\* Mutant: the value is taken out and none put in.
ValueLost(x, v) == [x EXCEPT !.value = NoValue]

\* node::value(value_t &&)
ValueSet(x, v) == [x EXCEPT !.value = v]

\* sp->value(v)
Write(h, v) == /\ strong[h] # NoPtr /\ node[strong[h]].path # <<>>
               /\ node' = [node EXCEPT ![strong[h]] = ValueSet(@, v)]
               /\ UNCHANGED <<oob, root, weak, strong, asked>>

TrieNext == \E t \in Tries :
  \/ \E key \in Key :
       \/ \E v \in Value : TreeInsert(t, key, v)
       \/ \E include_children \in BOOLEAN : TreeRemove(t, key, include_children)
       \/ \E h \in Holder : GetNode(t, key, h)
  \/ \E u \in Tries : Assign(t, u)
  \/ \E h \in Holder : SwapRoot(t, h) \/ ResetRoot(t, h)

HolderNext == \E h \in Holder : Lock(h) \/ Release(h) \/ \E v \in Value : Write(h, v)

HandleNext == TrieNext \/ HolderNext

HandleSpec == HandleInit /\ [][HandleNext]_handleVars

-----------------------------------------------------------------------------
(* What a client that holds handles can rely on.                           *)

\* A node never comes to stand for another key, only for a prefix of its own: inserts
\* cut it at its end, and nothing ever lengthens or replaces its path.
PathsOnlyShrink ==
  [][\A n \in Live \cap Live' : IsPrefix(node'[n].path, node[n].path)]_handleVars

\* However the tree has been cut since, and whether or not the node is still in it,
\* what a handle points to lies on the way to the key it was got with.
HandleFollowsKey ==
  \A h \in Holder : \A n \in {weak[h], strong[h]} \ {NoPtr} :
    IsPrefix(node[n].path, Append(asked[h], Delim))

\* A value written through a handle is what its key reads, in every trie the node is
\* still in, if the node has not been cut; and it shows under no key but the path of
\* the node (a trailing delimiter aside), of those that get may be asked for.
HandleWriteIsASet ==
  [][\A h \in Holder, v \in Value : node' # node /\ Write(h, v) =>
       \A t \in Tries : \A key \in {k \in Key : ProperGet(root[t], k)} : \E n \in Live :
         /\ n = strong[h]
         /\ n \in Below(t) /\ node[n].path = key => Get(root[t], key)' = v
         /\ Get(root[t], key)' # Get(root[t], key) =>
              n \in Below(t) /\ node[n].path \in {key, Append(key, Delim)}]_handleVars

\* Calls on one trie are invisible through another, unless the two share their root:
\* no tree grows into another.  (Stated from its contrapositive, the cheaper side
\* first, as the next property is.)
TriesAreIsolated ==
  [][\A u \in Tries :
       node' # node /\ ~ (Below(u)' = Below(u) /\ \A n \in Below(u) : node'[n] = node[n]) =>
         \A t \in {x \in Tries : root[x] # root[u]}, key \in Key :
           /\ \A v \in Value : ~ TreeInsert(t, key, v)
           /\ \A c \in BOOLEAN : ~ TreeRemove(t, key, c)]_handleVars

\* root(new_root) frees nothing: the tree that leaves the trie is in the caller's
\* hands, and no handle into it expires.
SwapFreesNothing ==
  [][~ (Live \subseteq Live') =>
       \A t \in Tries, h \in Holder :
         ~ SwapRoot(t, h) /\ ~ ResetRoot(t, h)]_handleVars
=============================================================================
