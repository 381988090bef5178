----------------------------- MODULE TrieStore ------------------------------
(***************************************************************************)
(* The trie of module Trie in the hands of a client that keeps to the      *)
(* calls the tree is built for.  The calls it avoids are the ones the      *)
(* claims of module TrieClaims fail on; with them gone, the heap stays a   *)
(* radix tree and the trie implements the map of module TrieMap.           *)
(***************************************************************************)
EXTENDS Trie

-----------------------------------------------------------------------------
(* The calls.                                                              *)

\* The characters of key that the search has matched when it ends in r.ptr: the
\* path of that node up to the point where its fragment and the key part.
Located(r) == LET x == node[r.ptr] IN
  IF r.matched THEN x.path ELSE Chop(x.path, Len(x.frag) - r.pms)

\* insert(key, v) is proper if the search went down along the key, the key goes on
\* where the search stopped, and a node that must be cut has no children yet.
ProperInsert(top, key) ==
  LET r == Find(top, key) IN
  /\ key # <<>>
  /\ IsHit(r) => IsPrefix(Located(r), key)
  /\ r.matched \/ (IsHit(r) => Len(Located(r)) < Len(key))
  /\ r.matched => Located(r) = key
  /\ IsHit(r) /\ ~ r.matched /\ r.pms < Len(node[r.ptr].frag)
       => node[r.ptr].kids = <<>>

\* remove(key, _) is proper if the node it takes is the key's, or the key's with
\* the delimiter after it.
ProperRemove(top, key) == LET r == Locate(top, key) IN
  r.matched \/ EndsInDelim(r) => node[r.ptr].path \in {key, Append(key, Delim)}

StoreInsert(top, key, v) == ProperInsert(top, key) /\ InsertKey(top, key, v)
StoreRemove(top, key, include_children) ==
  ProperRemove(top, key) /\ RemoveKey(top, key, include_children)

StoreNext == \E key \in Key :
  \/ \E v \in Value : StoreInsert(Root, key, v)
  \/ \E include_children \in BOOLEAN : StoreRemove(Root, key, include_children)

StoreSpec == Init /\ [][StoreNext]_vars

-----------------------------------------------------------------------------
(* What they keep true.                                                    *)

\* A radix tree: a path is the fragments from the root down, no fragment is empty,
\* and no two children of a node begin with the same character.
PathsConcatenate ==
  \A n \in Live : \A k \in Range(node[n].kids) :
    node[k].path = node[n].path \o node[k].frag

SiblingsDiffer ==
  /\ \A n \in Live \ {Root} : node[n].frag # <<>>
  /\ \A n \in Live : \A i, j \in DOMAIN node[n].kids :
       i # j => Head(node[node[n].kids[i]].frag) # Head(node[node[n].kids[j]].frag)

RadixTree == PathsConcatenate /\ SiblingsDiffer

\* No call makes a stored key unreachable: fast_find with the path of a node ends
\* in that node, however the tree has been cut since the node was made.
EveryPathIsFound == \A n \in Live \ {Root} : Find(Root, node[n].path) = Matched(n)

\* The map the heap stands for.
kv == [k \in Key |-> LET ns == {n \in Live : node[n].path = k} IN
         IF ns = {} THEN NoValue ELSE node[CHOOSE n \in ns : TRUE].value]

Map == INSTANCE TrieMap WITH kv <- kv

\* Every step of the store is a step of the map.
ImplementsMap == Map!Spec

\* And it is the map operation the client called: set is Put, remove with children is
\* Erase and without them Clear.  Each is stated from its contrapositive, so that the
\* cheaper side is evaluated first.
CallsImplementMap ==
  [][\A key \in Key :
       /\ ProperInsert(Root, key) =>
            \A v \in Value : ~ Map!Put(key, v) => ~ InsertKey(Root, key, v)
       /\ ProperRemove(Root, key) =>
            /\ ~ Map!Erase(key) => ~ RemoveKey(Root, key, TRUE)
            /\ ~ Map!Clear(key) => ~ RemoveKey(Root, key, FALSE)]_vars
=============================================================================
