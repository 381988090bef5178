----------------------------- MODULE TrieClaims -----------------------------
(***************************************************************************)
(* What the comments, the README and the tests of the repository say of    *)
(* the trie without naming a condition, each stated as they say it.  None  *)
(* holds of the trie of module Trie for every sequence of keys.            *)
(***************************************************************************)
EXTENDS Trie

\* trie-core.hh:621 (set): "set a store key with value".  What has been set can be
\* got.  It fails for a key that ends where a node is cut: its leaf gets an empty
\* fragment, which no search ever matches.
SetThenGet ==
  [][\A key \in Key, v \in Value : InsertKey(Root, key, v) => Get(Root, key)' = v]_vars

\* README.md:8, "accessing the target node data via a dotted key path": setting
\* one key leaves the others there.  It fails when a node that has children is cut:
\* the children stay with the shortened node instead of moving to the part cut off.
SetKeepsOtherKeys ==
  [][\A key \in Key, v \in Value :
       InsertKey(Root, key, v) => \A other \in Key : Has(Root, other) => Has(Root, other)']_vars

\* trie-core.hh:571 (has): "returns whether the given key path exists or not": some
\* node has this path, or this path and the delimiter.  It fails where a search
\* goes on below a node whose fragment the key does not share to the end.
HasMeansExists ==
  \A key \in Key : Has(Root, key) => \E n \in Live : node[n].path \in {key, Append(key, Delim)}

\* trie-core.hh:1281 (removed_fully): "there's no action can be done if
\* include_children == false".  It fails: the value has been taken out by then.
NoActionWithoutChildren ==
  [][\A key \in Key : RemoveKey(Root, key, FALSE) => UNCHANGED node]_vars
=============================================================================
