------------------------------ MODULE TrieMap -------------------------------
(***************************************************************************)
(* What trie_t<> promises a client that uses it as "in-memory key-value    *)
(* pairs with hierarchical data" (trie-core.hh): a map from keys to        *)
(* values, in which a key stands for everything that extends it when it is *)
(* removed.                                                                *)
(***************************************************************************)
EXTENDS Sequences, SequencesExt

CONSTANTS Key, Value, NoValue, Delim

VARIABLE kv

Init == kv = [k \in Key |-> NoValue]

\* insert, set
Put(k, v) == kv' = [kv EXCEPT ![k] = v]

\* remove a key: the key itself, or the key followed by the delimiter, goes with
\* all that extends it.  Removing may do nothing only if the key holds no value.
Named(k) == {k, Append(k, Delim)}

Erase(k) ==
  /\ \/ \E p \in Named(k) :
          kv' = [q \in Key |-> IF IsPrefix(p, q) THEN NoValue ELSE kv[q]]
     \/ UNCHANGED kv
  /\ kv'[k] = NoValue

\* remove a key without its children: only its own value goes.
Clear(k) ==
  /\ \E p \in Named(k) : kv' = [q \in Key |-> IF q = p THEN NoValue ELSE kv[q]]
  /\ kv'[k] = NoValue

Next == \E k \in Key : (\E v \in Value : Put(k, v)) \/ Erase(k) \/ Clear(k)

Spec == Init /\ [][Next]_kv
=============================================================================
