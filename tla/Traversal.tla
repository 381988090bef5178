----------------------------- MODULE Traversal ------------------------------
(***************************************************************************)
(* What walk promises (trie-core.hh, "walk all keys in the store"): it     *)
(* calls the client once for every node that is there from the beginning   *)
(* to the end of the walk, and never twice for one node, whatever the      *)
(* client adds and removes while it is being called.                       *)
(***************************************************************************)
CONSTANTS Node, NoPtr

VARIABLES
  running,   \* a walk is under way
  calling,   \* the node the client is being called for, NoPtr between two calls
  owed,      \* nodes that have been there since it began and await their visit
  seen       \* nodes visited

vars == <<running, calling, owed, seen>>

Init == ~ running /\ calling = NoPtr /\ owed = {} /\ seen = {}

\* Beginning may include the first visit.
Begin == /\ ~ running /\ running'
         /\ owed' \in SUBSET Node
         /\ \/ calling' = NoPtr /\ seen' = {}
            \/ calling' \in Node /\ seen' = {calling'}

\* The client is called for n, which it has not been called for.  A node born during
\* the walk may be visited too, but also only once.
Visit(n) == /\ running /\ calling = NoPtr
            /\ n \notin seen
            /\ calling' = n
            /\ seen' = seen \cup {n}
            /\ owed' = owed \ {n}
            /\ UNCHANGED running

Return == /\ calling # NoPtr /\ calling' = NoPtr
          /\ UNCHANGED <<running, owed, seen>>

\* The client, being called, removes nodes, though not the one it is called for.  The
\* id of a freed node may come back as another's: that one has not been seen.
Edit == \E gone \in SUBSET Node :
          /\ calling \in Node \ gone
          /\ owed' = owed \ gone
          /\ seen' = seen \ gone
          /\ UNCHANGED <<running, calling>>

End == /\ running /\ ~ running'
       /\ calling = NoPtr /\ calling' = NoPtr
       /\ owed = {}
       /\ owed' = {} /\ seen' = {}

Next == Begin \/ (\E n \in Node : Visit(n)) \/ Return \/ Edit \/ End

Spec == Init /\ [][Next]_vars
=============================================================================
