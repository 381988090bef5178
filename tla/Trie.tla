-------------------------------- MODULE Trie --------------------------------
(***************************************************************************)
(* The radix tree of trie-core.hh: node<> (fragments, paths, values,       *)
(* children) with the operations trie_t<> forwards to its root: insert and *)
(* set, remove, and the two searches they rest on, fast_find and locate.   *)
(*                                                                         *)
(* The heap is a function from the ids of the allocated nodes to their     *)
(* fields.  A key is a sequence of characters; a pointer into a key is the *)
(* number of characters before it.  Searching is a function of the heap:   *)
(* an operation searches and updates in one step, because the library      *)
(* gives its caller no way to run code in between.                         *)
(***************************************************************************)
EXTENDS Integers, FiniteSets, Sequences, SequencesExt

CONSTANTS
  Node,      \* the ids a node can be allocated at: bounds the live nodes
  Root,      \* the id of the node trie_t::ensure_root allocates
  NoPtr,     \* an expired or default-constructed weak_node_ptr
  Char,      \* characters
  Delim,     \* the template parameter `delimiter`, usually '.'
  Key,       \* the keys clients pass
  Value,     \* the values clients pass
  NoValue,   \* value_t{}
  Garbage    \* what a read past the end of a key may return

ASSUME NodeAssumption  == Node \subseteq Nat /\ Root \in Node /\ NoPtr \notin Node
ASSUME KeyAssumption   == Key \subseteq Seq(Char) /\ Garbage \subseteq Seq(Char)
ASSUME ValueAssumption == NoValue \notin Value

VARIABLES
  node,      \* the allocated nodes, by id
  oob        \* TRUE once a key has been read past its terminating NUL

vars == <<node, oob>>

Live   == DOMAIN node
Fields == [type  : {"none", "leaf", "branch"},
           path  : Seq(Char),
           frag  : Seq(Char),
           value : Value \cup {NoValue},
           kids  : Seq(Node)]

HeapTypeOK == Live \subseteq Node /\ node \in [Live -> Fields] /\ oob \in BOOLEAN

TypeOK == HeapTypeOK /\ Root \in Live

Leaf(path, frag, v) ==
  [type |-> "leaf", path |-> path, frag |-> frag, value |-> v, kids |-> <<>>]

Init == /\ node = [n \in {Root} |-> [type |-> "none", path |-> <<>>, frag |-> <<>>,
                                      value |-> NoValue, kids |-> <<>>]]
        /\ oob = FALSE

-----------------------------------------------------------------------------
(* Searching.                                                              *)

Drop(s, i) == SubSeq(s, i + 1, Len(s))

\* Mutant: the loop stops one character early.
CommonPrefixShort(s, t) ==
  CHOOSE n \in 0 .. Len(s) :
    /\ n <= Len(t)
    /\ \A i \in 1 .. n : s[i] = t[i]
    /\ n + 1 >= Len(s) \/ n + 1 >= Len(t) \/ s[n+1] # t[n+1]

\* common_prefix(): how many leading characters s and t share.
CommonPrefix(s, t) ==
  CHOOSE n \in 0 .. Len(s) :
    /\ n <= Len(t)
    /\ \A i \in 1 .. n : s[i] = t[i]
    /\ n = Len(s) \/ n = Len(t) \/ s[n+1] # t[n+1]

\* A find_return_s.  Every recursive call that sets matched or
\* partial_matched_size ends the search.
Miss           == [ptr |-> NoPtr, pms |-> 0, matched |-> FALSE]
Matched(n)     == [ptr |-> n, pms |-> 0, matched |-> TRUE]
Partial(n, cp) == [ptr |-> n, pms |-> cp, matched |-> FALSE]
IsHit(r)       == r.matched \/ r.pms > 0

First(S) == CHOOSE j \in S : \A k \in S : j <= k

\* The loop over the children: the first answer that is a hit ends it.
FirstHit(answers, otherwise) ==
  LET hits == {j \in DOMAIN answers : IsHit(answers[j])} IN
  IF hits = {} THEN otherwise ELSE answers[First(hits)]

\* One call of fast_find_internal: node n is asked for the rest of the key after i
\* characters, and below[k][j] is what its child k says of the rest after j.
\* The root, which has no fragment, passes the key on.  A node whose fragment
\* differs from the rest somewhere after its first character still offers the
\* rest to its children, unless the rest is the shorter of the two.  The branch
\* for a fragment that is wholly matched and longer than the rest is left out:
\* CommonPrefix never exceeds the length of the rest.
FindAt(n, key, i, below) ==
  LET x       == node[n]
      flen    == Len(x.frag)
      plen    == Len(key) - i
      cp      == CommonPrefix(x.frag, Drop(key, i))
      answers == [j \in DOMAIN x.kids |-> below[x.kids[j]][i + cp]]
  IN CASE flen = 0             -> FirstHit(answers, Miss)
       [] flen > 0 /\ cp = 0   -> Miss
       [] cp > 0 /\ cp = flen /\ cp = plen   -> Matched(n)
       [] cp > 0 /\ cp < flen /\ plen < flen -> Partial(n, cp)
       [] OTHER                -> FirstHit(answers, Partial(n, cp))

\* fast_find(key)
Find(top, key) ==
  LET search[n \in Live] == [i \in 0 .. Len(key) |-> FindAt(n, key, i, search)]
  IN search[top][0]

\* Mutant: parents->front(), the root, in place of parents->back().
AtFront(r, dad) ==
  [ptr |-> r.ptr, pms |-> r.pms, matched |-> r.matched, dad |-> Root]

\* A locate_return_s: a find_return_s and the last of its parents.
At(r, dad) ==
  [ptr |-> r.ptr, pms |-> r.pms, matched |-> r.matched, dad |-> dad]

\* One call of locate_internal, written a second time in the code: dad is the node
\* that calls it, which it reports with the node the search ends in.
LocateAt(n, key, i, dad, below) ==
  LET x       == node[n]
      rest    == Drop(key, i)
      cp      == CommonPrefix(x.frag, rest)
      answers == [j \in DOMAIN x.kids |-> below[x.kids[j]][i + cp][n]]
  IN IF x.frag = <<>> THEN FirstHit(answers, At(Miss, NoPtr))
     ELSE IF cp = 0 THEN At(Miss, NoPtr)
     ELSE IF x.frag = rest THEN At(Matched(n), dad)
     ELSE IF cp < Len(x.frag) /\ Len(rest) < Len(x.frag) THEN At(Partial(n, cp), dad)
     ELSE FirstHit(answers, At(Partial(n, cp), dad))

\* locate(key), with the parent of the node it ends in (parents->back()).
Locate(top, key) ==
  LET locate[n \in Live] ==
        [i \in 0 .. Len(key) |->
           [dad \in Live \cup {NoPtr} |-> LocateAt(n, key, i, dad, locate)]]
  IN locate[top][0][NoPtr]

\* The store's reading of a partial match: "app.logging" names "app.logging.".
EndsInDelim(r) ==
  /\ ~ r.matched /\ r.pms > 0
  /\ Len(node[r.ptr].frag) = r.pms + 1
  /\ Last(node[r.ptr].frag) = Delim

Has(top, key) == LET r == Find(top, key) IN r.matched \/ EndsInDelim(r)

Get(top, key) == LET r == Find(top, key) IN
  IF r.matched \/ EndsInDelim(r) THEN node[r.ptr].value ELSE node[top].value

\* search(key), which trie_t::get(key) -> weak_node_ptr is built on.  `auto pos =
\* pms > 0` gives pos the type bool: the fragment is compared with 1 + 1, not with
\* pms + 1.
Search(top, key) == LET r == Locate(top, key) IN
  IF /\ ~ r.matched /\ r.pms > 0
     /\ Len(node[r.ptr].frag) = 2
     /\ Last(node[r.ptr].frag) = Delim
  THEN [r EXCEPT !.matched = TRUE] ELSE r

-----------------------------------------------------------------------------
(* Inserting: insert(key, v), which set(key, v) is another name for.       *)

\* The ids make_shared may return when the ids in `used` are taken.  Taking the
\* least one free loses nothing: no handle to a freed node is modelled here.
Fresh(used) == {a \in Node \ used : \A b \in Node \ used : a <= b}

\* The heap after make_shared has returned id a for a node with fields x.
MakeShared(heap, a, x) ==
  [m \in DOMAIN heap \cup {a} |-> IF m = a THEN x ELSE heap[m]]

\* Mutant: the whole key becomes the title.
RestTitleWhole(key, m) == {key}

\* key + m, the rest of a key after m characters.  Nothing in insert compares m
\* with the length of the key: past its end the result is whatever lies there.
RestTitle(key, m) == IF m <= Len(key) THEN {Drop(key, m)} ELSE Garbage

\* Mutant: one character too many goes.
ChopOneMore(path, minus) ==
  IF minus < Len(path) THEN SubSeq(path, 1, Len(path) - minus - 1) ELSE path

\* full_path.substr(0, full_path.length() - minus) with the wrap of size_t.
Chop(path, minus) ==
  IF minus <= Len(path) THEN SubSeq(path, 1, Len(path) - minus) ELSE path

\* Mutant: the pointer is pushed after it has been moved from.
AdoptMoved(x, a) == [x EXCEPT !.kids = Append(@, NoPtr)]

\* node x after it has been given another child.
Adopt(x, a) == [x EXCEPT !.kids = Append(@, a)]

\* insert, the search matched: the value is replaced and nothing else.
Replace(top, r, v) ==
  \E n \in Live \ {top} :
    /\ r = Matched(n)
    /\ node' = [node EXCEPT ![n].value = v]
    /\ UNCHANGED oob

\* insert, the whole fragment of n is a prefix: a leaf for the rest goes below n.
AddChild(top, r, key, v) ==
  \E n \in Live \ {top}, a \in Fresh(Live) :
    LET m == Len(node[n].path) IN
    /\ r = Partial(n, Len(node[n].frag)) /\ r.pms > 0
    /\ \E title \in RestTitle(key, m) :
         node' = MakeShared([node EXCEPT ![n] = Adopt(@, a)], a, Leaf(key, title, v))
    /\ oob' = (oob \/ m > Len(key))

\* Mutant: the node keeps one character too few.
CutNodeShort(x, pms, b, c) ==
  [type  |-> "branch",
   path  |-> Chop(x.path, Len(x.frag) - pms),
   frag  |-> SubSeq(x.frag, 1, pms - 1),
   value |-> NoValue,
   kids  |-> x.kids \o <<b, c>>]

\* Mutant: the node takes the path of the part cut off.
CutNodeSwapped(x, pms, b, c) ==
  [type  |-> "branch",
   path  |-> Drop(x.frag, pms),
   frag  |-> SubSeq(x.frag, 1, pms),
   value |-> NoValue,
   kids  |-> x.kids \o <<b, c>>]

\* Mutant: the part cut off gets the children, and the node keeps them too.
CutOffSharing(x, pms) ==
  [Leaf(x.path, Drop(x.frag, pms), x.value) EXCEPT !.kids = x.kids]

\* Mutant: the value is taken out of the node and not passed on.
CutOffEmpty(x, pms) == Leaf(x.path, Drop(x.frag, pms), NoValue)

\* insert, the fragment of n differs after pms characters: n is cut there and
\* becomes a branch, its value moves to a new leaf b for the part cut off, and a
\* second new leaf c takes the key.  The children of n stay with n.
CutNode(x, pms, b, c) ==
  [type  |-> "branch",
   path  |-> Chop(x.path, Len(x.frag) - pms),
   frag  |-> SubSeq(x.frag, 1, pms),
   value |-> NoValue,
   kids  |-> x.kids \o <<b, c>>]

CutOff(x, pms) == Leaf(x.path, Drop(x.frag, pms), x.value)

Split(top, r, key, v) ==
  \E n \in Live \ {top}, b \in Fresh(Live) :
    \E pms \in 1 .. Len(node[n].frag) - 1, c \in Fresh(Live \cup {b}) :
      LET m == Len(Chop(node[n].path, Len(node[n].frag) - pms)) IN
      /\ r = Partial(n, pms)
      /\ \E title \in RestTitle(key, m) :
           LET cut == [node EXCEPT ![n] = CutNode(@, pms, b, c)] IN
           node' = MakeShared(MakeShared(cut, b, CutOff(node[n], pms)),
                              c, Leaf(key, title, v))
      /\ oob' = (oob \/ m > Len(key))

\* insert, nothing found: a leaf for the whole key goes below the root.
AddAtRoot(top, r, key, v) ==
  \E a \in Fresh(Live) :
    /\ r = Miss
    /\ LET root == [Adopt(node[top], a) EXCEPT !.value = NoValue, !.type = "branch"]
       IN node' = MakeShared([node EXCEPT ![top] = root], a, Leaf(key, key, v))
    /\ UNCHANGED oob

InsertKey(top, key, v) ==
  LET r == Find(top, key) IN
  \/ Replace(top, r, v)
  \/ AddChild(top, r, key, v)
  \/ Split(top, r, key, v)
  \/ AddAtRoot(top, r, key, v)

-----------------------------------------------------------------------------
(* Removing: remove(key, include_children).                                *)

\* n and everything below it: what is freed when n's parent lets go of it.
Subtree(n) ==
  LET closed == {S \in SUBSET Live :
                   n \in S /\ \A m \in S : Range(node[m].kids) \subseteq S}
  IN {m \in Live : \A S \in closed : m \in S}

\* Mutant: whatever the search ended in is taken.
TakesPartial(r, n) == r.ptr = n

\* remove takes an exact match, or a node that lacks only the delimiter.
Takes(r, n) == r.ptr = n /\ (r.matched \/ EndsInDelim(r))

\* removed_fully with include_children: the parent drops n (del).
RemoveTree(top, r) ==
  \E n \in Live \ {top}, d \in Live : \E j \in DOMAIN node[d].kids :
    /\ Takes(r, n)
    /\ r.dad = d
    /\ node[d].kids[j] = n
    /\ node' = [m \in Live \ Subtree(n) |->
                  IF m = d THEN [node[d] EXCEPT !.kids = RemoveAt(@, j)]
                           ELSE node[m]]
    /\ UNCHANGED oob

\* removed_fully without include_children: EISDIR, once the value has been
\* taken out of the node.
RemoveValue(top, r) ==
  \E n \in Live \ {top} :
    /\ Takes(r, n)
    /\ node' = [node EXCEPT ![n].value = NoValue]
    /\ UNCHANGED oob

\* No such key: ENAMETOOLONG or 0, and ok is false either way.
RemoveNone(r) ==
  /\ ~ r.matched /\ ~ EndsInDelim(r)
  /\ UNCHANGED vars

RemoveKey(top, key, include_children) ==
  LET r == Locate(top, key) IN
  \/ include_children /\ RemoveTree(top, r)
  \/ ~ include_children /\ RemoveValue(top, r)
  \/ RemoveNone(r)

Next == \E key \in Key :
          \/ \E v \in Value : InsertKey(Root, key, v)
          \/ \E include_children \in BOOLEAN : RemoveKey(Root, key, include_children)

Spec == Init /\ [][Next]_vars

-----------------------------------------------------------------------------
(* What holds of every heap, whatever keys come in whatever order.         *)

\* The nodes form one tree below the root: no child pointer dangles, no node
\* has two parents or is listed twice, the root has none, and every allocated
\* node can be reached (nothing leaks when del drops a subtree).
NoDanglingKid == \A n \in Live : Range(node[n].kids) \subseteq Live \ {Root}

OneParent ==
  \A m, n \in Live : \A i \in DOMAIN node[m].kids, j \in DOMAIN node[n].kids :
    node[m].kids[i] = node[n].kids[j] => m = n /\ i = j

AllReachable == Live \subseteq Subtree(Root)

HeapIsTree == NoDanglingKid /\ OneParent /\ AllReachable

\* The pieces every insert cuts paths and titles into stay consistent: until a
\* key is read past its end, the fragment of a node is the tail of its path.
FragmentEndsPath == ~ oob => \A n \in Live : IsSuffix(node[n].frag, node[n].path)

\* "for root node only" (fast_find_internal, locate_internal): a node other than
\* the root whose fragment came out empty never gets a child or becomes a branch,
\* so a search passing through it finds nothing there.
EmptyFragmentIsDeadEnd ==
  \A n \in Live \ {Root} :
    node[n].frag = <<>> => node[n].kids = <<>> /\ node[n].type = "leaf"

\* insert searches with fast_find and remove with locate, two copies of one
\* walk: they agree on every key, and the parent locate reports, the one remove
\* deletes from, is the parent of the node it ends in.
SearchesAgree ==
  \A key \in Key : LET f == Find(Root, key)  l == Locate(Root, key) IN
    /\ <<f.ptr, f.pms, f.matched>> = <<l.ptr, l.pms, l.matched>>
    /\ IsHit(f) => l.ptr \in Range(node[l.dad].kids)

\* What the nodes hold, path by path, whether a search can reach it or not.
Contents == {<<node[n].path, node[n].value>> :
               n \in {m \in Live : node[m].value # NoValue}}

\* A step that allocates is an insert that did not overwrite: it adds its own
\* pair and disturbs no other.  The value a split moves out of the node it cuts
\* arrives under the same path.
InsertOnlyAdds ==
  [][Live' \ Live # {}
       => \E key \in Key, v \in Value : Contents' = Contents \cup {<<key, v>>}]_vars
=============================================================================
