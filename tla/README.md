# A verification project for trie-cxx

trie-cxx is a header-only C++20 library: a radix tree (`trie_t<>`) with dotted key
paths, used as an in-memory key-value store, and a handful of chrono helpers. This
directory holds TLA+ modules translated from its source, the TLC configurations that
check them, and proofs about them that tlapm checks.

Run everything from this directory:

    tlc -workers 2 -config MCTrie.cfg MCTrie
    tlc -workers 2 -config MCTrieStore.cfg MCTrieStore
    tlc -workers 2 -config Claim_SetThenGet.cfg MCTrieClaims     # and the other claims
    tlc -workers 2 -config MCTrieWalk.cfg MCTrieWalk             # and Handles, Streams, Calendar
    tlapm TrieProofs.tla                                         # and ProofFacts, SearchProofs,
                                                                 # StoreProofs, WalkProofs, HandleProofs,
                                                                 # StreamProofs, CalendarProofs

`PROJECT.json` says, definition by definition, which source lines each one stands for.
Line numbers below are those of `include/trie-cxx/trie-core.hh` unless another file is
named.

## The system

The library starts no thread, takes no lock, and writes nothing to disk. What makes it
hard is that the tree is rebuilt under the client's feet: every insert may cut nodes
that earlier inserts made, and each later search depends on every cut having been
right. The remaining hazards are in what outlives a call (handles, callbacks) and in
one process-wide flags word.

| Part | State | Operations | What it owes |
|---|---|---|---|
| `node<>` / `trie_t<>` (trie-core.hh) | per node: type, full path, fragment, value, children; the root pointer | `insert`/`set` (two copies, 261-373 and 843-955), `remove`, `find`/`fast_find`/`locate`, `has`, `get`, `search` | one tree without leaks or shared nodes; a stored key is found; no call loses another key's value; `remove` takes what it names and nothing else |
| handles (`weak_node_ptr`, `node_ptr`, `root(new_root)`, `value(v)`) | pointers held by clients; roots shared by copies of a `trie_t` | lock, release, write through, copy a trie, exchange its root | a handle never comes to stand for another key; tries stay apart; nothing in use is freed |
| `walk`, `size` | the frames of the recursion | depth-first traversal, `walk` with a client callback | each node once; no use of an invalidated iterator; it ends |
| `dump`, `variant_to_string`, `value_t` (trie-core.hh, trie-base.hh, trie-node.hh) | the stream written to | print a value, print a tree | a value does not change how the next one looks |
| `append`, `update`, `move`, `trie_t::insert(std::string)` | - | not instantiable as written | - |
| extension packages (trie-node.hh) | desc, comment, tag | accessors | - |
| `store_node<>`, `store_t<>` (trie-node.hh, trie-store.hh) | - | declared, never defined | - |
| `iom` (trie-chrono.hh) | one static flags word for the whole process | `set_flags`, `reset`, `has`, `saver` | a saver restores what it saved; each manipulator sets the zone or the digits it names, and no other |
| `format_duration`, `time_point_get_*`, `serialize_time_point`, `clock` | the stream's fill and adjustment | print | the text is the time |
| calendar helpers | none | `last_day_at_this_month/year`, `compare_date_part` | agree with the calendar, on the month their comments name |
| `try_parse*`, `parse_datetime` | the caller's `std::tm` | try formats in order | a failed format leaves nothing behind; the instant is the text's |
| timers | time of construction | print in the destructor | - |
| test/trie-1.cc | a 256-way word trie of its own | - | - |
| CLI, examples, test support, build files | - | - | - |

How they interact: `trie_t` forwards each call to its root `node`; `insert` searches
with `fast_find_internal` and then edits the node the search ended in; `remove`
searches with `locate_internal`, a second copy of the walk that also collects parents,
and edits the last parent. The store calls (`has`, `get`, `search`) add one rule on
top of a search: a node that lacks only the trailing delimiter counts as found. The
only calls back into client code are `walk`'s callback and the timers' callbacks. A dump
prints values through `variant_to_string`, which prints durations through
`format_duration` on the same stream and time points through `format_time_point`, which
reads the flags of `iom`; `parse_datetime` and the calendar helpers meet in the `std::tm`
a client passes from one to the other.

What is hard to test here is listed line by line under `hazards` in `PROJECT.json`.

## The modules

| Module | Models |
|---|---|
| `Trie` | the tree: heap, both searches, `insert`/`set`, `remove`, `has`, `get`, `search` |
| `TrieMap` | what the store API promises: a map from keys to values |
| `TrieStore` | `Trie` with calls that avoid the cases the claims fail on; refines `TrieMap` |
| `TrieClaims` | what the repository's comments say without a condition |
| `TrieHandles` | several tries over one heap, and the handles clients hold on nodes and roots (the calls are those of `TrieStore`, made on the root of one trie) |
| `Traversal` | what `walk` promises: each node that stays is visited, none twice |
| `TrieWalk` | `walk_internal` frame by frame on `TrieStore`, with the client's calls from its callback; refines `Traversal` |
| `TimeFormat` | what the manipulators of `iom` promise: a zone, a number of digits, scopes |
| `FormatFlags` | the flag word bit by bit, savers, and the printing of instants |
| `FlagClaims` | what a test expects of GMT and digits |
| `Streams` | `FormatFlags` with the streams: values, durations, times, dumps; refines `TimeFormat` |
| `Calendar` | calendar helpers and date parsing on one `tm` |
| `CalendarClaims` | what the comments say `last_day_at_this_month` returns |
| `TrieProofs`, `SearchProofs`, `StoreProofs`, `WalkProofs` | theorems about the tree, the searches, the store and the walk, each extending the one before |
| `HandleProofs` | theorems about the tries and the handles into them |
| `StreamProofs` | theorems about the flags and the streams |
| `CalendarProofs` | theorems about the calendar helpers and the parsing of dates |
| `ProofFacts` | facts about numbers, recursion and sequences that these share |
| `MC*` | instances for TLC |

### How `Trie` corresponds to the code

* `node` is the heap: a function from the ids of allocated nodes to their fields
  `_type`, `_path`, `_fragment`, `_value`, `_children`. `_fragment_length` is always the
  fragment's length (`fragment()` sets both) and is not kept twice. Ids stand for
  addresses; `MakeShared` takes the least free one, which loses nothing while no handle
  to a freed node is modelled. When no id is free an insert that allocates is disabled:
  `Node` bounds the number of live nodes, and nothing else does.
* `oob` becomes true when `path + sp->path().length()` (910, 935) points past the end of
  the key. What such a read returns is undefined, and is any member of `Garbage`.
* Keys are sequences over a few characters, one of which is the delimiter. They cannot
  be opaque: the behaviour is all in which prefixes they share. Null pointers, which
  every call rejects at once, are not passed.
* `Find` is `fast_find_internal` and `Locate` is `locate_internal`, each written from its
  own lines, as recursive functions over the heap: `FindAt` and `LocateAt` are one call, given
  what the calls below return. Both keep the order of the children and the order of the tests, including the descent below a node that differs from the key
  part of the way (1127-1135, 1212-1221). A search is a single step together with the
  update that follows it, because no code of the client can run in between.
* `InsertKey` is the disjunction of the four outcomes of `insert`: `Replace` (a match),
  `AddChild` (the whole fragment is a prefix), `Split` (it differs part of the way),
  `AddAtRoot` (nothing found). The branches of `insert` and of the searches for a match
  with a positive `partial_matched_size` (861-901, 1108-1114, 1195-1199) are left out: they need a common
  prefix longer than the rest of the key, and `common_prefix` never exceeds either length.
* `RemoveKey` is `remove` with `removed_fully`: `RemoveTree` (the parent drops the node,
  and what it alone owned is freed), `RemoveValue` (without `include_children`: the value
  has been taken out before EISDIR is reported), `RemoveNone`. The branches for a weak
  pointer that fails to lock, and for no parents, cannot be reached while the search and
  the update are one step; that the parent `locate` reports is the right one is the
  property `SearchesAgree`.
* The calls take the root they are made on as a parameter, `top`: in `Trie`, `TrieStore` and
  `TrieWalk` it is always `Root`, in `TrieHandles` the root of any of the tries.
* Of what the calls return, `Has`, `Get` and `Search` are modelled; `ok` and `en` follow from which
  action was taken, and `old` is not.

### How `TrieHandles` corresponds to the code

* `root[t]` is the `_root` of a `trie_t`. The class declares its destructor, so it has no
  move constructor and an implicit copy that shares the root: `Assign`.
* `weak[h]` and `strong[h]` are the pointers of one scope of a client: `GetNode` is
  `get(key)`, `Lock` is `lock()`, `Release` the end of the scope. `Write` is
  `sp->value(v)`, which swaps the value in.
* `Settle` is what `shared_ptr` does at the end of a call: every node that no `_root` and
  no `node_ptr` owns (`Held`), directly or through parents (`Owned`), is freed, and weak pointers to it
  become `NoPtr`. A removed node somebody holds lives on outside every tree.
* `SwapRoot` and `ResetRoot` are `h = t.root(new_root)` (658-663) for a root that was
  swapped out before and for a new one.
* The clients keep to `ProperInsert` and `ProperRemove` (below) in each trie, and ask for
  handles with `ProperGet`: the search goes down along the key, and where it ends inside a fragment
  or with a match, the key ends there too. On other calls `get` returns a node the key does not
  lead to, as `has` does in the claim `HasMeansExists`.
* Each trie begins with a root of its own, which its constructor makes (1384-1386). The roots
  have the lowest ids: ids are handed out in order, as in `MakeShared`.

### How `TrieWalk` corresponds to the code

* `stack` is the call stack of `walk_internal` (813-825): `next = 0` while `cb` runs for the
  frame's node, and then the position of the range-for. `Enter` is a call: it skips `cb` for a
  node of type NONE.
* `Callback` is a call of the client from `cb`, any that `TrieStore` allows as long as
  the children of the nodes in a loop stay what they are (`KeepsIterators`): a range-for
  over a vector that changes is undefined. That is a condition on the calls of a client that
  knows the loops. A client that works below the node it is called for (`CallBelow`) need not
  know them: its calls are allowed without the condition, and that they meet it is the property
  `LoopsUndisturbed`.
* `sizing` is the walk that `size()` makes, and `count` its counter.
* `seen` and `born` are history: the nodes visited, and those made during the walk. `Traversal`
  sees `seen`, the node `cb` is running for (`Calling`) and the nodes that await their visit (`Owed`).
  Its `Visit` is for a node not in `seen` and changes `calling`, so a second visit is no step of it.

### How `FormatFlags` and `Streams` correspond to the code

* A word is the set of its bits. `SetFlags` has the branches of `set_flags` (325-345) with
  its mask, which is bit 4 alone. `Zone` and `Digits` are the tests that
  `serialize_time_point` and `clock::serialize` make of it.
* The getters divide as C++ does, toward zero, and convert to `size_t` modulo
  2^`SizeBits`, which is assumed to hold the nanoseconds of a second (`SizeBitsAssumption`).
* A stream is the part of its state that the library's printing reads or writes.
  `Setting` is what the manipulators in a branch of `variant_to_string` do to it, `After`
  what is left when `lite_ios_fmt_saver`, if there is one, has put its part back.
* `Text` is `format_duration` from the milliseconds on (472-531): groups before and
  after the separator, the separator and the unit. Years to seconds are exact and appear
  only as `head`, which decides `foundNonZero` and `overs`. `Reading` is what somebody who
  knows the units makes of the text: the groups printed side by side (`Read`), in the unit
  that follows.
* `Look` is what of a stream the text of a value shows. `past` and `lines` are history: whether a
  bool, a duration or a time has been printed to the client's stream, and to that of a dump, and
  the type of the last float.
* A dump is a stringstream of its own (`ss`), which `dump` makes and drops, and to which `dump_r`
  sends any sequence of branches and leaves. The client's stream is given one string.

### How `Calendar` corresponds to the code

* Time is in hours; `Mktime` and `Localtime` are the C library's, with a summer time from
  April to October. What matters is that `mktime` believes the `tm_isdst` it is given,
  and no helper sets it.
* Each action is a call of a client who puts the result into `tm` and goes on from there. The
  clock, the dates of the texts and `month_delta` are bounded (`InstantAssumption`,
  `TextAssumption`, `DeltaAssumption`), so that no call leaves the years that the calendar covers.
* A text and a format are what tells the formats apart: the separator of the date, and whether
  there is a time of day. `std::get_time` reads a format to its end and ignores what follows
  it in the text. What a format that fails has written before is undone by `Restored`; the mutant
  `LeftOver` is the code without it.

### What is assumed of the client in `TrieStore`

`ProperInsert` and `ProperRemove` are conditions on the state in which a call is made:
the search went down along the key and did not leave it, the key goes on after the
point where the search stopped, a node that has to be cut has no children yet, and a
removal takes the key's own node or the one that lacks the delimiter. They leave out the
calls on which the claims `SetThenGet`, `SetKeepsOtherKeys` and `HasMeansExists` fail;
the run `store` shows that they are enough. They are not what the library checks: it
accepts every call.

## What the runs check

| Run | Distinct states | Shows |
|---|---|---|
| `trie` | 43,910 | shape, titles, agreement of the searches and `InsertOnlyAdds`, for any calls |
| `store` | 3,746 (up to symmetry) | radix tree, every path found, refinement of the map |
| `handles` | 24,177 (up to symmetry) | what handles stand for after cuts, removes, copies and root swaps |
| `walk` | 98,124 | loops, callbacks and visits; refinement of `Traversal`; a walk ends |
| `streams` | 26,720 | refinement of `TimeFormat`; what is left in a stream and what shows of it; which instants and durations can be read back |
| `calendar` | 2,196 | month and year ends, dates, parsing, in both seasons |
| `claim_*` | until violated | six statements of the repository that the code does not keep |

**`trie`.** Five nodes (the root and four others), seven keys over `a`, `b` and `.`, one
value, two things a bad read can return. Four nodes below the root are
what it takes to cut a node that has a child and to attach a further key (two levels
of cuts), and the keys contain the empty key, keys that are prefixes of each other, keys that
share nothing, and a key ending in the delimiter next to one that goes on after it. So every
branch of both searches and every disjunct of `Next` is taken, the read past the end
included. One value is enough because `insert` never compares values; `NoValue` is the second.

* `TypeOK`: the type invariant.
* `HeapIsTree`: no dangling child, one parent each, everything reachable from the root.
* `FragmentEndsPath`: until a key has been read past its end, a node's fragment is the
  tail of its path.
* `EmptyFragmentIsDeadEnd`: a leaf whose fragment came out empty never gets children.
* `SearchesAgree`: the two copies of the search end in the same node with the same result on every
  key, and `locate` reports that node's parent.
* `InsertOnlyAdds`: a step that allocates adds one pair to the contents and changes
  no other. This holds even in trees whose keys can no longer be found.

**`store`.** Five nodes, five keys, two interchangeable values (symmetry; no property
tells them apart and there is no liveness property).

* `RadixTree`: a path is the fragments from the root down, and siblings start differently.
* `EveryPathIsFound`: searching for the path of any node ends in that node.
* `ImplementsMap`: with `kv` (the value of the node with that path) for the map, every
  step is a step of `TrieMap`.
* `CallsImplementMap`: and it is the operation that was called: `insert` is `Put`, `remove`
  with children is `Erase`, without them `Clear`.

**`handles`.** Two tries, one scope, two keys with a common part, and four node ids: a
cut needs three nodes, and with a second trie each of the two can hold one. More nodes add
longer chains of the same steps. Symmetry between the tries and between the two last characters;
no liveness property.

* `HandleFollowsKey`: what a handle points to lies on the way to the key it was got with.
* `PathsOnlyShrink`: a node is cut at its end, and never becomes another key's.
* `HandleWriteIsASet`: a value written through a handle is read under the node's key, in
  every trie that shares the node, and under no other key that `ProperGet` allows.
* `TriesAreIsolated`: calls on one trie leave a trie with another root as it was.
* `SwapFreesNothing`: `root(new_root)` hands the old tree to the caller whole.

**`walk`.** Five nodes, four keys over two levels, one value: two loops deep, with siblings on both
levels, and room for the callback to insert below the node it is called for.

* `BelowIsSafe`: from `cb`, inserting or removing a key that goes on after the node's path
  ends its search in no vector that a loop is in.
* `LoopsUndisturbed`: whatever such a call cuts, adds and frees, every loop keeps its node and its
  vector. No condition on the callback stands in for it.
* `ImplementsTraversal`: each node that stays is visited, and none twice, whatever the client does.
* `SizeCountsLeaves`: `size()` differs from the number of keys with a value by exactly the
  emptied leaves and the branches that hold a value.
* `WalkEnds`: under weak fairness of the steps of `walk_internal`, a walk ends. The fairness
  says that a running procedure goes on and that `cb` returns. It is a statement about finite `Node`
  and `Key`: a client that goes on making nodes below the one it is called for is stopped by these
  bounds, and by nothing in the code.

**`streams`.** All flags, on and off; instants after the epoch, at it, in each of the two seconds
before it (those that become 0 and -1) and at the end of these; each part of a duration absent, of one
digit, and of three (`0`, `7`, `100`), below, at and above the seconds; all kinds of values; one
stream at a time, new or used. One saver at a time, and only while nothing has been printed to
the stream (the constraint `SaversApart`): a saver touches the word alone and a stream nothing of
the word, so what the two do together shows nothing new. Nesting and any number of savers, on any stream, are
the theorem's. 30 bits of `size_t` tell a wrapped fraction from a right one.

* `ImplementsTimeFormat`: zone and digits are all that printing reads of the word, and each call is
  the operation its argument names: `gmt` asks for GMT, `ns` for nine digits, a saver's end puts
  back what it found, a print shows the zone and the digits of its time, and only an instant whose
  seconds round to -1 goes unprinted. `AskDigits` of `TimeFormat` gives up GMT, because 331 does;
  that the tests expect otherwise is the claim `DigitsKeepGmt`.
* `InstantReadsBack`: before the epoch, only a printout without a non-zero fraction is right,
  and instants whose seconds round to -1 are not printed at all.
* `ValuesLookAlike`: on the client's stream every kind of value looks as on a new stream, but for
  a list of bools after a bool and a list of floats after a double, and then it does not. Neither the base nor
  the adjustment is ever left changed, and the fill exactly by a duration or a fraction. In a dump a
  duration always looks different, being adjusted to the left.
* `DurationReadsBack`: exactly the durations in `Misplaced`, and in a dump `Padded`, are
  misread; e.g. `7 ms 7 ns` comes out as `7007ns`.
* `DumpIsIndented`: with blanks up to the first duration, with zeros after it.

**`calendar`.** The years 2023 and 2024, one of them a leap year; six instants at the hours where the
seasons disagree about the day; offsets around the lengths of months and years; deltas across
the ends of years in both directions.

* `MonthEndIsFound`: the day counted from the end of the month that `month_delta` names (1 for
  this one, as the comment says; 0 is then the one before), except at an hour of `tm` that falls on
  another day in the season of the result. That 0 is also the default is the claim
  `ThisMonthByDefault`.
* `YearEndIsRight`: the day counted from the end of the year, with the same exception.
* `SameDate`: `compare_date_part` says "same" for instants of one day and one season only.
* `ParseLeavesNoTrace`: a list of formats that fails leaves `tm` as it was.
* `ParsedInstantReadsBack`: the instant is the text's if the date exists and is in the
  season of now; a time of day after a date with slashes is lost.

Where a property is an equivalence with an exception, the exception is what the code
does; it is stated so that a change on either side shows. Where the repository says otherwise there
is a claim.

**The claims.** Each run takes one sentence of the repository and shows calls that
falsify it.

| Claim | Source of the sentence | Calls that break it |
|---|---|---|
| `SetThenGet` | 621 | a key ending where a node is cut, e.g. `set("ab"); set("a"); get("a")` |
| `SetKeepsOtherKeys` | README.md:8 | a cut in a node that already has children |
| `HasMeansExists` | 571 | the descent below a node the key has left |
| `NoActionWithoutChildren` | 1281 | `remove(k, false)` of a stored key |
| `DigitsKeepGmt` | test/chrono.cc:193-195 | `gmt`, then `ms`, `us` or `ns` |
| `ThisMonthByDefault` | trie-chrono.hh:707, 739 | `last_day_at_this_month(tm)`, at any `tm` |

Two more divergences can be read off one line each and have no run. `search` and `get(key)` compare
the fragment's length with `pos + 1` where `pos` is a bool (1235), and so accept a key that lacks
its delimiter only before fragments of two characters, where 435-437 promises all. The `old` that `insert` returns for a new
key that cuts a node is that node's value (921-929: `value_t` has no move constructor, so the move
copies), where 630 promises `old_val_if_has`.

Deadlock is checked in every run: removing an absent key, taking up another stream or
reading the clock is always possible. Only `WalkSpec` states fairness; elsewhere every
call returns within a step, there is no scheduler, and a client need not call again.

## What is proved

`TrieProofs` holds, for every `Node`, `Key`, `Char`, `Value` and `Garbage` that satisfy
the assumptions of `Trie` (ids are naturals, the root is an id and `NoPtr` is not, keys and
bad reads are character sequences, `NoValue` is not a value):

| Theorem | States |
|---|---|
| `Invariant` | `Spec => []IInv` |
| `TypeCorrect` | `Spec => []TypeOK` |
| `TreeShape` | `Spec => []HeapIsTree` |
| `FragmentsMatchPaths` | `Spec => []FragmentEndsPath` |
| `EmptyFragments` | `Spec => []EmptyFragmentIsDeadEnd` |
| `InsertsOnlyAdd` | `Spec => InsertOnlyAdds` |

`IInv` is `TypeOK /\ HeapIsTree /\ Titles`, where `Titles` adds to the two title
properties that the root holds no value (`RootIsEmpty`). None is inductive alone:
that `remove` never frees the root needs the tree (`RootNotBelow`), that a subtree can
be freed without leaving a dangling child needs one parent each (`SubtreeEntry`), and
`InsertOnlyAdds` needs the root to hold no value, which `AddAtRoot` overwrites.

The argument: each action is first restated as an equation between the heaps before and
after (`AddsChild`, `Splits`, `AddsAtRoot`, `SetsValue`, `RemovesTree`); then, one
conjunct at a time, each equation is shown to preserve types, tree and titles. Growing
the tree is one lemma (`TreeGrows`: new distinct leaves appended to one node's
children), used by all three inserts; reachability is handled through `Subtree` as the
least set closed under children (`SubtreeClosed`, `SubtreeLeast`), so it needs no induction. The title
lemmas rest on `SuffixMeans`, which spells out `IsSuffix` character by character.

These proofs use of the search's result only what the actions' guards say of it. They hold
whatever node a search ends in: the shape and the contents of the tree do not depend on the
search being right, and the wrong descent cannot destroy them.

### The searches: `SearchProofs`

| Theorem | States |
|---|---|
| `SearchInvariant` | `Spec => []SearchInv` |
| `SearchesAgreeAlways` | `Spec => []SearchesAgree` |

`SearchInv` adds to `IInv` that finitely many nodes are alive and that the fragment and the
path of the root are empty. That is what makes the recursion of `Find` and `Locate` mean
something: the tree is finite, so a node has as rank the size of its subtree (`TreeIsWood`), and
each search satisfies the equation it is written as (`RankedRecursion` in `ProofFacts`, which
builds the function rank by rank). Induction over the tree then goes through the set of
nodes where a claim holds (`RankedInduction`): a least counterexample among naturals is
a first-order fact, and needs no theorem with an operator for a parameter. `Agree` is the
claim for one node: the two copies return the same there, and `locate` reports the caller
or the parent of the node it ended in.

### The store: `StoreProofs`

For a client that keeps to `ProperInsert` and `ProperRemove`:

| Theorem | States |
|---|---|
| `StoreInvariant` | `StoreSpec => []StoreInv` |
| `StoreIsRadixTree` | `StoreSpec => []RadixTree` |
| `EveryKeyIsFound` | `StoreSpec => []EveryPathIsFound` |
| `TrieIsMap` | `StoreSpec => ImplementsMap` |
| `CallsAreMapOperations` | `StoreSpec => CallsImplementMap` |

`StoreInv` is `SearchInv /\ RadixTree`. `Radix` restates `RadixTree` node by node, without
sequences of fragments: a fragment ends its path and is non-empty if its path is, a child's path is
its parent's and then its fragment, and children of one node differ in the first character. It says
nothing of where a tree begins, so the lemmas on searches hold in a `Grove`, any number of
radix trees in one heap whose roots are the nodes without a path; the tree of a `StoreInv` is
the special case `StoreIsGrove`. From it follows, by
induction over the tree, where a search ends: in the node whose path is the key, if there
is one (`PathFound`), and otherwise, if it stays on the key, in a node none of whose children
goes on like the key (`FindStops`). With the guards of a proper client this says what each of the
four outcomes of `insert` does to the titles, and that new children differ from the old ones.
For the map, `KvHolds` reads `kv` off `Contents` (paths are unique in a radix tree);
`InsertOverwrites` and the removals' effect on `Contents` then give `Put`, `Erase` and `Clear` key by key.

### The walk: `WalkProofs`

| Theorem | States |
|---|---|
| `WalkTypes` | `WalkSpec => []WalkTypeOK` |
| `KeysBelowAreSafe` | `WalkSpec => []BelowIsSafe` |
| `CallsBelowKeepLoops` | `WalkSpec => LoopsUndisturbed` |
| `WalkVisitsOnce` | `WalkSpec => ImplementsTraversal` |
| `SizeIsOffByThese` | `WalkSpec => []SizeCountsLeaves` |

Four invariants, each adding to the one before:

* `WalkInv`: `IInv`, the types of the walk, that the frames are a path from the root, each loop just
  behind the child it is in (`FramesArePath`), and that between walks nothing counts as visited. The
  parts need each other: that the node a callback runs for is still alive after the callback follows
  from its being a child of a node whose children were left alone, in a heap that is a tree again
  (`WhenCalledBack`).
* `WalkingInv` adds `StoreInv`, and is what is inductive. Paths grow from frame to frame
  (`FramesGoDown`), so a search for a key that goes on after the path of the top node comes down to
  that node (`SearchEndsBelow`). A call with it therefore adds to no vector above and deletes from none, and
  what it frees is below (`CallsBelowKeep`). So a callback that keeps to such keys leaves the
  loops alone (`CallbackKeeps`), and the frames are a path again.
* `VisitInv` adds, for each frame, that its node has been visited, nothing below the children
  ahead of its loop, and all that was there below the others, up to the child the next
  frame is for (`InOrder`). That a step of the trie moves no old node to another parent
  (`StaysPut`) keeps this through callbacks. So a loop goes on to nodes that have not been seen
  (`DescendIsVisit`), and when the root's ends none is left (`LeaveIsEnd`).
* `SizeInv` adds that a node with a value has a key for its path (`HeldAreKeys`), and that the
  counter of `size()` is the number of leaves visited (`CountsSeen`).

### The handles: `HandleProofs`

For any number of tries and of holders, whose clients make proper calls:

| Theorem | States |
|---|---|
| `HandleInvariant` | `HandleSpec => []HandleInv` |
| `HandleTypes` | `HandleSpec => []HandleTypeOK` |
| `HandlesFollowKeys` | `HandleSpec => []HandleFollowsKey` |
| `PathsShrink` | `HandleSpec => PathsOnlyShrink` |
| `SwapsFreeNothing` | `HandleSpec => SwapFreesNothing` |
| `TriesStayApart` | `HandleSpec => TriesAreIsolated` |
| `HandleWritesAreSets` | `HandleSpec => HandleWriteIsASet` |

`HandleInv` has three parts, each of which another one needs:

* `Sound`: no dangling child, every root is a node without a path, and every handle lies on the
  way to its key. A handle stays on the way because inserts only chop paths (`Shrinks`).
* `Shape`: the heap is a forest of radix trees. A rank falls from every node to its children, so
  that a search has an answer; no node is in two places; a fragment ends its path; a
  child has a path; and (`Forked`) a child's path goes on from its parent's by its fragment, in
  another character than its siblings'. So the heap is a `Grove` (`ShapeIsGrove`), and a proper
  insert into any of its trees leaves it one by the lemma of `StoreProofs` (`InsertKeepsRadix`).
  That a child has a path makes a root nobody's child, and single parents then mean that two
  roots own no node together (`TreesApart`). Where a search of one trie ends is therefore out of
  reach of the others (`SearchEndsIn`).
* `AllOwned`: every node is owned. Without it `SwapFreesNothing` would fail of a heap with
  garbage in it, which the next call would free.

The key of a proper insert goes on after the point where the search stopped. So `oob` stays false
and no fragment is ever read past the end of its key; `Shape` needs that, because such a
fragment would not end its path.

`HandleWriteIsASet` compares what `get` returns before and after a value is written through a
handle. The write changes no fragment and no children, so every search ends where it did
(`FindSame`). In each trie the node is still in, the search for its path ends in it
(`PathFound`). A key that reads differently ended its search in the written node,
and by `ProperGet` with nothing but a delimiter left: it is the path, or the path less its final
delimiter (`PutBackLast`).

Ownership is handled as the least set closed under children (`OwnedClosed`, `OwnedLeast`,
`OwnedIf`), as reachability is in `TrieProofs`, and needs no induction. The lemmas about searches are
those of `SearchProofs`, which are stated for any heap without cycles (`Wood`) and any node to
begin at; a single tree is the special case `TreeIsWood`.

### Flags, values, durations and instants: `StreamProofs`

For any set of instants, any durations with parts below 1000, any number of savers, and any
`SizeBits` that holds a fraction of a second:

| Theorem | States |
|---|---|
| `StreamTypes` | `StreamSpec => []StreamTypeOK` |
| `FlagsImplementFormat` | `StreamSpec => ImplementsTimeFormat` |
| `InstantsReadBack` | `StreamSpec => []InstantReadsBack` |
| `ValuesAlwaysLookAlike` | `StreamSpec => []ValuesLookAlike` |
| `DumpsAreIndented` | `StreamSpec => []DumpIsIndented` |
| `DurationsReadBack` | `StreamSpec => []DurationReadsBack` |

The word's arithmetic is in `SettingFlags`: each `set_flags` leaves the digits, or
sets them and the local zone, or clears them, or resets both. The savers are a stack of words seen
one by one (`AppendSeen`, `FrontSeen`). Each call is then the operation it should be
(`EveryCallAsAsked`), and every step is one of `TimeFormat` (`FlagStepsAreFormatSteps`).

`Tidy` is the invariant of the streams: what has been printed to one determines its state (`Shows`).
`hex` is never left set; `boolalpha` is after a bool; the fill is `0` after a duration or a
fraction; the precision is that of the last float; and the client's stream is never adjusted to the left.
`Looks` reads off the text of each kind what it takes from such a stream. `DurationsReadBack` goes
through the shapes of the text (`TextReads`) to the number a reader gets (`Value`), and
`ValueIs` says when that is the length of the duration: all parts in their places, and the group
before the separator not moved. TLC has three values for each part of a duration; the theorem
has all thousand. `InstantsReadBack` reduces each getter to the
quotient and remainder of one division (`AfterEpoch`, `BeforeEpoch`), in which the conversion to
`size_t` is the identity above the epoch and never is for a non-zero fraction below it.

### The calendar: `CalendarProofs`

For any years, any instants of the clock in those years, any texts with dates in them, any
`day_offset`, and `month_delta` up to two years either way:

| Theorem | States |
|---|---|
| `CalendarTypes` | `CalendarSpec => []CalendarTypeOK` |
| `MonthEndAlways` | `CalendarSpec => []MonthEndIsFound` |
| `YearEndAlways` | `CalendarSpec => []YearEndIsRight` |
| `SameDateAlways` | `CalendarSpec => []SameDate` |
| `ParseAlwaysCleans` | `CalendarSpec => []ParseLeavesNoTrace` |
| `ParsedAlwaysReadBack` | `CalendarSpec => []ParsedInstantReadsBack` |

`CalendarTypeOK` is inductive itself, but only because every helper stays inside `NearYear`,
where `localtime` is defined: a tm of `FirstYear` less two years and 31 days is (`NearMonths`,
`HourOfDay`), and summer time never moves an instant into the next year (`InstantIs`). The other five are
properties of each typed state. They rest on the counting of days:

* a year starts after all days of an earlier one (`YearsApart`, by linear arithmetic on
  `LeapsBefore`), and so do months (`MonthsApart`): two dates of one day are equal (`OneDate`);
* each day has a year and a month (`YearOfIs`, `MonthOfIs`: the least year and month that have not
  ended), so the `CHOOSE`s in `Localtime` find them, and `localtime` returns the date of
  the day and the hour of it in the season of the instant (`LocaltimeIs`);
* the hour of a helper's tm, counted by its own season, is on the day counted to unless midnight lies
  between (`CrossesIs`, `HourOfDay`), which is `OtherDay`.

The month after the eleventh is the first of the next year (`MonthAfter`), which is where the carry
of `last_day_at_this_month` and its absence below January come to the same (`CarryIs`: what the
code does not carry, `mktime` does). A run of `try_parse_by` is followed format by format to the first
that fits (`FitStep`, `TryParseIs`).

### Only model-checked

* `WalkEnds`: liveness under fairness is out of the prover's reach.
* The claims: they are refuted, each by one run.

## Not modelled

* `append`, `update`, `move` and `trie_t::insert(std::string)`: they do not compile when
  instantiated. `store_t` and `store_node`: unfinished.
* Accessors of the extension packages, `timer`, the `gettimeofday` shim, `format_duration_simple`
  (does not compile when instantiated), `parse_duration` (a stub), `try_parse` (one `get_time` without
  a restore), negative durations, the CLI, examples, test programs and build files.
* References from `value()` and `path()`: they are as good as the `node_ptr` behind them.
* A callback that changes the children of a node in a loop: undefined behaviour from there on.
* Several threads: `iom` is declared not thread-safe, and nothing in the library starts a thread.
* The vector that `to_const_obj` leaks on each `find` (180-186): it is not part of the tree.
* `has` with `partial_match`, `get` with a default: they differ from `Has` and `Get` only in
  the answer on a miss.

## Plan

Done: all modules above, and a theorem for every safety and action property that a passing run
checks, the four refinements included. What is left is not for the prover: `WalkEnds` stays with
`walk`, the passing run that checks it.
