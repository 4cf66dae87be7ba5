----------------------------- MODULE BeatreeRead -----------------------------
(***************************************************************************)
(* Reading a beatree: the lookup of a leaf and the iterator over a range   *)
(* of keys.  An index is a sequence of branches, a branch a sequence of    *)
(* <<separator, page number>>, and leaves maps page numbers to sequences   *)
(* of <<key, value>>.  The staging maps are sequences of such pairs, with  *)
(* NoValue for a deletion.  A bound is <<>>, or a key in a singleton.      *)
(***************************************************************************)
EXTENDS Trie

NotBefore(a, b) == ~Before(a, b)
Under(key, end) == end = <<>> \/ Before(key, end[1])
\* The last entry whose separator is not past the key, 0 when there is none.
LastUpTo(separators, key) == Cardinality({i \in DOMAIN separators : NotBefore(key, separators[i])})
Separators(branch) == [i \in DOMAIN branch |-> branch[i][1]]
BranchSeparators(index) == [i \in DOMAIN index |-> index[i][1][1]]

\* ops::partial_lookup: the leaf page that may hold the key, <<>> for none.
partial_lookup(index, key) ==
  LET b == LastUpTo(BranchSeparators(index), key)
  IN  IF b = 0 THEN <<>> ELSE <<index[b][LastUpTo(Separators(index[b]), key)][2]>>
Find(items, key) ==
  LET at == SelectSeq(items, LAMBDA x : x[1] = key) IN IF at = <<>> THEN <<>> ELSE <<at[1][2]>>
\* Tree::lookup and ReadTransaction::lookup_async: staging first, the newer
\* map before the older one; answers the value or NoValue.
lookup(primary, secondary, index, leaves, key) ==
  LET p == Find(primary, key)
      s == Find(secondary, key)
      pn == partial_lookup(index, key)
      found == IF pn = <<>> THEN <<>> ELSE Find(leaves[pn[1]], key)
  IN  CASE p # <<>> -> p[1]
        [] p = <<>> /\ s # <<>> -> s[1]
        [] OTHER -> IF found = <<>> THEN NoValue ELSE found[1]
----------------------------------------------------------------------------
(***************************************************************************)
(* LeafIterator.  st is "blocked" (waits for a leaf), "proceeding" (at     *)
(* entry cur of leaf pn) or "done".                                        *)
(***************************************************************************)
DoneLeaves == [st |-> "done", b |-> 0, i |-> 0, pn |-> 0, cur |-> 0, start |-> <<>>]
BlockedAt(b, i, start) == [st |-> "blocked", b |-> b, i |-> i, pn |-> 0, cur |-> 0, start |-> start]
NewLeafIterator(index, start) ==
  LET b == LastUpTo(BranchSeparators(index), start)
  IN  IF b = 0 THEN DoneLeaves ELSE BlockedAt(b, LastUpTo(Separators(index[b]), start), <<start>>)

\* The leaf is used up: on to the next one, if it can hold keys of the range.
new_state_leaf_consumed(index, it, end) ==
  IF it.i < Len(index[it.b])
  THEN IF Under(index[it.b][it.i + 1][1], end) THEN BlockedAt(it.b, it.i + 1, <<>>) ELSE DoneLeaves
  ELSE IF it.b < Len(index) /\ Under(index[it.b + 1][1][1], end)
       THEN BlockedAt(it.b + 1, 1, <<>>) ELSE DoneLeaves

provide_leaf(index, leaves, it, pn, end) ==
  LET first == IF it.start = <<>> THEN 1
               ELSE 1 + Cardinality({j \in DOMAIN leaves[pn] : Before(leaves[pn][j][1], it.start[1])})
  IN  IF first > Len(leaves[pn]) THEN new_state_leaf_consumed(index, it, end)
      ELSE [st |-> "proceeding", b |-> it.b, i |-> it.i, pn |-> pn, cur |-> first, start |-> <<>>]

LeafPeek(index, leaves, it) ==
  IF it.st = "blocked" THEN index[it.b][it.i][1] ELSE leaves[it.pn][it.cur][1]
\* Takes the entry at cur: [it, item], with item <<>> when it is out of range.
LeafNext(index, leaves, it, end) ==
  LET leaf == leaves[it.pn]
      within(j) == Under(leaf[j][1], end)
      next == [it EXCEPT !.cur = @ + 1]
      state == CASE it.cur = Len(leaf) ->
                      IF within(it.cur) THEN new_state_leaf_consumed(index, it, end) ELSE DoneLeaves
                 [] it.cur < Len(leaf) /\ ~within(it.cur + 1) -> DoneLeaves
                 [] OTHER -> next
  IN  [it |-> state, item |-> IF within(it.cur) THEN <<leaf[it.cur]>> ELSE <<>>]
----------------------------------------------------------------------------
(***************************************************************************)
(* StagingIterator: the two maps merged, the newer one hiding the older.   *)
(***************************************************************************)
StagingPeek(it) ==
  CASE it.primary = <<>> /\ it.secondary = <<>> -> <<>>
    [] it.primary # <<>> /\ (it.secondary = <<>> \/ NotBefore(it.secondary[1][1], it.primary[1][1])) ->
         <<it.primary[1]>>
    [] OTHER -> <<it.secondary[1]>>
\* Fault: the older map's entry for the same key stays.
StagingNextOne(it) ==
  LET both == it.primary # <<>> /\ it.secondary # <<>>
      first == it.primary # <<>> /\ (~both \/ NotBefore(it.secondary[1][1], it.primary[1][1]))
  IN  [it EXCEPT !.primary = IF first THEN Tail(@) ELSE @, !.secondary = IF first THEN @ ELSE Tail(@)]
StagingNext(it) ==
  LET both == it.primary # <<>> /\ it.secondary # <<>>
      same == both /\ it.primary[1][1] = it.secondary[1][1]
      first == it.primary # <<>> /\ (~both \/ same \/ Before(it.primary[1][1], it.secondary[1][1]))
  IN  [it EXCEPT !.primary = IF first THEN Tail(@) ELSE @,
                 !.secondary = IF same \/ ~first THEN Tail(@) ELSE @]

\* ReadTransaction::iterator
NewIterator(primary, secondary, index, start, end) ==
  LET range(s) == SelectSeq(s, LAMBDA x : NotBefore(x[1], start) /\ Under(x[1], end))
  IN  [leaf |-> NewLeafIterator(index, start), primary |-> range(primary), secondary |-> range(secondary)]

(***************************************************************************)
(* BeatreeIterator::next: [it, out] with out "blocked", "end" or "item".   *)
(***************************************************************************)
Out(it, out, item) == [it |-> it, out |-> out, item |-> item]
TakeLeaf(index, leaves, it, end) ==
  LET took(n) == Out([it EXCEPT !.leaf = n.it], IF n.item = <<>> THEN "end" ELSE "item", n.item)
  IN  IF it.leaf.st = "blocked" THEN Out(it, "blocked", <<>>)
      ELSE took(LeafNext(index, leaves, it.leaf, end))
\* One turn of its loop; out is "again" when the loop goes on.
NextTurn(index, leaves, it, end) ==
  LET m == StagingPeek(it)
      leaf == it.leaf.st # "done"
      key == LeafPeek(index, leaves, it.leaf)
      gone == m[1][2] = NoValue
      memory == Out(StagingNext(it), "item", m)
      skip == Out(StagingNext(it), "again", <<>>)
      drop(it2) == [it2 EXCEPT !.leaf = LeafNext(index, leaves, it.leaf, end).it]
  IN  CASE m = <<>> /\ ~leaf -> Out(it, "end", <<>>)
        [] m = <<>> /\ leaf -> TakeLeaf(index, leaves, it, end)
        [] m # <<>> /\ (~leaf \/ Before(m[1][1], key)) -> IF gone THEN skip ELSE memory
        [] m # <<>> /\ leaf /\ m[1][1] = key ->
             IF it.leaf.st = "blocked" THEN Out(it, "blocked", <<>>)
             ELSE IF gone THEN Out(drop(StagingNext(it)), "again", <<>>)
             ELSE Out(drop(StagingNext(it)), "item", m)
        [] OTHER -> TakeLeaf(index, leaves, it, end)

\* Runs the iterator until it blocks or ends (limit 0) or yields an item
\* (limit 1): [it, out, items].
Drain(index, leaves, start, end, limit) ==
  LET turns == 1 + Len(start.primary) + Len(start.secondary)
               + (IF start.leaf.st = "proceeding" THEN Len(leaves[start.leaf.pn]) ELSE 0)
      turn(s, i) ==
        LET put(n) == [it |-> n.it, out |-> n.out, items |-> s.items \o n.item]
        IN  IF s.out \in {"blocked", "end"} \/ (limit = 1 /\ s.items # <<>>) THEN s
            ELSE put(NextTurn(index, leaves, s.it, end))
  IN  Run(turn, [it |-> start, out |-> "again", items |-> <<>>], [i \in 1..turns |-> i])
----------------------------------------------------------------------------
(***************************************************************************)
(* NeededLeavesIter: the pages the iterator will ask for, in order.        *)
(***************************************************************************)
needed_leaves(index, leaf, end) ==
  LET from == IF leaf.st = "proceeding" THEN leaf.i + 1 ELSE leaf.i
      rest(b) == IF b < leaf.b THEN <<>> ELSE IF b = leaf.b THEN Drop(index[b], from - 1) ELSE index[b]
      all == Run(LAMBDA s, b : s \o rest(b), <<>>, [b \in 1..Len(index) |-> b])
      within == SelectSeq(all, LAMBDA x : Under(x[1], end))
  IN  IF leaf.st = "done" THEN <<>> ELSE [i \in DOMAIN within |-> within[i][2]]

\* What the iterator yields of a range when it is given the leaves it needs, one
\* after the other, each time it blocks: [it, out, items].
Iterated(primary, secondary, index, leaves, start, end) ==
  LET new == NewIterator(primary, secondary, index, start, end)
      join(d, n) == [n EXCEPT !.items = d.items \o @]
      step(d, pn) ==
        IF d.out # "blocked" THEN d
        ELSE join(d, Drain(index, leaves, [d.it EXCEPT !.leaf = provide_leaf(index, leaves, @, pn, end)], end, 0))
  IN  Run(step, Drain(index, leaves, new, end, 0), needed_leaves(index, new.leaf, end))
=============================================================================
