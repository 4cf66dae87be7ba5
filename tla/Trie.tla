-------------------------------- MODULE Trie --------------------------------
(***************************************************************************)
(* The binary merkle trie: its nodes, the positions in it, the pages that  *)
(* hold it and the building of a sub-trie from a list of leaves.  A hash   *)
(* is an injective constructor, so a node is the tree below it.  A key is  *)
(* a tuple of KeyBits bits (256 in the code), a page holds DEPTH layers    *)
(* (6), and indices into a page count from 0.                              *)
(***************************************************************************)
EXTENDS Integers, Sequences, FiniteSetsExt, SequencesExt

CONSTANTS KeyBits, DEPTH

NUM_CHILDREN == 2^DEPTH
MAX_CHILD_INDEX == NUM_CHILDREN - 1
NODES_PER_PAGE == 2^(DEPTH + 1) - 2
MAX_PAGE_DEPTH == (KeyBits - 1) \div DEPTH
----------------------------------------------------------------------------
TERMINATOR == [kind |-> "terminator"]
hash_leaf(k, v) == [kind |-> "leaf", key_path |-> k, value |-> v]
hash_internal(l, r) == [kind |-> "internal", left |-> l, right |-> r]
is_terminator(n) == n.kind = "terminator"
is_leaf(n) == n.kind = "leaf"
is_internal(n) == n.kind = "internal"

\* A left fold that computes every step before the next one begins, so that
\* TLC does not nest the steps.
Run(op(_, _), base, s) ==
  LET after[i \in 0..Len(s)] ==
        IF i = 0 THEN base ELSE CHOOSE r \in {op(v, s[i]) : v \in {after[i - 1]}} : TRUE
  IN  after[Len(s)]
Take(s, n) == SubSeq(s, 1, n)
Drop(s, n) == SubSeq(s, n + 1, Len(s))
shared_bits(a, b) ==
  Max({n \in 0..Min({Len(a), Len(b)}) : \A i \in 1..n : a[i] = b[i]})
\* The order of slices: the first difference decides, a prefix comes first.
Before(a, b) ==
  LET decide(n) == IF n = Len(a) \/ n = Len(b) THEN Len(a) < Len(b) ELSE a[n + 1] < b[n + 1]
  IN  decide(shared_bits(a, b))
load_be(bits) == Run(LAMBDA u, b : 2 * u + b, 0, bits)
\* The DEPTH bits of a child index.
ChildBits(c) == [i \in 1..DEPTH |-> (c \div 2^(DEPTH - i)) % 2]
\* The internal node over a node that its parent reaches by the given bit.
Over(bit, node, sibling) ==
  IF bit = 1 THEN hash_internal(sibling, node) ELSE hash_internal(node, sibling)
----------------------------------------------------------------------------
(***************************************************************************)
(* PageId: a list of child indices, ordered depth first.                   *)
(***************************************************************************)
ROOT_PAGE_ID == <<>>
child_page_id(p, c) == Append(p, c)
parent_page_id(p) == IF p = ROOT_PAGE_ID THEN ROOT_PAGE_ID ELSE Front(p)
is_descendant_of(p, other) == IsPrefix(other, p)
max_descendant(p) ==
  [i \in 1..MAX_PAGE_DEPTH |-> IF i <= Len(p) THEN p[i] ELSE MAX_CHILD_INDEX]
PageBits(p) == Run(LAMBDA bits, c : bits \o ChildBits(c), <<>>, p)
FilledWith(bits, b) == [i \in 1..KeyBits |-> IF i <= Len(bits) THEN bits[i] ELSE b]
min_key_path(p) == FilledWith(PageBits(p), 0)
max_key_path(p) == FilledWith(PageBits(p), 1)
\* PageIdsIterator: the pages on the way of a key, root page first.
PageIds(key) ==
  [i \in 1..(MAX_PAGE_DEPTH + 1) |->
    [d \in 1..(i - 1) |-> load_be(SubSeq(key, (d - 1) * DEPTH + 1, d * DEPTH))]]
----------------------------------------------------------------------------
(***************************************************************************)
(* TriePosition: a path whose bits past depth are left over from earlier   *)
(* moves, and the index of the node in its page, kept up to date by moves. *)
(***************************************************************************)
NewPosition == [path |-> [i \in 1..KeyBits |-> 0], depth |-> 0, node_index |-> 0]
path(pos) == Take(pos.path, pos.depth)
last_page_path(p, depth) == SubSeq(p, ((depth - 1) \div DEPTH) * DEPTH + 1, depth)
node_index(page_path) == 2^Len(page_path) - 2 + load_be(page_path)
from_path_and_depth(p, depth) ==
  [path |-> p, depth |-> depth, node_index |-> node_index(last_page_path(p, depth))]
from_bitslice(bits) == from_path_and_depth(FilledWith(bits, 0), Len(bits))
sibling_index(i) == IF i % 2 = 0 THEN i + 1 ELSE i - 1
parent_node_index(i) == (i - 2) \div 2
bottom_node_index(i) == i - (2^DEPTH - 2)
LeftChild(pos) == pos.node_index * 2 + 2

down(pos, bit) ==
  [path |-> [pos.path EXCEPT ![pos.depth + 1] = bit],
   depth |-> pos.depth + 1,
   node_index |-> IF pos.depth % DEPTH = 0 THEN bit ELSE LeftChild(pos) + bit]
PageDepth(depth) == (depth + DEPTH - 1) \div DEPTH
up(pos, d) ==
  LET depth == pos.depth - d
      parent[i \in 0..d] == IF i = 0 THEN pos.node_index ELSE parent_node_index(parent[i - 1])
  IN  IF depth = 0 THEN NewPosition
      ELSE [path |-> pos.path, depth |-> depth,
            node_index |-> IF PageDepth(pos.depth) = PageDepth(depth) THEN parent[d]
                           ELSE node_index(last_page_path(pos.path, depth))]
sibling(pos) ==
  [pos EXCEPT !.path[pos.depth] = 1 - @, !.node_index = sibling_index(@)]
peek_last_bit(pos) == pos.path[pos.depth]
page_id(pos) ==
  [d \in 1..((pos.depth - 1) \div DEPTH) |->
    load_be(SubSeq(pos.path, (d - 1) * DEPTH + 1, d * DEPTH))]
child_page_index(pos) == bottom_node_index(pos.node_index)
depth_in_page(pos) ==
  IF pos.depth = 0 THEN 0 ELSE pos.depth - ((pos.depth - 1) \div DEPTH) * DEPTH
is_first_layer_in_page(pos) == pos.node_index \in {0, 1}
subtrie_contains(pos, key) == IsPrefix(path(pos), key)
----------------------------------------------------------------------------
(***************************************************************************)
(* Building a sub-trie.  Operations are <<key, value>>, NoValue deleting.  *)
(***************************************************************************)
NoValue == "none"

\* Fault: the leaf under the replaced terminal is forgotten.
leaf_ops_lost(leaf, ops) == SelectSeq(ops, LAMBDA o : o[2] # NoValue)
\* The leaf under the replaced terminal, at its place among the operations.
leaf_ops_spliced(leaf, ops) ==
  LET live(s) == SelectSeq(s, LAMBDA o : o[2] # NoValue)
      at(k) == Cardinality({i \in DOMAIN ops : Before(ops[i][1], k)})
      splice(k) == IF \E i \in DOMAIN ops : ops[i][1] = k THEN ops
                   ELSE InsertAt(ops, at(k) + 1, <<k, leaf.value>>)
  IN  live(IF is_leaf(leaf) THEN splice(leaf.key_path) ELSE ops)

VisitLeaf(u, d, n) == [t |-> "leaf", up |-> u, down |-> d, node |-> n]
VisitInternal(n) == [t |-> "internal", up |-> TRUE, down |-> <<>>, node |-> n]

\* One layer up from s, the sibling taken from the left frontier.
HashUp(key, skip, s) ==
  LET layer == s.layer - 1
      pending == s.pending # <<>> /\ Last(s.pending)[2] = s.layer
      node == Over(key[skip + s.layer], s.node, IF pending THEN Last(s.pending)[1] ELSE TERMINATOR)
  IN  [layer |-> layer, node |-> node,
       pending |-> IF pending THEN Front(s.pending) ELSE s.pending,
       visits |-> Append(s.visits, VisitInternal(node))]

\* The leaf of the i-th key, hashed up to where the next key joins.
BuildLeaf(skip, ops, s, i) ==
  LET key == ops[i][1]
      common(j) == IF j \in DOMAIN ops THEN shared_bits(Drop(ops[j][1], skip), Drop(key, skip)) ELSE -1
      place(n1, n2) ==
        LET depth == Max({n1, n2}) + 1
            layers == IF n1 = -1 THEN 0 ELSE IF n2 = -1 THEN n1 + 1 ELSE Max({0, n1 - n2})
            leaf == hash_leaf(key, ops[i][2])
            visit == VisitLeaf(n1 # -1, SubSeq(key, skip + Max({0, n1}) + 1, skip + depth), leaf)
            start == [layer |-> depth, node |-> leaf, pending |-> s.pending,
                      visits |-> Append(s.visits, visit)]
        IN  Run(LAMBDA t, j : HashUp(key, skip, t), start, [j \in 1..layers |-> j])
      push(t) == [pending |-> Append(t.pending, <<t.node, t.layer>>), visits |-> t.visits]
  IN  push(place(common(i - 1), common(i + 1)))

\* The root of the sub-trie of the operations below skip, and the visits.
build_trie(skip, ops) ==
  LET built(s) == [root |-> Last(s.pending)[1], visits |-> s.visits]
      single(n) == [root |-> n, visits |-> <<VisitLeaf(FALSE, <<>>, n)>>]
  IN  CASE Len(ops) = 0 -> single(TERMINATOR)
        [] Len(ops) = 1 -> single(hash_leaf(ops[1][1], ops[1][2]))
        [] OTHER -> built(Run(LAMBDA s, i : BuildLeaf(skip, ops, s, i),
                                   [pending |-> <<>>, visits |-> <<>>],
                                   [i \in 1..Len(ops) |-> i]))
----------------------------------------------------------------------------
(***************************************************************************)
(* The reference: the node at a prefix of the trie that holds kv, a        *)
(* function from keys to values.  This is what a trie means, not code.     *)
(***************************************************************************)
RECURSIVE TrieNode(_, _)
TrieNode(kv, prefix) ==
  LET below == {k \in DOMAIN kv : IsPrefix(prefix, k)}
      only == CHOOSE k \in below : TRUE
  IN  IF below = {} THEN TERMINATOR
      ELSE IF Cardinality(below) = 1 THEN hash_leaf(only, kv[only])
      ELSE hash_internal(TrieNode(kv, Append(prefix, 0)), TrieNode(kv, Append(prefix, 1)))
TrieRoot(kv) == TrieNode(kv, <<>>)
\* The depth at which the trie of kv has the terminal of a key.
TerminalDepth(kv, key) ==
  Min({d \in 0..KeyBits : ~is_internal(TrieNode(kv, Take(key, d)))})
=============================================================================
