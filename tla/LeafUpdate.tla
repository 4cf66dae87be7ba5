----------------------------- MODULE LeafUpdate -----------------------------
(***************************************************************************)
(* Leaf nodes and the LeafUpdater, which turns an old leaf and a stream of *)
(* changes into new leaves.  Cell pointers take one byte here (34 in the   *)
(* code) and a node LeafBody bytes; the header is left out.  Positions     *)
(* count from 0, as in the code.                                           *)
(***************************************************************************)
EXTENDS BitOps, SequencesExt

CONSTANT LeafBody      \* LEAF_NODE_BODY_SIZE

MAX_LEAF_VALUE_SIZE == LeafBody \div 3 - 1
LEAF_MERGE_THRESHOLD == LeafBody \div 2
LEAF_BULK_SPLIT_THRESHOLD == (LeafBody * 9) \div 5
LEAF_BULK_SPLIT_TARGET == (LeafBody * 3) \div 4

(***************************************************************************)
(* A leaf: cell pointers (key, offset of the value, overflow flag) and the *)
(* bytes of the page.  A value ends where the next one starts.             *)
(***************************************************************************)
LeafN(leaf) == Len(leaf.ptrs)
LeafKey(leaf, i) == leaf.ptrs[i + 1].k
LeafRange(leaf, i) ==
  <<leaf.ptrs[i + 1].off,
    IF i = LeafN(leaf) - 1 THEN LeafBody ELSE leaf.ptrs[i + 2].off>>
LeafValue(leaf, i) ==
  LET r == LeafRange(leaf, i)
  IN  [v |-> [j \in 1..(r[2] - r[1]) |-> leaf.bytes[r[1] + j - 1]], o |-> leaf.ptrs[i + 1].o]
LeafCell(leaf, i) == [k |-> LeafKey(leaf, i)] @@ LeafValue(leaf, i)
ValuesSize(leaf, from, to) == LeafRange(leaf, to - 1)[2] - LeafRange(leaf, from)[1]
leaf_body_size(n, size) == n + size

\* The position of a key and whether it is there, from position low on.
LeafSearch(leaf, key, low) ==
  LET at(pos) == [found |-> pos < LeafN(leaf) /\ LeafKey(leaf, pos) = key, pos |-> pos]
  IN  at(Min({i \in low..(LeafN(leaf) - 1) : LeafKey(leaf, i) >= key} \cup {LeafN(leaf)}))
LeafGet(leaf, key) ==
  {LeafValue(leaf, i) : i \in {i \in 0..(LeafN(leaf) - 1) : LeafSearch(leaf, key, 0) = [found |-> TRUE, pos |-> i]}}

\* LeafBuilder: values are laid out from the end of the page back.
Placed(bytes, off, v) ==
  [i \in DOMAIN bytes |-> IF i \in off..(off + Len(v) - 1) THEN v[i - off + 1] ELSE bytes[i]]
NewLeafBuilder(size) ==
  [ptrs |-> <<>>, bytes |-> [i \in 0..(LeafBody - 1) |-> 0], remaining |-> size]
PushCell(b, key, v, o) ==
  LET off == LeafBody - b.remaining
  IN  [ptrs |-> Append(b.ptrs, [k |-> key, off |-> off, o |-> o]),
       bytes |-> Placed(b.bytes, off, v), remaining |-> b.remaining - Len(v)]
\* Fault: the copied cell pointers keep the offsets they had in the old leaf.
PushLeafChunkStale(b, leaf, from, to) ==
  LET off == LeafBody - b.remaining
      start == LeafRange(leaf, from)[1]
      size == ValuesSize(leaf, from, to)
  IN  [ptrs |-> b.ptrs \o SubSeq(leaf.ptrs, from + 1, to),
       bytes |-> Placed(b.bytes, off, [i \in 1..size |-> leaf.bytes[start + i - 1]]),
       remaining |-> b.remaining - size]
PushLeafChunk(b, leaf, from, to) ==
  LET off == LeafBody - b.remaining
      start == LeafRange(leaf, from)[1]
      size == ValuesSize(leaf, from, to)
      moved(p) == [p EXCEPT !.off = @ + off - start]
  IN  [ptrs |-> b.ptrs \o [i \in 1..(to - from) |-> moved(leaf.ptrs[from + i])],
       bytes |-> Placed(b.bytes, off, [i \in 1..size |-> leaf.bytes[start + i - 1]]),
       remaining |-> b.remaining - size]
----------------------------------------------------------------------------
(***************************************************************************)
(* The updater.  ops is a list of insertions and of chunks of the base     *)
(* leaf to keep; n and size gauge the leaf the ops would make.             *)
(***************************************************************************)
NoBase == [node |-> [ptrs |-> <<>>, bytes |-> <<>>], sep |-> None, low |-> 0]
NewLeafUpdater ==
  [base |-> NoBase, cutoff |-> None, over |-> None, ops |-> <<>>, n |-> 0, size |-> 0,
   deleted |-> <<>>]
HasBase(u) == u.base # NoBase

LeafIns(key, v, o) == [t |-> "insert", k |-> key, v |-> v, o |-> o]
LeafKeep(from, to, size) == [t |-> "keep", from |-> from, to |-> to, size |-> size]
OpItems(op) == IF op.t = "insert" THEN 1 ELSE op.to - op.from
OpSize(op) == IF op.t = "insert" THEN Len(op.v) ELSE op.size
BaseCellOp(u, i) == LET c == LeafCell(u.base.node, i) IN LeafIns(c.k, c.v, c.o)

LeafInScope(u, key) == ~Above(key, u.cutoff)
LeafResetBase(u, node, sep, cutoff) ==
  [u EXCEPT !.base = [node |-> node, sep |-> sep, low |-> 0], !.cutoff = cutoff]
LeafSeparator(u) == OrElse(u.over, OrElse(u.base.sep, 0))

\* Keep the cells of the base up to pos; the cell at pos is skipped if it was
\* found.  An overflow cell that is skipped is reported, unless nothing is kept.
KeptTo(u, found, pos) ==
  LET from == u.base.low
      moved == [u EXCEPT !.base.low = IF found THEN pos + 1 ELSE pos]
      size == ValuesSize(u.base.node, from, pos)
      cell == LeafValue(u.base.node, pos)
  IN  IF from = pos THEN moved
      ELSE [moved EXCEPT !.ops = Append(@, LeafKeep(from, pos, size)),
                         !.n = @ + pos - from, !.size = @ + size,
                         !.deleted = IF found /\ cell.o THEN Append(@, cell.v) ELSE @]
LeafKeepUpTo(u, key) ==
  LET upto(s) == KeptTo(u, s.found, s.pos)
  IN  IF ~HasBase(u) \/ u.base.low = LeafN(u.base.node) THEN u
      ELSE upto(LeafSearch(u.base.node, key, u.base.low))
LeafKeepAll(u) ==
  IF ~HasBase(u) \/ u.base.low = LeafN(u.base.node) THEN u
  ELSE KeptTo(u, FALSE, LeafN(u.base.node))

\* A change: the empty set deletes, {[v, o]} puts a value or an overflow cell.
LeafPut(u, key, change) ==
  LET c == CHOOSE c \in change : TRUE
  IN  IF change = {} THEN u
      ELSE [u EXCEPT !.n = @ + 1, !.size = @ + Len(c.v), !.ops = Append(@, LeafIns(key, c.v, c.o))]
LeafIngest(u, key, change) == LeafPut(LeafKeepUpTo(u, key), key, change)

BuildLeaf(u, ops) ==
  LET size == FoldSeq(LAMBDA op, acc : acc + OpSize(op), 0, ops)
      push(op, b) == IF op.t = "insert" THEN PushCell(b, op.k, op.v, op.o)
                     ELSE PushLeafChunk(b, u.base.node, op.from, op.to)
      built == FoldLeft(LAMBDA b, op : push(op, b), NewLeafBuilder(size), ops)
  IN  [ptrs |-> built.ptrs, bytes |-> built.bytes]
LeafOpFirstKey(u, op) == IF op.t = "insert" THEN op.k ELSE LeafKey(u.base.node, op.from)

\* try_split_keep_chunk: how many cells of a chunk a leaf of n cells and the
\* given size takes to reach the target, without passing the node's size.
LeafSplitAt(u, op, n, size, target) ==
  LET after(i) == leaf_body_size(n + i, size + ValuesSize(u.base.node, op.from, op.from + i))
      fit(hit) == IF after(hit) > LeafBody THEN hit - 1 ELSE hit
  IN  fit(Min({i \in 1..(op.to - op.from) : after(i) >= target}))

\* The op at pos replaced by a list of ops.
Spliced(ops, pos, new) == SubSeq(ops, 1, pos - 1) \o new \o SubSeq(ops, pos + 1, Len(ops))
LeafOpsSplit(u, pos, left) ==
  LET op == u.ops[pos]
      size == ValuesSize(u.base.node, op.from, op.from + left)
  IN  IF left = op.to - op.from THEN u.ops
      ELSE Spliced(u.ops, pos, <<LeafKeep(op.from, op.from + left, size),
                                 LeafKeep(op.from + left, op.to, op.size - size)>>)
\* extract_insert_from_keep_chunk
LeafOpsExtract(u, pos) ==
  LET op == u.ops[pos]
      cell == BaseCellOp(u, op.from)
  IN  Spliced(u.ops, pos,
        IF op.from = op.to - 1 THEN <<cell>>
        ELSE <<cell, LeafKeep(op.from + 1, op.to, op.size - Len(cell.v))>>)

\* Take ops from pos on until a leaf of the target size is made; jump: the next
\* cell goes from below the target past the size of a node.
RECURSIVE LeafConsume(_, _, _, _, _)
RECURSIVE LeafConsumeOp(_, _, _, _, _, _)
LeafConsume(u, pos, n, size, target) ==
  IF pos > Len(u.ops) \/ leaf_body_size(n, size) >= target
  THEN [u |-> u, pos |-> pos, n |-> n, size |-> size, jump |-> FALSE]
  ELSE LeafConsumeOp(u, pos, n, size, target, u.ops[pos])
LeafConsumeOp(u, pos, n, size, target, op) ==
  LET after == leaf_body_size(n + OpItems(op), size + OpSize(op))
      split(left) ==
        IF left = 0
        THEN LeafConsume([u EXCEPT !.ops = LeafOpsExtract(u, pos)], pos, n, size, target)
        ELSE LeafConsume([u EXCEPT !.ops = LeafOpsSplit(u, pos, left)], pos + 1, n + left,
                         size + ValuesSize(u.base.node, op.from, op.from + left), target)
  IN  IF op.t = "insert" /\ after > LeafBody
      THEN [u |-> u, pos |-> pos, n |-> n, size |-> size, jump |-> TRUE]
      ELSE IF op.t = "keep" /\ after > target THEN split(LeafSplitAt(u, op, n, size, target))
      ELSE LeafConsume(u, pos + 1, n + OpItems(op), size + OpSize(op), target)

\* try_build_leaves: new is the list of leaves made, with separator and cutoff.
\* c is what LeafConsume took.
RECURSIVE TryBuildLeaves(_, _, _, _)
TryBuildLeaves(u, target, first, new) ==
  LET rest(c) == SubSeq(c.u.ops, c.pos, Len(c.u.ops))
      over(leaf, c) ==
        IF c.pos <= Len(c.u.ops)
        THEN separate(LeafKey(leaf, LeafN(leaf) - 1), LeafOpFirstKey(c.u, c.u.ops[c.pos]))
        ELSE IF first THEN u.over ELSE None
      made(leaf, c, next) ==
        TryBuildLeaves([c.u EXCEPT !.ops = rest(c), !.over = next], target, FALSE,
          Append(new, [sep |-> IF first THEN LeafSeparator(u) ELSE u.over, node |-> leaf,
                       cutoff |-> OrElse(next, u.cutoff)]))
      build(leaf, c) == made(leaf, c, over(leaf, c))
      step(c) == IF leaf_body_size(c.n, c.size) >= target \/ c.jump
                 THEN build(BuildLeaf(c.u, SubSeq(c.u.ops, 1, c.pos - 1)), c)
                 ELSE [u |-> [c.u EXCEPT !.n = c.n, !.size = c.size], new |-> new]
  IN  step(LeafConsume(u, 1, 0, 0, target))

\* prepare_merge_ops: chunks become insertions before the base changes.
LeafMergeOps(u) ==
  FlattenSeq([i \in 1..Len(u.ops) |->
    LET op == u.ops[i]
    IN  IF op.t = "insert" THEN <<op>>
        ELSE [j \in 1..(op.to - op.from) |-> BaseCellOp(u, op.from + j - 1)]])

\* digest: keep the rest of the base, split what is too large, and build the
\* last leaf, or merge with the next one: merge is then its separator.
UpdaterSize(u) == leaf_body_size(u.n, u.size)
LeafBulkSplit(u) ==
  IF UpdaterSize(u) > LEAF_BULK_SPLIT_THRESHOLD
  THEN TryBuildLeaves(u, LEAF_BULK_SPLIT_TARGET, TRUE, <<>>) ELSE [u |-> u, new |-> <<>>]
LeafSplit(d) ==
  IF UpdaterSize(d.u) > LeafBody
  THEN TryBuildLeaves(d.u, UpdaterSize(d.u) \div 2, TRUE, d.new) ELSE d
LeafConclude(u, new) ==
  LET last == [sep |-> LeafSeparator(u), node |-> BuildLeaf(u, u.ops), cutoff |-> u.cutoff]
      size == UpdaterSize(u)
  IN  CASE size = 0 -> [u |-> [u EXCEPT !.over = None], new |-> new, merge |-> None]
        [] size > 0 /\ (size >= LEAF_MERGE_THRESHOLD \/ u.cutoff = None) ->
             [u |-> [u EXCEPT !.ops = <<>>, !.n = 0, !.size = 0, !.over = None],
              new |-> Append(new, last), merge |-> None]
        [] OTHER ->
             [u |-> [u EXCEPT !.over = OrElse(@, u.base.sep), !.ops = LeafMergeOps(u)],
              new |-> new, merge |-> u.cutoff]
LeafDigest(u) ==
  LET end(d) == LeafConclude(d.u, d.new) IN end(LeafSplit(LeafBulkSplit(LeafKeepAll(u))))
=============================================================================
