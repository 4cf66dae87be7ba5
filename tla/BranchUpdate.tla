---------------------------- MODULE BranchUpdate ----------------------------
(***************************************************************************)
(* Branch nodes and the BranchUpdater.  A branch holds a prefix shared by  *)
(* its first comp separators, separators (without that prefix) and page    *)
(* numbers of leaves.  Positions count from 0, as in the code.             *)
(***************************************************************************)
EXTENDS BitOps, SequencesExt

CONSTANTS
  BranchBody,    \* BRANCH_NODE_BODY_SIZE
  ItemBytes,     \* bytes of a cell and a node pointer, 6 in the code
  PointerBytes,  \* bytes of a node pointer, 4 in the code
  ByteBits,      \* bits of a byte, 8 in the code
  Garbage        \* what is read from a node pointer that was overwritten

BRANCH_MERGE_THRESHOLD == BranchBody \div 2
BRANCH_BULK_SPLIT_THRESHOLD == (BranchBody * 9) \div 5
BRANCH_BULK_SPLIT_TARGET == (BranchBody * 3) \div 4

branch_body_size(plen, total, n) == n * ItemBytes + CeilDiv(plen + total, ByteBits)
uncompressed_separator_range_size(plen, lengths, n, first_len) ==
  lengths + plen * n - Max({0, plen - first_len})
compressed_separator_range_size(first_len, items, sum, plen) ==
  Max({0, first_len - plen}) + sum - (items - 1) * plen

(***************************************************************************)
(* The node.                                                               *)
(***************************************************************************)
BranchN(b) == Len(b.pns)
BranchKey(b, i) == reconstruct_key(IF i < b.comp THEN b.prefix ELSE <<>>, b.seps[i + 1])
LengthSum(seps) == FoldSeq(LAMBDA s, acc : acc + Len(s), 0, seps)
RangeLen(b, from, to) == LengthSum(SubSeq(b.seps, from + 1, to))
\* The bytes the node really takes.
NodeBytes(b) == branch_body_size(Len(b.prefix), LengthSum(b.seps), BranchN(b))

\* Binary search from low; a key below the prefix is before everything.
find_key_pos(b, key, low) ==
  LET p == Len(b.prefix)
      order(head, own) == IF head < own THEN -1 ELSE IF head > own /\ b.comp = BranchN(b) THEN 1 ELSE 0
      at(pos) == [found |-> pos < BranchN(b) /\ BranchKey(b, pos) = key, pos |-> pos]
      search(o) ==
        IF o # 0 THEN [found |-> FALSE, pos |-> IF o < 0 THEN 0 ELSE BranchN(b)]
        ELSE at(Min({i \in low..(BranchN(b) - 1) : BranchKey(b, i) >= key} \cup {BranchN(b)}))
  IN  search(order(FromBits(SubSeq(Bits(key), 1, p)), FromBits(b.prefix)))
\* The child that covers a key: its position, or none.
search_branch(b, key) ==
  LET child(s) == IF s.found THEN {s.pos} ELSE IF s.pos = 0 THEN {} ELSE {s.pos - 1}
  IN  child(find_key_pos(b, key, 0))

\* BranchNodeBuilder
NewBranchBuilder(comp, plen) == [comp |-> comp, plen |-> plen, prefix |-> <<>>, seps |-> <<>>, pns |-> <<>>]
WithPrefix(b, key) == IF b.pns = <<>> THEN [b EXCEPT !.prefix = SubSeq(Bits(key), 1, b.plen)] ELSE b
BuilderPush(b0, key, pn) ==
  LET b == WithPrefix(b0, key)
      from == IF Len(b.pns) < b.comp THEN b.plen + 1 ELSE 1
  IN  [b EXCEPT !.seps = Append(@, SubSeq(Bits(key), from, separator_len(key))),
                !.pns = Append(@, pn)]
\* Fault: the bits that leave the prefix are not put before the separators.
MovedSeparatorBare(b, base, s) ==
  IF Len(base.prefix) >= b.plen THEN s
  ELSE SubSeq(s, b.plen - Len(base.prefix) + 1, Len(s))
\* A separator of the base under the prefix of the new node.
MovedSeparator(b, base, s) ==
  IF Len(base.prefix) >= b.plen
  THEN SubSeq(base.prefix, b.plen + 1, Len(base.prefix)) \o s
  ELSE SubSeq(s, b.plen - Len(base.prefix) + 1, Len(s))
\* Separators from..to-1 of the base, with the page numbers in updated.
BuilderPushChunk(b0, base, from, to, updated) ==
  LET b == WithPrefix(b0, BranchKey(base, from))
  IN  [b EXCEPT
         !.seps = @ \o [i \in 1..(to - from) |-> MovedSeparator(b, base, base.seps[from + i])],
         !.pns = @ \o [i \in 1..(to - from) |->
                        IF from + i - 1 \in DOMAIN updated THEN updated[from + i - 1]
                        ELSE base.pns[from + i]]]
\* Separators grow towards the node pointers, which end at the end of the page:
\* bytes too many overwrite the first of them.
FinishBranch(b) ==
  LET node == [comp |-> b.comp, prefix |-> b.prefix, seps |-> b.seps, pns |-> b.pns]
      lost == CeilDiv(Max({0, NodeBytes(node) - BranchBody}), PointerBytes)
  IN  [node EXCEPT !.pns = [i \in DOMAIN @ |-> IF i <= lost THEN Garbage ELSE @[i]]]
----------------------------------------------------------------------------
(***************************************************************************)
(* BranchGauge: the size of the branch some ops would make.  comp = None   *)
(* means that all items are compressed.                                    *)
(***************************************************************************)
EmptyGauge == [first |-> None, flen |-> 0, plen |-> 0, sum |-> 0, comp |-> None, n |-> 0]
GaugeComp(g) == IF g.comp = None THEN g.n ELSE g.comp
GaugeSize(g) ==
  branch_body_size(g.plen,
    IF g.first = None THEN 0
    ELSE compressed_separator_range_size(g.flen, GaugeComp(g), g.sum, g.plen), g.n)
IngestKey(g, key) ==
  IF g.first = None
  THEN [g EXCEPT !.first = key, !.flen = separator_len(key), !.plen = separator_len(key), !.n = 1]
  ELSE [g EXCEPT !.plen = IF g.comp = None THEN prefix_len(g.first, key) ELSE @,
                 !.sum = @ + separator_len(key), !.n = @ + 1]
IngestChunk(g, base, op) ==
  LET last == BranchKey(base, op.end - 1)
      head == BranchKey(base, op.start)
  IN  IF g.first = None
      THEN [g EXCEPT !.first = head, !.flen = separator_len(head), !.plen = prefix_len(head, last),
                     !.sum = op.sum - separator_len(head), !.n = op.end - op.start]
      ELSE [g EXCEPT !.plen = IF g.comp = None THEN prefix_len(g.first, last) ELSE @,
                     !.sum = @ + op.sum, !.n = @ + op.end - op.start]

BranchIns(key, pn) == [t |-> "insert", k |-> key, pn |-> pn]
BranchUpd(pos, pn) == [t |-> "update", pos |-> pos, pn |-> pn]
BranchKeep(start, end, sum) == [t |-> "keep", start |-> start, end |-> end, sum |-> sum]
BaseItemOp(base, i) == BranchIns(BranchKey(base, i), base.pns[i + 1])
BranchOpFirstKey(base, op) ==
  CASE op.t = "insert" -> op.k [] op.t = "update" -> BranchKey(base, op.pos)
    [] OTHER -> BranchKey(base, op.start)
IngestBranchOp(g, base, op) ==
  IF op.t = "keep" THEN IngestChunk(g, base, op) ELSE IngestKey(g, BranchOpFirstKey(base, op))
\* replace_with_insert, as the list of insertions an op becomes.
AsInserts(base, op) ==
  CASE op.t = "insert" -> <<op>>
    [] op.t = "update" -> <<BranchIns(BranchKey(base, op.pos), op.pn)>>
    [] OTHER -> [i \in 1..(op.end - op.start) |-> BaseItemOp(base, op.start + i - 1)]
BranchSpliced(ops, pos, new) == SubSeq(ops, 1, pos - 1) \o new \o SubSeq(ops, pos + 1, Len(ops))
----------------------------------------------------------------------------
(***************************************************************************)
(* The updater and its BranchOpsTracker.  bad: a chunk was made whose end  *)
(* is before its start; the worker panics when it is used.                 *)
(***************************************************************************)
NoBranch == [comp |-> 0, prefix |-> <<>>, seps |-> <<>>, pns |-> <<>>]
NewBranchUpdater ==
  [base |-> NoBranch, low |-> 0, cutoff |-> None, ops |-> <<>>, g |-> EmptyGauge, bad |-> FALSE]
BranchInScope(u, key) == ~Above(key, u.cutoff)
BranchResetBase(u, node, cutoff) == [u EXCEPT !.base = node, !.low = 0, !.cutoff = cutoff]

PushInsert(u, key, pn) ==
  [u EXCEPT !.g = IngestKey(@, key), !.ops = Append(@, BranchIns(key, pn))]
PushUpdate(u, pos, pn) ==
  LET op == BranchUpd(pos, pn)
      push(g) == [u EXCEPT !.g = g,
                    !.ops = @ \o IF u.base.comp <= pos \/ g.comp # None THEN AsInserts(u.base, op)
                                 ELSE <<op>>]
  IN  push(IngestKey(u.g, BranchKey(u.base, pos)))
\* Compressed separators are kept as a chunk, the others become insertions.
PushKeep(u, op) ==
  LET push(g) == [u EXCEPT !.g = g,
                    !.ops = @ \o IF g.comp # None THEN AsInserts(u.base, op) ELSE <<op>>]
  IN  push(IngestChunk(u.g, u.base, op))
PushChunk(u, start, end) ==
  LET cend == Min({end, u.base.comp})
      sum == uncompressed_separator_range_size(Len(u.base.prefix), RangeLen(u.base, start, cend),
               cend - start, separator_len(BranchKey(u.base, start)))
      plain(i) == BaseItemOp(u.base, cend + i - 1)
  IN  IF start > cend THEN [u EXCEPT !.bad = TRUE]
      ELSE FoldLeft(LAMBDA v, op : PushInsert(v, op.k, op.pn),
                    IF start = cend THEN u ELSE PushKeep(u, BranchKeep(start, cend, sum)),
                    [i \in 1..(end - cend) |-> plain(i)])

\* Keep the separators before key; pos is where key was found.
BranchKeepUpTo(u, key) ==
  LET upto(s) ==
        IF ~s.found /\ s.pos = u.low THEN [u |-> u, pos |-> None]
        ELSE [u |-> LET moved == [u EXCEPT !.low = IF s.found THEN s.pos + 1 ELSE s.pos]
                    IN  IF s.pos = u.low THEN moved ELSE PushChunk(moved, u.low, s.pos),
              pos |-> IF s.found THEN s.pos ELSE None]
  IN  IF u.base = NoBranch \/ u.low = BranchN(u.base) THEN [u |-> u, pos |-> None]
      ELSE upto(find_key_pos(u.base, key, u.low))
BranchKeepAll(u) ==
  IF u.low = BranchN(u.base) THEN u
  ELSE PushChunk([u EXCEPT !.low = BranchN(u.base)], u.low, BranchN(u.base))

\* A change: a page number for the separator, or None to remove it.
BranchIngest(u, key, pn) ==
  LET put(kept) == IF pn = None THEN kept.u
                   ELSE IF kept.pos # None THEN PushUpdate(kept.u, kept.pos, pn)
                   ELSE PushInsert(kept.u, key, pn)
  IN  put(BranchKeepUpTo(u, key))

\* build_branch: runs of adjacent kept and updated items are copied as one
\* chunk, as far as the new node is compressed.
OpStart(op) == IF op.t = "keep" THEN op.start ELSE op.pos
OpEnd(op) == IF op.t = "keep" THEN op.end ELSE op.pos + 1
ApplyChunk(b, base, comp, run) ==
  LET left == Max({0, comp - Len(b.pns)})
      start == OpStart(run[1])
      end == OpEnd(run[Len(run)])
      cend == Min({start + left, end})
      changed == {i \in DOMAIN run : run[i].t = "update"}
      updated == [pos \in {run[i].pos : i \in changed} |->
                    run[CHOOSE i \in changed : run[i].pos = pos].pn]
  IN  FoldLeft(LAMBDA c, op : BuilderPush(c, op.k, op.pn),
               BuilderPushChunk(b, base, start, cend, updated),
               [i \in 1..(end - cend) |-> BaseItemOp(base, cend + i - 1)])
BuildBranch(base, ops, g) ==
  LET comp == GaugeComp(g)
      flush(s) == IF s.run = <<>> THEN s.b ELSE ApplyChunk(s.b, base, comp, s.run)
      joins(s, op) == s.run # <<>> /\ OpEnd(s.run[Len(s.run)]) = OpStart(op)
      next(s, op, b) ==
        IF op.t = "insert" THEN [b |-> BuilderPush(b, op.k, op.pn), run |-> <<>>]
        ELSE [b |-> b, run |-> <<op>>]
      step(s, op) == IF op.t # "insert" /\ joins(s, op) THEN [s EXCEPT !.run = Append(@, op)]
                     ELSE next(s, op, flush(s))
      last(s) == FinishBranch(flush(s))
  IN  last(FoldLeft(step, [b |-> NewBranchBuilder(comp, g.plen), run |-> <<>>], ops))

\* try_split_keep_chunk: how many separators of a chunk are taken.
BranchSplitAt(base, op, g, target) ==
  LET n == op.end - op.start
      after[i \in 0..n] == IF i = 0 THEN g ELSE IngestKey(after[i - 1], BranchKey(base, op.start + i - 1))
      fit(hit) == IF hit <= n /\ GaugeSize(after[hit]) > BranchBody THEN hit - 1 ELSE Min({hit, n})
  IN  fit(Min({i \in 1..n : GaugeSize(after[i]) >= target} \cup {n + 1}))
BranchOpsSplit(base, ops, pos, left) ==
  LET op == ops[pos]
      sum == FoldSeq(LAMBDA i, acc : acc + separator_len(BranchKey(base, op.start + i - 1)), 0,
                     [i \in 1..left |-> i])
  IN  IF left = op.end - op.start THEN ops
      ELSE BranchSpliced(ops, pos, <<BranchKeep(op.start, op.start + left, sum),
                                     BranchKeep(op.start + left, op.end, op.sum - sum)>>)
BranchOpsExtract(base, ops, pos) ==
  LET op == ops[pos]
      item == BaseItemOp(base, op.start)
  IN  BranchSpliced(ops, pos,
        IF op.start = op.end - 1 THEN <<item>>
        ELSE <<item, BranchKeep(op.start + 1, op.end, op.sum - separator_len(item.k))>>)

\* extract_ops_until: take ops until a branch of the target size is made.  An
\* item that does not fit although the branch is small ends the compression.
RECURSIVE ExtractUntil(_, _, _, _, _)
RECURSIVE ExtractOp(_, _, _, _, _, _)
ExtractUntil(base, ops, pos, g, target) ==
  IF pos > Len(ops) \/ GaugeSize(g) >= target
  THEN [ops |-> ops, pos |-> pos, g |-> g, made |-> GaugeSize(g) >= target]
  ELSE ExtractOp(base, ops, pos, g, target, ops[pos])
\* Take the op at pos; once compression has ended it becomes insertions.
TakenOps(base, op, g) == IF g.comp # None THEN AsInserts(base, op) ELSE <<op>>
TakeOp(base, ops, pos, g, target) ==
  LET take(h, new) == ExtractUntil(base, BranchSpliced(ops, pos, new), pos + Len(new), h, target)
      with(h) == take(h, TakenOps(base, ops[pos], h))
  IN  with(IngestBranchOp(g, base, ops[pos]))
ExtractOp(base, ops, pos, g, target, op) ==
  LET after == GaugeSize(IngestBranchOp(g, base, op))
      small == GaugeSize(g) < BRANCH_MERGE_THRESHOLD
      again(new) == ExtractUntil(base, new, pos, g, target)
      split(left) == IF left = 0 THEN again(BranchOpsExtract(base, ops, pos))
                     ELSE TakeOp(base, BranchOpsSplit(base, ops, pos, left), pos, g, target)
  IN  CASE op.t = "keep" /\ after > target -> split(BranchSplitAt(base, op, g, target))
        [] op.t # "keep" /\ after > BranchBody /\ ~small ->
             [ops |-> ops, pos |-> pos, g |-> g, made |-> TRUE]
        [] op.t = "update" /\ after > BranchBody /\ small ->
             again(BranchSpliced(ops, pos, AsInserts(base, op)))
        [] op.t = "insert" /\ after > BranchBody /\ small ->
             TakeOp(base, ops, pos, [g EXCEPT !.comp = g.n], BRANCH_MERGE_THRESHOLD)
        [] OTHER -> TakeOp(base, ops, pos, g, target)

\* try_split
RECURSIVE TrySplit(_, _, _)
TrySplit(u, target, new) ==
  LET made(used, x) == [sep |-> BranchOpFirstKey(u.base, used[1]),
                        node |-> BuildBranch(u.base, used, x.g), cutoff |-> u.cutoff]
      step(x) == IF x.made
                 THEN TrySplit([u EXCEPT !.ops = SubSeq(x.ops, x.pos, Len(x.ops))], target,
                               Append(new, made(SubSeq(x.ops, 1, x.pos - 1), x)))
                 ELSE [u |-> [u EXCEPT !.ops = x.ops, !.g = x.g], new |-> new]
  IN  step(ExtractUntil(u.base, u.ops, 1, EmptyGauge, target))

\* digest: as for leaves.
BranchBulkSplit(u) ==
  IF GaugeSize(u.g) > BRANCH_BULK_SPLIT_THRESHOLD
  THEN TrySplit(u, BRANCH_BULK_SPLIT_TARGET, <<>>) ELSE [u |-> u, new |-> <<>>]
BranchSplit(d) ==
  IF GaugeSize(d.u.g) > BranchBody THEN TrySplit(d.u, GaugeSize(d.u.g) \div 2, d.new) ELSE d
BranchConclude(u, new) ==
  LET last == [sep |-> BranchOpFirstKey(u.base, u.ops[1]), node |-> BuildBranch(u.base, u.ops, u.g),
               cutoff |-> u.cutoff]
      size == GaugeSize(u.g)
  IN  CASE size = 0 -> [u |-> u, new |-> new, merge |-> None]
        [] size > 0 /\ (size >= BRANCH_MERGE_THRESHOLD \/ u.cutoff = None) ->
             [u |-> [u EXCEPT !.ops = <<>>, !.g = EmptyGauge], new |-> Append(new, last), merge |-> None]
        [] OTHER ->
             [u |-> [u EXCEPT !.ops = FlattenSeq([i \in DOMAIN @ |-> AsInserts(u.base, @[i])])],
              new |-> new, merge |-> u.cutoff]
BranchDigest(u) ==
  LET end(d) == BranchConclude(d.u, d.new)
      run(kept) == IF kept.bad THEN [u |-> kept, new |-> <<>>, merge |-> None]
                   ELSE end(BranchSplit(BranchBulkSplit(kept)))
  IN  run(BranchKeepAll(u))
=============================================================================
