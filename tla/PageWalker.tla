----------------------------- MODULE PageWalker -----------------------------
(***************************************************************************)
(* The page walker: updates the pages of the trie from left to right, and  *)
(* rebuilds the elided ones.  A walker is a record and its methods are     *)
(* operators on it; ok is FALSE once an assertion or an unwrap failed.     *)
(***************************************************************************)
EXTENDS Trie

CONSTANT PAGE_ELISION_THRESHOLD

NodeIndices == 0..(NODES_PER_PAGE - 1)
----------------------------------------------------------------------------
\* PageDiff: the nodes changed, and whether the page was cleared since.
NoDiff == [cleared |-> FALSE, changed |-> {}]
set_changed(d, i) == [cleared |-> FALSE, changed |-> d.changed \cup {i}]
set_cleared(d) == [d EXCEPT !.cleared = TRUE]
join(a, b) == [cleared |-> a.cleared \/ b.cleared, changed |-> a.changed \cup b.changed]
\* What pack_changed_nodes keeps, put back by unpack_changed_nodes.
Patched(nodes, diff, packed) == [i \in NodeIndices |-> IF i \in diff.changed THEN packed[i] ELSE nodes[i]]

\* A page from the pool is not zeroed: its nodes hold whatever junk is there.
pristine_empty(junk) == [nodes |-> [i \in NodeIndices |-> junk], elided |-> {}]

\* BucketInfo: a page is fresh, its bucket is known, or it is held by a cell
\* that an earlier overlay fills when it is committed.
Fresh == [t |-> "fresh", b |-> 0, cell |-> <<>>]
Known(b) == [t |-> "known", b |-> b, cell |-> <<>>]
Dependent(cell) == [t |-> "dependent", b |-> 0, cell |-> cell]

\* Where a page of the page set comes from.  A page of the hash table has a
\* bucket and no count of the leaves below it, a rebuilt one the reverse.
NoCount == -1
Persisted(bucket) == [bucket |-> bucket, counter |-> NoCount, diff |-> NoDiff]
Reconstructed(counter, diff) == [bucket |-> Fresh, counter |-> counter, diff |-> diff]

StackPage(id, page, origin) ==
  [id |-> id, nodes |-> page.nodes, elided |-> page.elided, diff |-> NoDiff,
   bucket |-> origin.bucket, counter |-> origin.counter, rdiff |-> origin.diff]
\* Fault: the nodes a rebuilt page started with are not part of the diff.
total_diff_new(p) == p.diff
total_diff(p) == join(p.rdiff, p.diff)

\* The leaves of a page, past whatever junk it holds.
count_leaves(nodes) ==
  LET reached[i \in NodeIndices] ==
        i < 2 \/ (reached[parent_node_index(i)] /\ is_internal(nodes[parent_node_index(i)]))
  IN  Cardinality({i \in NodeIndices : reached[i] /\ is_leaf(nodes[i])})
----------------------------------------------------------------------------
\* junk is what fresh pages hold; parent is <<>> or a page id in a singleton.
NewWalker(root, parent, reconstruction, junk) ==
  [last |-> <<>>, pos |-> NewPosition, parent |-> parent, roots |-> <<>>, root |-> root,
   out |-> <<>>, stack |-> <<>>, siblings |-> <<>>, prev |-> <<>>,
   reconstruction |-> reconstruction, junk |-> junk, ok |-> TRUE]

Top(w) == Last(w.stack)
SetTop(w, p) == [w EXCEPT !.stack = Append(Front(@), p)]
Node(w) == IF w.pos.depth = 0 THEN w.root ELSE Top(w).nodes[w.pos.node_index]
sibling_node(w) == Top(w).nodes[sibling_index(w.pos.node_index)]

set_node(w, n) ==
  LET i == w.pos.node_index
      p == Top(w)
      clears == is_first_layer_in_page(w.pos) /\ n = TERMINATOR /\ sibling_node(w) = TERMINATOR
  IN  SetTop(w, [p EXCEPT !.nodes[i] = n, !.diff = IF clears THEN set_cleared(@) ELSE set_changed(@, i)])
set_sibling(w, n) ==
  LET i == sibling_index(w.pos.node_index)
  IN  SetTop(w, [Top(w) EXCEPT !.nodes[i] = n, !.diff = set_changed(@, i)])
SetHere(w, n) == IF w.pos.depth = 0 THEN [w EXCEPT !.root = n] ELSE set_node(w, n)
----------------------------------------------------------------------------
(***************************************************************************)
(* Leaving a page: it is output, or elided when its subtrie holds too few  *)
(* leaves to be worth a page.                                              *)
(***************************************************************************)
OutputPage(w, p) ==
  [w EXCEPT !.out = Append(@, [id |-> p.id, page |-> [nodes |-> p.nodes, elided |-> p.elided],
                               diff |-> total_diff(p), bucket |-> p.bucket, counter |-> p.counter])]
SetElide(p, index, elide) ==
  [p EXCEPT !.elided = IF elide THEN @ \cup {index} ELSE @ \ {index}]

ElidePage(w, p, n) ==
  LET up1 == SetElide(Top(w), Last(p.id), TRUE)
      counted == [up1 EXCEPT !.counter = IF @ = NoCount THEN NoCount ELSE @ + n]
      v == SetTop(w, counted)
  IN  IF w.reconstruction THEN OutputPage(v, p)
      ELSE IF p.bucket # Fresh THEN OutputPage(v, [p EXCEPT !.diff = set_cleared(@)])
      ELSE v
KeepPage(w, p) ==
  OutputPage(SetTop(w, [SetElide(Top(w), Last(p.id), FALSE) EXCEPT !.counter = NoCount]), p)
\* Fault: the parent is not told that a page is kept.
handle_elision_threshold_mute(w) ==
  LET p == Top(w)
      v == [w EXCEPT !.stack = Front(@)]
      decide(n) == IF p.counter # NoCount /\ n < PAGE_ELISION_THRESHOLD THEN ElidePage(v, p, n)
                   ELSE OutputPage(v, p)
  IN  IF v.stack = <<>> \/ parent_page_id(p.id) = ROOT_PAGE_ID THEN OutputPage(v, p)
      ELSE decide(IF p.counter = NoCount THEN 0 ELSE count_leaves(p.nodes) + p.counter)
handle_elision_threshold(w) ==
  LET p == Top(w)
      v == [w EXCEPT !.stack = Front(@)]
      decide(n) == IF p.counter # NoCount /\ n < PAGE_ELISION_THRESHOLD THEN ElidePage(v, p, n)
                   ELSE KeepPage(v, p)
  IN  IF v.stack = <<>> \/ parent_page_id(p.id) = ROOT_PAGE_ID THEN OutputPage(v, p)
      ELSE decide(IF p.counter = NoCount THEN 0 ELSE count_leaves(p.nodes) + p.counter)

WalkUp(w) ==
  LET v == IF depth_in_page(w.pos) = 1 THEN handle_elision_threshold(w) ELSE w
  IN  [v EXCEPT !.pos = up(@, 1)]

PushPage(w, id, page, origin) == [w EXCEPT !.stack = Append(@, StackPage(id, page, origin))]
\* One bit down; ps is the page set.
DownBit(w, ps, bit, fresh) ==
  LET id == IF w.pos.depth = 0 THEN ROOT_PAGE_ID ELSE child_page_id(Top(w).id, child_page_index(w.pos))
      entered == IF fresh THEN PushPage(w, id, pristine_empty(w.junk), Reconstructed(0, NoDiff))
                 ELSE PushPage(w, id, ps[id].page, ps[id].origin)
      v == IF w.pos.depth % DEPTH = 0 THEN entered ELSE w
  IN  [v EXCEPT !.pos = down(@, bit)]
WalkDown(w, ps, bits, fresh) == Run(LAMBDA v, bit : DownBit(v, ps, bit, fresh), w, bits)
----------------------------------------------------------------------------
(***************************************************************************)
(* Replacing the terminal at the position, following the visits of         *)
(* build_trie.                                                             *)
(***************************************************************************)
Visit(ps, start_depth, w, v) ==
  LET other == IF peek_last_bit(w.pos) = 1 THEN v.node.left ELSE v.node.right
      zeroed == IF v.t = "internal" /\ other = TERMINATOR THEN set_sibling(w, TERMINATOR) ELSE w
      jump == v.up /\ v.down # <<>> /\ v.down[1] # peek_last_bit(w.pos)
      moved == IF jump THEN [zeroed EXCEPT !.pos = sibling(@)]
               ELSE IF v.up THEN WalkUp(zeroed) ELSE zeroed
      bits == IF jump THEN Tail(v.down) ELSE v.down
      descend(u) ==
        IF u.pos.depth <= start_depth /\ bits # <<>>
        THEN WalkDown(WalkDown(u, ps, Take(bits, 1), depth_in_page(u.pos) = DEPTH \/ u.pos.depth = 0),
                      ps, Tail(bits), TRUE)
        ELSE WalkDown(u, ps, bits, TRUE)
  IN  SetHere(descend(moved), v.node)

replace_terminal(w, ps, ops) ==
  LET depth == w.pos.depth
      before == [w EXCEPT !.prev = <<Node(w)>>]
      done(v) == [v EXCEPT !.ok = IF v.pos.depth = 0 THEN v.stack = <<>>
                                  ELSE v.stack # <<>> /\ Top(v).id = page_id(v.pos)]
  IN  IF ~w.ok \/ (~w.reconstruction /\ is_internal(Node(w))) THEN [w EXCEPT !.ok = FALSE]
      ELSE done(Run(LAMBDA v, x : Visit(ps, depth, v, x), before, build_trie(depth, ops).visits))

place_node(w, n) ==
  IF ~w.ok THEN w ELSE SetHere([w EXCEPT !.prev = <<Node(w)>>], n)
----------------------------------------------------------------------------
(***************************************************************************)
(* Compacting up to where the next position joins.                         *)
(***************************************************************************)
compact_step(w) ==
  LET n == Node(w)
      s == sibling_node(w)
      at(v, m) == [w |-> v, node |-> m]
  IN  CASE is_terminator(n) /\ is_terminator(s) -> at(w, TERMINATOR)
        [] is_leaf(n) /\ is_terminator(s) -> at(set_node(w, TERMINATOR), n)
        [] is_terminator(n) /\ is_leaf(s) ->
             at(set_node([w EXCEPT !.pos = sibling(@)], TERMINATOR), s)
        [] OTHER -> at(w, Over(peek_last_bit(w.pos), n, s))

\* s is [w, done]; last says whether this is the last layer to compact.
CompactLayer(s, last) ==
  LET place(v, n) ==
        IF v.stack = <<>>
        THEN [done |-> TRUE,
              w |-> IF v.parent = <<>> THEN [v EXCEPT !.root = n]
                    ELSE [v EXCEPT !.roots = Append(@, <<v.pos, n>>)]]
        ELSE [done |-> FALSE,
              w |-> set_node(IF last THEN [v EXCEPT !.siblings = Append(@, <<Node(v), v.pos.depth>>)]
                             ELSE v, n)]
      step(c) == place(WalkUp(c.w), c.node)
  IN  IF s.done THEN s ELSE step(compact_step(s.w))
CompactLayers(w, n) ==
  Run(LAMBDA s, i : CompactLayer(s, i = n), [w |-> w, done |-> FALSE], [i \in 1..n |-> i]).w

\* target is <<>>, or a position in a singleton.
compact_up(w, target) ==
  LET depth == w.pos.depth
      keep(d) == SelectSeq(w.siblings, LAMBDA s : s[2] <= d)
      toward(shared) ==
        LET n == depth - (shared + 1)
            sibs == IF n = 0 /\ w.prev # <<>> THEN Append(keep(shared), <<w.prev[1], depth>>)
                    ELSE keep(shared)
        IN  CompactLayers([w EXCEPT !.siblings = sibs, !.prev = <<>>], n)
  IN  IF w.stack = <<>> \/ ~w.ok THEN w
      ELSE IF target = <<>> THEN CompactLayers([w EXCEPT !.siblings = <<>>], depth)
      ELSE toward(shared_bits(path(w.pos), path(target[1])))
----------------------------------------------------------------------------
\* assert_page_in_scope
InScope(w, pos) ==
  w.parent # <<>> =>
    pos.depth > 0 /\ page_id(pos) # w.parent[1] /\ is_descendant_of(page_id(pos), w.parent[1])
\* The pages from the top of the stack, or the parent page, to the position.
build_stack(w, ps, pos) ==
  LET id == page_id(pos)
      known == IF w.stack # <<>> THEN Len(Top(w).id) ELSE IF w.parent # <<>> THEN Len(w.parent[1]) ELSE -1
      push(v, n) == PushPage(v, Take(id, n), ps[Take(id, n)].page, ps[Take(id, n)].origin)
      missing == \E n \in (known + 1)..Len(id) : Take(id, n) \notin DOMAIN ps
      popped[n \in 0..Len(w.stack)] == IF n = 0 THEN w ELSE handle_elision_threshold(popped[n - 1])
  IN  IF ~w.ok \/ ~InScope(w, pos) THEN [w EXCEPT !.ok = FALSE]
      ELSE IF pos.depth = 0 THEN [popped[Len(w.stack)] EXCEPT !.pos = pos]
      ELSE IF missing THEN [w EXCEPT !.ok = FALSE]
      ELSE Run(push, [w EXCEPT !.pos = pos], [i \in 1..(Len(id) - known) |-> known + i])

\* What every advance starts with: positions come in increasing order.
Approach(w, pos) ==
  LET ordered == w.last = <<>> \/ Before(path(w.last[1]), path(pos))
  IN  IF ~ordered THEN [w EXCEPT !.ok = FALSE]
      ELSE [(IF w.last = <<>> THEN w ELSE compact_up(w, <<pos>>)) EXCEPT !.last = <<pos>>]

advance_and_replace(w, ps, pos, ops) ==
  replace_terminal(build_stack(Approach(w, pos), ps, pos), ps, ops)
advance_and_place_node(w, ps, pos, n) ==
  place_node(build_stack(Approach(w, pos), ps, pos), n)
advance(w, pos) == [Approach(w, pos) EXCEPT !.ok = @ /\ InScope(w, pos)]
conclude(w) == compact_up(w, <<>>)
----------------------------------------------------------------------------
(***************************************************************************)
(* Rebuilding the elided pages under a position from the leaves in its     *)
(* range.  Answers the new pages; ok is FALSE when the leaves do not hash  *)
(* to the node at the position.                                            *)
(***************************************************************************)
reconstruct_pages(page, id, pos, ps, ops, junk) ==
  LET root == page.nodes[pos.node_index]
      first == child_page_id(id, child_page_index(pos))
      blank == [pristine_empty(junk) EXCEPT !.nodes[0] = TERMINATOR, !.nodes[1] = TERMINATOR]
      new == first :> [page |-> blank, origin |-> Reconstructed(0, [cleared |-> FALSE, changed |-> {0, 1}])]
      ps1 == new @@ ps
      side(b) == SelectSeq(ops, LAMBDA o : o[1][(Len(id) + 1) * DEPTH + 1] = b)
      halves(w) == Run(LAMBDA v, b : advance_and_replace(v, ps1, down(pos, b), side(b)), w, <<0, 1>>)
      put(m, o) == (o.id :> [page |-> o.page, origin |-> Reconstructed(o.counter, o.diff)]) @@ m
      answer(w) == [ok |-> w.ok /\ w.roots[1][2] = root /\ \A i \in DOMAIN w.out : w.out[i].counter # NoCount,
                    pages |-> Run(put, new, w.out)]
  IN  answer(conclude(halves(NewWalker(root, <<id>>, TRUE, junk))))
=============================================================================
