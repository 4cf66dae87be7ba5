----------------------------- MODULE PathProofs -----------------------------
(***************************************************************************)
(* Path proofs and multi-proofs: what a verifier that holds only a root    *)
(* does with them.  A terminal is a node and the path the proof knows for  *)
(* it: the whole key of a leaf, the position of a terminator.  Verifying   *)
(* answers a record whose field ok says whether the code returned Ok.      *)
(***************************************************************************)
EXTENDS Trie

Err(e) == [ok |-> FALSE, err |-> e]
Terminal(leaf, pos) ==
  IF is_leaf(leaf) THEN [node |-> leaf, path |-> leaf.key_path]
  ELSE [node |-> TERMINATOR, path |-> path(pos)]

\* Hashes a node up a path; siblings are ordered from the root down.
hash_path(node, bits, siblings) ==
  FoldRight(LAMBDA i, n : Over(bits[i], n, siblings[i]), [i \in 1..Len(bits) |-> i], node)

\* A proof is [terminal, siblings].
verify_path(proof, key_path, root) ==
  LET n == Len(proof.siblings)
      relevant == Take(key_path, n)
  IN  IF n > Min({Len(key_path), KeyBits}) THEN Err("TooManySiblings")
      ELSE IF hash_path(proof.terminal.node, relevant, proof.siblings) # root THEN Err("RootMismatch")
      ELSE [ok |-> TRUE, path |-> relevant, terminal |-> proof.terminal.node,
            siblings |-> proof.siblings, root |-> root]

in_scope(v, key) == Take(key, Len(v.path)) = v.path
confirm_value(v, key, value) == in_scope(v, key) /\ v.terminal = hash_leaf(key, value)
confirm_nonexistence(v, key) ==
  in_scope(v, key) /\ (is_leaf(v.terminal) => v.terminal.key_path # key)
----------------------------------------------------------------------------
(***************************************************************************)
(* Updating through path proofs: every sub-trie is rebuilt and hashed up   *)
(* to where the next path joins, compacting on the way.                    *)
(***************************************************************************)
\* Fault: leaves are not moved up.
CompactedNever(bit, node, sib) == Over(bit, node, sib)
Compacted(bit, node, sib) ==
  IF is_terminator(sib) /\ ~is_internal(node) THEN node
  ELSE IF is_terminator(node) /\ is_leaf(sib) THEN sib
  ELSE Over(bit, node, sib)

UpdateErrors(prev_root, paths) ==
  {e \in {"RootMismatch", "PathsOutOfOrder", "PathWithoutOps", "OpsOutOfOrder", "OpOutOfScope"} :
    \E i \in DOMAIN paths :
      LET p == paths[i]
      IN  \/ e = "RootMismatch" /\ p.inner.root # prev_root
          \/ e = "PathsOutOfOrder" /\ i > 1 /\ ~Before(paths[i - 1].inner.path, p.inner.path)
          \/ e = "PathWithoutOps" /\ p.ops = <<>>
          \/ e = "OpsOutOfOrder" /\ \E j \in 2..Len(p.ops) : ~Before(p.ops[j - 1][1], p.ops[j][1])
          \/ e = "OpOutOfScope" /\ \E j \in DOMAIN p.ops : ~IsPrefix(p.inner.path, p.ops[j][1])}

\* A path [inner, ops] is applied to the left frontier of <<node, layer>>.
UpdatePath(paths, pending, i) ==
  LET p == paths[i].inner
      skip == Len(p.path)
      end == IF i = Len(paths) THEN 0 ELSE shared_bits(paths[i + 1].inner.path, p.path) + 1
      step(s, layer) ==
        LET collides == s.pending # <<>> /\ Last(s.pending)[2] = layer
            sib == IF collides THEN Last(s.pending)[1] ELSE p.siblings[layer]
        IN  [node |-> Compacted(p.path[layer], s.node, sib),
             pending |-> IF collides THEN Front(s.pending) ELSE s.pending]
      start == [node |-> build_trie(skip, leaf_ops_spliced(p.terminal, paths[i].ops)).root,
                pending |-> pending]
      push(s) == Append(s.pending, <<s.node, end>>)
  IN  push(Run(step, start, [j \in 1..(skip - end) |-> skip + 1 - j]))

verify_update(prev_root, paths) ==
  IF paths = <<>> THEN [ok |-> TRUE, root |-> prev_root]
  ELSE IF UpdateErrors(prev_root, paths) # {} THEN Err("invalid")
  ELSE [ok |-> TRUE,
        root |-> Last(Run(LAMBDA s, i : UpdatePath(paths, s, i), <<>>,
                               [i \in 1..Len(paths) |-> i]))[1]]
----------------------------------------------------------------------------
(***************************************************************************)
(* Multi-proofs: the siblings no other path yields, in the order of a      *)
(* depth-first walk over the bisections of the paths.                      *)
(***************************************************************************)
\* The first of the paths lower..upper whose bit is set.
Bisect(paths, lower, upper, bit) ==
  Min({i \in lower..upper : paths[i].terminal.path[bit] = 1} \cup {upper + 1})

RECURSIVE FromRange(_, _, _, _, _)
FromRange(proofs, lower, upper, bit, common) ==
  LET p == proofs[lower]
      differ == p.terminal.path[bit + 1] # proofs[upper].terminal.path[bit + 1]
      both(mid) ==
        LET l == FromRange(proofs, lower, mid - 1, bit + 1, <<>>)
            r == FromRange(proofs, mid, upper, bit + 1, <<>>)
        IN  [paths |-> l.paths \o r.paths, siblings |-> common \o l.siblings \o r.siblings]
  IN  IF lower = upper
      THEN [paths |-> <<[terminal |-> p.terminal, depth |-> Len(p.siblings)]>>,
            siblings |-> common \o Drop(p.siblings, bit)]
      ELSE IF differ THEN both(Bisect(proofs, lower, upper, bit + 1))
      ELSE FromRange(proofs, lower, upper, bit + 1, Append(common, p.siblings[bit + 1]))

from_path_proofs(proofs) ==
  IF proofs = <<>> THEN [paths |-> <<>>, siblings |-> <<>>]
  ELSE FromRange(proofs, 1, Len(proofs), 0, <<>>)

\* Verifying a range: its node, the siblings used, and what is remembered of
\* paths and bisections.  A range of siblings is <<first, end>> from 0.
RECURSIVE verify_range(_, _, _, _, _, _)
verify_range(start, proof, lower, upper, offset, acc) ==
  LET first == proof.paths[lower]
      sibs(from, n) == SubSeq(proof.siblings, from + 1, from + n)
      terminal ==
        LET n == first.depth - start
        IN  [node |-> hash_path(first.terminal.node, SubSeq(first.terminal.path, start + 1, first.depth),
                                sibs(offset, n)),
             used |-> n,
             inner |-> Append(acc.inner, [terminal |-> first.terminal, depth |-> first.depth,
                                          unique |-> <<offset, offset + n>>]),
             bisections |-> acc.bisections]
      common == shared_bits(Drop(first.terminal.path, start), Drop(proof.paths[upper].terminal.path, start))
      noted == IF common = 0 THEN acc
               ELSE [acc EXCEPT !.bisections =
                       Append(@, [start_depth |-> start, common |-> <<offset, offset + common>>])]
      both(mid) ==
        LET l == verify_range(start + common + 1, proof, lower, mid - 1, offset + common, noted)
            joined(a, b) ==
              [b EXCEPT !.node = hash_path(hash_internal(a.node, b.node),
                                           SubSeq(first.terminal.path, start + 1, start + common),
                                           sibs(offset, common)),
                        !.used = common + a.used + b.used]
            right(a) == joined(a, verify_range(start + common + 1, proof, mid, upper,
                                               offset + common + a.used,
                                               [inner |-> a.inner, bisections |-> a.bisections]))
        IN  right(l)
  IN  IF lower = upper THEN terminal ELSE both(Bisect(proof.paths, lower, upper, start + common + 1))

verify_multi(proof, root) ==
  LET n == Len(proof.paths)
      start == [inner |-> <<>>, bisections |-> <<>>]
      answer(r) ==
        IF r.node # root THEN Err("RootMismatch")
        ELSE IF r.used # Len(proof.siblings) THEN Err("TooManySiblings")
        ELSE [ok |-> TRUE, inner |-> r.inner, bisections |-> r.bisections,
              siblings |-> proof.siblings, root |-> root]
      empty == [node |-> TERMINATOR, used |-> 0, bisections |-> <<>>,
                inner |-> <<[terminal |-> [node |-> TERMINATOR, path |-> <<>>], depth |-> 0,
                             unique |-> <<0, 0>>]>>]
  IN  IF \E i \in 2..n : ~Before(proof.paths[i - 1].terminal.path, proof.paths[i].terminal.path)
      THEN Err("PathsOutOfOrder")
      ELSE answer(IF n = 0 THEN empty ELSE verify_range(0, proof, 1, n, 0, start))

terminal_contains(t, key) == Take(key, t.depth) = Take(t.terminal.path, t.depth)
find_index_for(v, key) == {i \in DOMAIN v.inner : terminal_contains(v.inner[i], key)}
multi_confirm_value(v, key, value) ==
  \E i \in find_index_for(v, key) : v.inner[i].terminal.node = hash_leaf(key, value)
multi_confirm_nonexistence(v, key) ==
  \E i \in find_index_for(v, key) :
    is_leaf(v.inner[i].terminal.node) => v.inner[i].terminal.node.key_path # key
----------------------------------------------------------------------------
(***************************************************************************)
(* Updating through a multi-proof.  CommonSiblings walks the terminals and *)
(* keeps a stack of the siblings the proof holds for the current one.      *)
(***************************************************************************)
NewCommonSiblings == [bis |-> <<>>, stack |-> <<>>, taken |-> 0, bi |-> 1]
Extend(c, start, end, siblings, reverse) ==
  LET n == end - c.taken
      new == [i \in 1..n |-> <<start + i - 1, siblings[IF reverse THEN end + 1 - i ELSE c.taken + i]>>]
  IN  [c EXCEPT !.stack = @ \o new, !.taken = end]
PopTo(c, depth) ==
  LET kept(s, at(_)) == Take(s, Max({i \in DOMAIN s : at(s[i]) < depth} \cup {0}))
  IN  [c EXCEPT !.bis = kept(@, LAMBDA b : b.start_depth), !.stack = kept(@, LAMBDA e : e[1])]

RECURSIVE AdvanceBisections(_, _, _, _)
AdvanceBisections(c, proof, t, prune) ==
  LET b == proof.bisections[c.bi]
      pruned == IF prune THEN PopTo(c, b.start_depth) ELSE c
      taken == [Extend(pruned, b.start_depth + 1, b.common[2], proof.siblings, FALSE)
                EXCEPT !.bis = Append(@, b), !.bi = @ + 1]
  IN  IF t.unique[1] = c.taken THEN c ELSE AdvanceBisections(taken, proof, t, FALSE)
Advance(c, proof, t) ==
  Extend(AdvanceBisections(c, proof, t, TRUE), t.depth - (t.unique[2] - t.unique[1]) + 1,
         t.unique[2], proof.siblings, TRUE)

\* One terminal, with the operations that fall under it, into s: the left
\* frontier, the common siblings and whether an unwrap or a check failed.
hash_and_compact_terminal(proof, ops, s, i) ==
  LET t == proof.inner[i]
      shared == shared_bits(t.terminal.path, proof.inner[i + 1].terminal.path)
      end == IF i = Len(proof.inner) THEN 0 ELSE shared + 1
      mine == SelectSeq(ops, LAMBDA o : terminal_contains(t, o[1]))
      step(u, layer) ==
        LET collides == u.pending # <<>> /\ Last(u.pending)[2] = layer
            held == u.common.stack # <<>> /\ Last(u.common.stack)[1] = layer
            sib == IF collides THEN Last(u.pending)[1] ELSE Last(u.common.stack)[2]
        IN  IF ~u.ok \/ ~(collides \/ held) THEN [u EXCEPT !.ok = FALSE]
            ELSE [ok |-> TRUE, node |-> Compacted(t.terminal.path[layer], u.node, sib),
                  pending |-> IF collides THEN Front(u.pending) ELSE u.pending,
                  common |-> IF held THEN [u.common EXCEPT !.stack = Front(@)] ELSE u.common]
      start == [ok |-> s.ok /\ ~(i < Len(proof.inner) /\ shared = t.depth),
                node |-> build_trie(t.depth, leaf_ops_spliced(t.terminal.node, mine)).root,
                pending |-> s.pending, common |-> Advance(s.common, proof, t)]
      push(u) == [ok |-> u.ok, pending |-> Append(u.pending, <<u.node, end>>), common |-> u.common]
  IN  push(Run(step, start, [j \in 1..(t.depth - end) |-> t.depth + 1 - j]))

multi_verify_update(proof, ops) ==
  LET ordered == \A i \in 2..Len(ops) : Before(ops[i - 1][1], ops[i][1])
      scoped == \A i \in DOMAIN ops : find_index_for(proof, ops[i][1]) # {}
      answer(s) == IF s.ok THEN [ok |-> TRUE, root |-> Last(s.pending)[1]] ELSE Err("panic")
  IN  IF ~ordered THEN Err("OpsOutOfOrder")
      ELSE IF ~scoped THEN Err("OpOutOfScope")
      ELSE answer(Run(LAMBDA s, i : hash_and_compact_terminal(proof, ops, s, i),
                           [ok |-> TRUE, pending |-> <<>>, common |-> NewCommonSiblings],
                           [i \in 1..Len(proof.inner) |-> i]))
=============================================================================
