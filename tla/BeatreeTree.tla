---------------------------- MODULE BeatreeTree -----------------------------
(***************************************************************************)
(* The shared state of the btree, nomt/src/beatree/mod.rs: two stages of   *)
(* changes that are not yet in the btree, and the btree itself.            *)
(*                                                                         *)
(* A tree is [primary |-> changes, secondary |-> at most one set of        *)
(* changes, index |-> the values that the pages under bbn_index hold].     *)
(* A read transaction is a copy of these with its age: 0 while no page it  *)
(* reaches is free, 1 once a sync has replaced the index, so that pages of *)
(* its own may be free, 2 once the next sync has begun to reuse them.      *)
(***************************************************************************)
EXTENDS Naturals, Sequences, TLC

CONSTANT Overwritten  \* what a lookup in a reused page may return

NoChanges == << >>

open(values) == [primary |-> NoChanges, secondary |-> <<>>, index |-> values]

commit(tree, changeset) == [tree EXCEPT !.primary = changeset @@ @]

(* The assertion of take_staged_changeset. *)
TakePanics(tree) == tree.secondary # <<>>

take_staged_changeset(tree) == [tree EXCEPT !.primary = NoChanges, !.secondary = <<tree.primary>>]

(* The values under the new index. *)
update(tree) == tree.secondary[1] @@ tree.index

finish_sync(tree) == [tree EXCEPT !.secondary = <<>>, !.index = update(tree)]

(* The newest of the three that has the key. *)
Staged(tree, k) ==
    k \in DOMAIN tree.primary \/ (tree.secondary # <<>> /\ k \in DOMAIN tree.secondary[1])

StagedValue(tree, k) == IF k \in DOMAIN tree.primary THEN tree.primary[k] ELSE tree.secondary[1][k]

lookup(tree, k) == IF Staged(tree, k) THEN StagedValue(tree, k) ELSE tree.index[k]

-----------------------------------------------------------------------------
(* Read transactions. *)

read_transaction(tree) == [primary |-> tree.primary, secondary |-> tree.secondary, index |-> tree.index, age |-> 0]

lookup_async(tx, k) ==
    IF Staged(tx, k) THEN StagedValue(tx, k) ELSE IF tx.age = 2 THEN Overwritten ELSE tx.index[k]

(* Pages are free for the next sync once the index that reached them is replaced. *)
IndexReplaced(tx) == [tx EXCEPT !.age = IF @ = 0 THEN 1 ELSE @]
PagesReused(tx) == [tx EXCEPT !.age = IF @ = 1 THEN 2 ELSE @]

=============================================================================
