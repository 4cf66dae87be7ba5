------------------------------ MODULE Overlay -------------------------------
(***************************************************************************)
(* In-memory overlays, nomt/src/overlay.rs.                                *)
(*                                                                         *)
(* An overlay is a record                                                  *)
(*   prev_root, root  the roots it leads from and to,                      *)
(*   index            which ancestor last changed a key: `last`, a partial *)
(*                    function from keys to sequence numbers, and `by`,    *)
(*                    the changes, a queue in ascending order of sequence  *)
(*                    number: a set, of which the lowest are the front,    *)
(*   changes          its own value changes, a partial function,           *)
(*   committed        its status,                                          *)
(*   parent           its parent's id, 0 if it has none,                   *)
(*   seqn, ancestors  its depth and the ids of its ancestors, nearest first*)
(*   delta            the rollback delta of its session.                   *)
(* Pages are indexed in the same way as values and are not repeated here.  *)
(* `ovs` maps the ids of all overlays ever made to their records, `alive`  *)
(* is the set of those that something still holds strongly.                *)
(***************************************************************************)
EXTENDS Naturals, Sequences

EmptyIndex == [last |-> << >>, by |-> {}]

(* An index over a key that changed in the range [min, ..) keeps its newest entry. *)
prune_below(index, min) ==
    LET pruned == {e.key : e \in {e \in index.by : e.seqn < min}}
        kept == {k \in DOMAIN index.last : k \in pruned => index.last[k] >= min}
    IN [last |-> [k \in kept |-> index.last[k]], by |-> {e \in index.by : e.seqn >= min}]

\* Fault: a key that is in the index already keeps its sequence number.
insert_valuesOnce(index, seqn, keys) ==
    [last |-> [k \in DOMAIN index.last \cup keys |-> IF k \in DOMAIN index.last THEN index.last[k] ELSE seqn],
     by |-> index.by \cup {[seqn |-> seqn, key |-> k] : k \in keys}]

insert_values(index, seqn, keys) ==
    [last |-> [k \in DOMAIN index.last \cup keys |-> IF k \in keys THEN seqn ELSE index.last[k]],
     by |-> index.by \cup {[seqn |-> seqn, key |-> k] : k \in keys}]

(* The live overlay of a session: the parent and the ancestors given with it, *)
(* nearest first. An empty sequence is the store itself.                      *)

(* LiveOverlay::new: of the overlays given after the first, as many as the    *)
(* parent has ancestors are compared with these.                              *)
Zipped(ovs, given) ==
    SubSeq(given, 2, IF Len(given) - 1 < Len(ovs[given[1]].ancestors)
                     THEN Len(given) ELSE Len(ovs[given[1]].ancestors) + 1)

NewIsValid(ovs, alive, given) ==
    given # <<>> =>
        LET zipped == Zipped(ovs, given)
            parent == ovs[given[1]]
            oldest == IF zipped = <<>> THEN parent ELSE ovs[zipped[Len(zipped)]]
        IN /\ \A i \in DOMAIN zipped : parent.ancestors[i] \in alive /\ zipped[i] = parent.ancestors[i]
           /\ oldest.parent # 0 => ovs[oldest.parent].committed

LiveOverlay(ovs, given) == IF given = <<>> THEN <<>> ELSE <<given[1]>> \o Zipped(ovs, given)

min_seqn(ovs, live) == IF live = <<>> THEN 0 ELSE ovs[live[1]].seqn - (Len(live) - 1)

(* Whether the overlay has a change of key k, and which it is. *)
HasValue(ovs, live, k) ==
    /\ live # <<>>
    /\ k \in DOMAIN ovs[live[1]].index.last
    /\ ovs[live[1]].index.last[k] >= min_seqn(ovs, live)

value(ovs, live, k) ==
    LET diff == ovs[live[1]].index.last[k] - min_seqn(ovs, live)
    IN ovs[live[Len(live) - diff]].changes[k]

parent_root(ovs, live, root) == IF live = <<>> THEN root ELSE ovs[live[1]].root

finish(ovs, live, prev_root, root, changes, delta) ==
    LET new == IF live = <<>> THEN 0 ELSE ovs[live[1]].seqn + 1
        old == IF live = <<>> THEN EmptyIndex ELSE prune_below(ovs[live[1]].index, min_seqn(ovs, live))
    IN [prev_root |-> prev_root, root |-> root, changes |-> changes, delta |-> delta,
        index |-> insert_values(old, new, DOMAIN changes),
        committed |-> FALSE, seqn |-> new, ancestors |-> live,
        parent |-> IF live = <<>> THEN 0 ELSE live[1]]

(* Without a parent every marker matches. *)
parent_matches_marker(overlay, marker) == overlay.parent = 0 \/ overlay.parent = marker

mark_committed(ovs, o) == [ovs EXCEPT ![o].committed = TRUE]

=============================================================================
