-------------------------- MODULE MCBeatreeUpdate --------------------------
(***************************************************************************)
(* Small changesets for BeatreeUpdate: 16 keys, leaves of three or four    *)
(* cells with values of up to two bytes.                                   *)
(***************************************************************************)
EXTENDS BeatreeUpdate

Put(k, v) == [k |-> k, new |-> {v}]
Del(k) == [k |-> k, new |-> {}]
\* All keys in two syncs, two of them with an overflow value.
PutAll(from, to) ==
  {[n \in 1..(to - from + 1) |-> Put(from + n - 1, IF from + n - 1 \in {3, 8} THEN 3 ELSE 2)]}
\* Delete a run of keys and put the empty value at 7 or an overflow value at 0 or 15.
RunsAndPut ==
  {LET keys == SortedKeys(a..b \cup {p})
   IN  [n \in DOMAIN keys |->
          IF keys[n] = p THEN Put(p, IF p = 7 THEN 0 ELSE 3) ELSE Del(keys[n])] :
     a \in Key, b \in Key, p \in {0, 7, 15}}
\* Six keys whose fourth cell takes a leaf from below the target of a split past
\* the size of a node.
PutJump == {[n \in 1..6 |-> Put(n - 1, IF n <= 2 THEN 1 ELSE 2)]}
ThreeSyncs == <<PutAll(0, 7) \cup PutJump \cup {<<Del(5)>>}, PutAll(8, 15), RunsAndPut>>
OneWorker == {1}
ThreeWorkers == 1..3
LargeValues == {3}
=============================================================================
