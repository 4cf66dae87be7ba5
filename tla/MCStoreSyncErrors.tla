------------------------- MODULE MCStoreSyncErrors -------------------------
(***************************************************************************)
(* StoreSync when page writes to the hash table file may fail.             *)
(***************************************************************************)
EXTENDS StoreSync

\* write_ht receives one completion per page and does not look at its result.
HtWriteError(p) ==
  /\ pc = "ht_write" /\ p \in todo
  /\ todo' = todo \ {p}
  /\ UNCHANGED <<files, pc, bb, bt, sync_seqn, poisoned, index, free,
                 bbn_index, alloc, acked>>
  /\ MainUnchanged

ErrorNext == Next \/ \E p \in Pages : HtWriteError(p)

ErrorSpec == Init /\ [][ErrorNext]_vars
=============================================================================
