---------------------- MODULE StoreSyncBeatreeProofs ----------------------
(***************************************************************************)
(* The start of a commit, the steps of the beatree half and the wait for   *)
(* both halves keep the inductive invariant.                               *)
(***************************************************************************)
EXTENDS StoreSyncBitboxProofs

\* A commit begins: both halves are started.
LEMMA CommitStep ==
  ASSUME NEW c \in Changes(sync_seqn + 1), Safe, IInv, Commit(c)
  PROVE  IInv'
<1>0. TypeOK /\ FilesOK /\ PhaseInv /\ MetaInv /\ FreeInv /\ HistInv /\ BeatreeInv /\ WalInv /\ HtInv /\ Recoverable /\ OpenFailsNeedlessly
  BY DEF IInv
<1>a. sync_seqn \in Seqn /\ sync_seqn + 1 \in Seqn /\ sync_seqn # sync_seqn + 1
  BY <1>0, StoreAssumption DEF StoreAssumption, TypeOK, Seqn, Commit
<1>b. c \in [kv : Delta(Keys), tr : Delta(Pages)]
  BY <1>a, ChangesType
<1>c. /\ hist' \in [Seqn -> State]
      /\ \A n \in Seqn : n # sync_seqn + 1 => hist'[n] = hist[n]
      /\ hist'[sync_seqn + 1].kv = Apply(hist[sync_seqn].kv, c.kv)
      /\ hist'[sync_seqn + 1].tr = Apply(hist[sync_seqn].tr, c.tr)
  <2>1. hist \in [Seqn -> State]
    BY <1>0 DEF TypeOK
  <2>2. Apply(hist[sync_seqn].kv, c.kv) \in [Keys -> Seqn]
    BY ZenonT(30), <1>a, <1>b, <2>1, ApplyType DEF State
  <2>3. Apply(hist[sync_seqn].tr, c.tr) \in [Pages -> Seqn]
    BY ZenonT(30), <1>a, <1>b, <2>1, ApplyType DEF State
  <2> QED BY <1>a, <2>1, <2>2, <2>3 DEF State, Commit
<1>d. Left(meta) = {Base} /\ Left(meta)' = {Base}
  BY <1>0 DEF Commit, MetaInv, Serving, Left, Lossy, files
<1>1. TypeOK'
  <2>1. todo' \in SUBSET (Keys \cup Pages)
    BY <1>b, DeltaType DEF Commit
  <2> QED BY <1>0, <1>b, <1>c, <2>1 DEF TypeOK, Commit, files
<1>2. FilesOK'
  BY <1>0 DEF FilesOK, Commit, files
<1>3. PhaseInv'
  BY <1>0 DEF PhaseInv, Commit, Waiting, Before, After, Recovering
<1>4. MetaInv'
  BY <1>0, <1>d DEF MetaInv, Commit, Base, Before, After, Recovering, Serving, Waiting
<1>5. FreeInv'
  <2>1. free \cap InUse(index) = {}
    BY <1>0, <1>d DEF FreeInv, Base
  <2> QED BY <1>0, <1>d, <2>1 DEF FreeInv, Commit, InUse, Base
<1>6. HistInv'
  <2>1. sync_seqn' = sync_seqn /\ (sync_seqn + 1) - 1 = sync_seqn /\ chg' = c
    BY <1>a DEF Commit, Seqn
  <2>2. Target(sync_seqn + 1)'
    BY <1>a, <1>c, <2>1 DEF Target
  <2> QED BY <2>2 DEF HistInv, Commit, After
<1>7. BeatreeInv'
  BY <1>0 DEF BeatreeInv, Commit, LeavesWritten, Before, After, Waiting
<1>8. WalInv'
  BY <1>0 DEF WalInv, Commit, files, Left, Lossy
<1>9. HtInv'
  <2>1. PagesExact(sync_seqn)
    BY <1>0 DEF HtInv, Commit, Serving
  <2>2. PagesExact(sync_seqn)'
    BY <1>a, <1>c, <2>1 DEF PagesExact, Commit, files, Left, Lossy
  <2> QED BY <2>2 DEF HtInv, Commit
<1>10. Recoverable'
  <2>1. Base.seqn = sync_seqn /\ hist'[sync_seqn] = hist[sync_seqn]
    BY <1>a, <1>c DEF Base
  <2>2. LeavesGood(Base) /\ \A w \in Left(wal) : PagesGood(Base, w)
    BY <1>0, <1>d DEF Recoverable
  <2>3. UNCHANGED <<wal, ht, ln, crashes>>
    BY DEF Commit, files
  <2>4. ASSUME NEW m, m = Base PROVE LeavesGood(m)'
    BY <2>1, <2>2, <2>3, <2>4 DEF LeavesGood, Left, Lossy
  <2>5. ASSUME NEW m, m = Base, NEW w \in Left(wal) PROVE PagesGood(m, w)'
    BY <2>1, <2>2, <2>3, <2>5 DEF PagesGood, Left, Lossy
  <2>6. Left(wal)' = Left(wal)
    BY <2>3 DEF Left, Lossy
  <2> QED BY <1>d, <2>4, <2>5, <2>6 DEF Recoverable
<1>11. OpenFailsNeedlessly'
  BY DEF OpenFailsNeedlessly, Commit
<1> QED BY <1>1, <1>2, <1>3, <1>4, <1>5, <1>6, <1>7, <1>8, <1>9, <1>10, <1>11 DEF IInv


\* The beatree half writes a changed leaf to a free page.
LEMMA WriteLeafStep ==
  ASSUME NEW k \in Keys, NEW s \in Slots, Safe, IInv, WriteLeaf(k, s)
  PROVE  IInv'
<1>0. TypeOK /\ FilesOK /\ PhaseInv /\ MetaInv /\ FreeInv /\ HistInv /\ BeatreeInv /\ WalInv /\ HtInv /\ Recoverable /\ OpenFailsNeedlessly
  BY DEF IInv
<1>a. /\ bt = "write" /\ k \in todo /\ chg.kv[k] # 0 /\ s \in free /\ s \notin alloc
      /\ ln' = [ln EXCEPT ![s] = Written(@, chg.kv[k])]
      /\ bbn_index' = [bbn_index EXCEPT ![k] = s]
      /\ alloc' = alloc \cup {s} /\ todo' = todo \ {k}
      /\ UNCHANGED <<meta, wal, ht, bt, pc, bb, sync_seqn, poisoned, chg, index, free, acked, hist, crashes, readers>>
  BY DEF WriteLeaf, BeatreeUnchanged
<1>b. Left(meta) = {Base} /\ Left(meta)' = {Base}
  BY <1>0, <1>a DEF MetaInv, Left, Lossy
<1>c. s \notin InUse(index) /\ index \in [Keys -> Slots \cup {NIL}]
  BY <1>0, <1>a DEF FreeInv, TypeOK
<1>d. \A t \in Slots : t # s => ln'[t] = ln[t]
  BY <1>0, <1>a DEF TypeOK
<1>e. k \in DOMAIN chg.kv /\ chg.kv[k] \in Seqn
  BY <1>0, <1>a, DeltaType DEF BeatreeInv, TypeOK
<1>f. ln'[s] = Written(ln[s], chg.kv[k]) /\ ln' \in [Slots -> File(Seqn)]
  BY <1>0, <1>a, <1>e, FileOps DEF TypeOK
<1>1. TypeOK'
  BY SMTT(180), <1>0, <1>a, <1>f DEF TypeOK
<1>2. FilesOK'
  BY SMTT(180), <1>0, <1>a, <1>d, <1>f, NowOps DEF FilesOK
<1>3. PhaseInv'
  BY <1>0, <1>a DEF PhaseInv
<1>4. MetaInv'
  <2>1. pc \notin After \cup {"meta_fsync"}
    BY <1>0, <1>a DEF PhaseInv, Waiting, After
  <2> QED BY <1>0, <1>a, <1>b, <2>1 DEF MetaInv, Base
<1>5. FreeInv'
  BY <1>0, <1>a, <1>b DEF FreeInv, InUse
<1>6. HistInv'
  BY <1>0, <1>a DEF HistInv, Target
<1>7. BeatreeInv'
  <2>1. pc \notin After \cup {"meta_write", "meta_fsync"}
    BY <1>0, <1>a DEF PhaseInv, Waiting, After
  <2>2. LeavesWritten /\ todo \subseteq DOMAIN chg.kv /\ bbn_index \in [Keys -> Slots \cup {NIL}]
        /\ alloc \subseteq Slots
    BY <1>0, <1>a DEF BeatreeInv, TypeOK
  <2>3. LeavesWritten'
    <3> SUFFICES ASSUME NEW j \in Keys
                 PROVE  (IF j \in todo \/ j \notin DOMAIN chg.kv THEN bbn_index[j] = index[j]
                         ELSE IF chg.kv[j] = 0 THEN bbn_index[j] = NIL
                         ELSE bbn_index[j] \in alloc /\ ln[bbn_index[j]].now = chg.kv[j])'
      BY SMTT(180) DEF LeavesWritten
    <3>1. CASE j = k
      BY SMTT(180), <1>a, <1>e, <1>f, <2>2, <3>1, NowOps
    <3>2. CASE j # k
      <4>1. bbn_index'[j] = bbn_index[j] /\ (j \in todo' <=> j \in todo)
            /\ index' = index /\ chg' = chg /\ alloc \subseteq alloc'
        BY <1>a, <2>2, <3>2
      <4>2. IF j \in todo \/ j \notin DOMAIN chg.kv THEN bbn_index[j] = index[j]
            ELSE IF chg.kv[j] = 0 THEN bbn_index[j] = NIL
            ELSE bbn_index[j] \in alloc /\ ln[bbn_index[j]].now = chg.kv[j]
        BY <2>2 DEF LeavesWritten
      <4>3. bbn_index[j] \in alloc => ln'[bbn_index[j]] = ln[bbn_index[j]]
        BY <1>a, <1>d, <2>2
      <4> QED BY <4>1, <4>2, <4>3
    <3> QED BY <3>1, <3>2
  <2> QED BY <1>a, <2>1, <2>2, <2>3 DEF BeatreeInv
<1>8. WalInv'
  BY <1>0, <1>a DEF WalInv, Left, Lossy
<1>9. HtInv'
  <2>1. pc \notin {"ht_write", "redo"}
    BY <1>0, <1>a DEF PhaseInv, Waiting
  <2>2. PagesExact(sync_seqn)' <=> PagesExact(sync_seqn)
    BY <1>a DEF PagesExact, Left, Lossy
  <2>3. pc' = pc /\ (Serving' <=> Serving)
    BY <1>a DEF Serving
  <2> QED BY <1>0, <2>1, <2>2, <2>3 DEF HtInv
<1>10. Recoverable'
  <2>1. \A j \in Keys : index[j] # NIL => index[j] # s /\ index[j] \in Slots
    BY <1>c DEF InUse
  <2>2. LeavesGood(Base) /\ \A w \in Left(wal) : PagesGood(Base, w)
    BY <1>0, <1>b DEF Recoverable
  <2>3. ASSUME NEW m, m = Base PROVE LeavesGood(m)' /\ \A w \in Left(wal)' : PagesGood(m, w)'
    <3>1. m.index = index
      BY SMTT(180), <2>3 DEF Base
    <3>2. LeavesGood(m)'
      BY SMTT(180), <1>a, <1>d, <2>1, <2>2, <2>3, <3>1 DEF LeavesGood, Left, Lossy
    <3>3. \A w \in Left(wal)' : PagesGood(m, w)'
      BY SMTT(180), <1>a, <2>2, <2>3 DEF PagesGood, Left, Lossy
    <3> QED BY <3>2, <3>3
  <2> QED BY <1>b, <2>3 DEF Recoverable
<1>11. OpenFailsNeedlessly'
  BY <1>0, <1>a DEF OpenFailsNeedlessly, PhaseInv, Waiting
<1> QED BY <1>1, <1>2, <1>3, <1>4, <1>5, <1>6, <1>7, <1>8, <1>9, <1>10, <1>11 DEF IInv

\* The beatree half drops the leaf of a deleted key.
LEMMA DropLeafStep ==
  ASSUME NEW k \in Keys, Safe, IInv, DropLeaf(k)
  PROVE  IInv'
<1>0. TypeOK /\ FilesOK /\ PhaseInv /\ MetaInv /\ FreeInv /\ HistInv /\ BeatreeInv /\ WalInv /\ HtInv /\ Recoverable /\ OpenFailsNeedlessly
  BY DEF IInv
<1>a. /\ bt = "write" /\ k \in todo /\ chg.kv[k] = 0
      /\ bbn_index' = [bbn_index EXCEPT ![k] = NIL]
      /\ todo' = todo \ {k}
      /\ UNCHANGED <<meta, wal, ht, ln, bt, alloc, pc, bb, sync_seqn, poisoned, chg, index, free, acked, hist, crashes, readers>>
  BY DEF DropLeaf, BeatreeUnchanged, files
<1>b. pc \notin After \cup {"meta_write", "meta_fsync", "redo"}
  BY <1>0, <1>a DEF PhaseInv, Waiting, After
<1>1. TypeOK'
  BY SMTT(180), <1>0, <1>a DEF TypeOK
<1>2. FilesOK'
  BY <1>0, <1>a DEF FilesOK
<1>3. PhaseInv'
  BY SMTT(180), <1>0, <1>a DEF PhaseInv
<1>4. MetaInv'
  BY <1>0, <1>a, <1>b DEF MetaInv, Left, Lossy, Base, Serving
<1>5. FreeInv'
  BY SMTT(180), <1>0, <1>a DEF FreeInv, Left, Lossy, InUse
<1>6. HistInv'
  BY SMTT(180), <1>0, <1>a DEF HistInv, Target
<1>7. BeatreeInv'
  <2>1. LeavesWritten /\ todo \subseteq DOMAIN chg.kv /\ bbn_index \in [Keys -> Slots \cup {NIL}]
    BY <1>0, <1>a DEF BeatreeInv, TypeOK
  <2>2. LeavesWritten'
    BY SMTT(180), <1>a, <2>1 DEF LeavesWritten
  <2> QED BY SMTT(180), <1>a, <1>b, <2>1, <2>2 DEF BeatreeInv
<1>8. WalInv'
  BY SMTT(180), <1>0, <1>a DEF WalInv, Left, Lossy
<1>9. HtInv'
  <2>1. pc' = pc /\ (Serving' <=> Serving) /\ pc \notin {"ht_write", "redo"}
    BY <1>a, <1>b DEF Serving, After
  <2>2. PagesExact(sync_seqn)' <=> PagesExact(sync_seqn)
    BY <1>a DEF PagesExact, Left, Lossy
  <2> QED BY <1>0, <2>1, <2>2 DEF HtInv
<1>10. Recoverable'
  BY SMTT(180), <1>0, <1>a DEF Recoverable, LeavesGood, PagesGood, Left, Lossy
<1>11. OpenFailsNeedlessly'
  BY <1>0, <1>a DEF OpenFailsNeedlessly, PhaseInv, Waiting
<1> QED BY <1>1, <1>2, <1>3, <1>4, <1>5, <1>6, <1>7, <1>8, <1>9, <1>10, <1>11 DEF IInv


\* The leaves become durable.
LEMMA BeatreeFsyncStep ==
  ASSUME Safe, IInv, BeatreeFsync
  PROVE  IInv'
<1>0. TypeOK /\ FilesOK /\ PhaseInv /\ MetaInv /\ FreeInv /\ HistInv /\ BeatreeInv /\ WalInv /\ HtInv /\ Recoverable /\ OpenFailsNeedlessly
  BY DEF IInv
<1>a. /\ bt = "write" /\ todo = {} /\ ln' = SyncedAll(ln) /\ bt' = "done"
      /\ UNCHANGED <<meta, wal, ht, bbn_index, alloc, todo, pc, bb, sync_seqn, poisoned, chg, index, free, acked, hist, crashes, readers>>
  BY DEF BeatreeFsync, BeatreeUnchanged
<1>b. pc \notin After \cup {"meta_write", "meta_fsync", "redo"}
  BY SMTT(180), <1>0, <1>a DEF PhaseInv, Waiting, After
<1>c. /\ ln' \in [Slots -> File(Seqn)]
      /\ \A s \in Slots : ln'[s] = Synced(ln[s]) /\ ln'[s].now \in ln'[s].may
  BY SMTT(180), <1>0, <1>a, SyncedType DEF TypeOK, SyncedAll
<1>d. \A s \in Slots : Left(ln[s])' = {ln[s].now} /\ Left(ln[s])' \subseteq Left(ln[s])
  BY ZenonT(30), <1>0, <1>a, <1>c, LeftOps, LossyType DEF Left, Lossy, FilesOK
<1>1. TypeOK'
  BY SMTT(180), <1>0, <1>a, <1>c DEF TypeOK
<1>2. FilesOK'
  BY ZenonT(30), <1>0, <1>a, <1>c DEF FilesOK
<1>3. PhaseInv'
  BY SMTT(180), <1>0, <1>a DEF PhaseInv
<1>4. MetaInv'
  BY SMTT(180), <1>0, <1>a, <1>b DEF MetaInv, Left, Lossy, Base, Serving
<1>5. FreeInv'
  BY SMTT(180), <1>0, <1>a DEF FreeInv, Left, Lossy, InUse
<1>6. HistInv'
  BY <1>0, <1>a DEF HistInv, Target
<1>7. BeatreeInv'
  <2>1. /\ LeavesWritten /\ bbn_index \in [Keys -> Slots \cup {NIL}]
        /\ index \in [Keys -> Slots \cup {NIL}] /\ hist[sync_seqn] \in State
        /\ chg.kv \in Delta(Keys) /\ sync_seqn \in Seqn /\ (sync_seqn + 1) - 1 = sync_seqn
    BY SMTT(180), <1>0, <1>a, StoreAssumption DEF StoreAssumption, BeatreeInv, TypeOK, Seqn
  <2>2. hist[sync_seqn + 1].kv = Apply(hist[sync_seqn].kv, chg.kv)
    BY SMTT(180), <1>0, <1>a, <2>1 DEF HistInv, Target
  <2>3. \A k \in Keys : hist[sync_seqn + 1].kv[k] =
          IF k \in DOMAIN chg.kv THEN chg.kv[k] ELSE hist[sync_seqn].kv[k]
    BY SMTT(180), <2>1, <2>2, ApplyType DEF State
  <2>4. LeavesGood(Base) /\ Base.index = index /\ Base.seqn = sync_seqn
    BY <1>0, <1>a DEF MetaInv, Recoverable, Base
  <2>5. InUse(bbn_index) \subseteq InUse(index) \cup alloc
    BY SMTT(180), <1>a, <2>1 DEF LeavesWritten, InUse
  <2>6. ASSUME NEW k \in Keys
        PROVE  IF bbn_index[k] = NIL THEN hist[sync_seqn + 1].kv[k] = 0
               ELSE \A v \in Left(ln[bbn_index[k]])' : v = hist[sync_seqn + 1].kv[k]
    <3>a. bbn_index[k] # NIL =>
            /\ Left(ln[bbn_index[k]])' = {ln[bbn_index[k]].now}
            /\ ln[bbn_index[k]].now \in Left(ln[bbn_index[k]])
      <4>1. bbn_index[k] # NIL => bbn_index[k] \in Slots /\ bbn_index'[k] = bbn_index[k]
        BY SMTT(180), <1>a, <2>1
      <4> QED BY <1>0, <1>d, <4>1, LeftType DEF Left, Lossy
    <3>1. CASE k \in DOMAIN chg.kv
      <4>1. IF chg.kv[k] = 0 THEN bbn_index[k] = NIL
            ELSE bbn_index[k] \in alloc /\ ln[bbn_index[k]].now = chg.kv[k]
        BY <1>a, <2>1, <3>1 DEF LeavesWritten
      <4>2. alloc \subseteq Slots
        BY <1>0 DEF TypeOK
      <4>3. hist[sync_seqn + 1].kv[k] = chg.kv[k]
        BY <2>3, <3>1
      <4>4. CASE chg.kv[k] = 0
        BY <4>1, <4>3, <4>4
      <4>5. CASE chg.kv[k] # 0
        <5>1. bbn_index[k] # NIL
          BY <4>1, <4>2, <4>5, StoreAssumption DEF StoreAssumption
        <5> QED BY <3>a, <4>1, <4>3, <4>5, <5>1
      <4> QED BY <4>4, <4>5
    <3>2. CASE k \notin DOMAIN chg.kv
      <4>1. bbn_index[k] = index[k]
        BY <1>a, <2>1, <3>2 DEF LeavesWritten
      <4>2. IF index[k] = NIL THEN hist[sync_seqn].kv[k] = 0
            ELSE \A v \in Left(ln[index[k]]) : v = hist[sync_seqn].kv[k]
        BY SMTT(180), <2>4 DEF LeavesGood
      <4> QED BY SMTT(180), <2>3, <3>a, <3>2, <4>1, <4>2
    <3> QED BY SMTT(180), <3>1, <3>2
  <2>7. LeavesDurable(sync_seqn + 1)'
    BY SMTT(180), <1>a, <2>5, <2>6 DEF LeavesDurable, InUse, Left, Lossy
  <2> QED BY <1>a, <1>b, <2>7 DEF BeatreeInv
<1>8. WalInv'
  BY SMTT(180), <1>0, <1>a DEF WalInv, Left, Lossy
<1>9. HtInv'
  <2>1. UNCHANGED <<pc, poisoned, sync_seqn, hist, todo, chg, wal, ht>>
    BY <1>a
  <2>2. PagesExact(sync_seqn)' <=> PagesExact(sync_seqn)
    BY <1>a DEF PagesExact, Left, Lossy
  <2>3. Serving' <=> Serving
    BY <2>1 DEF Serving
  <2> QED BY <1>0, <2>1, <2>2, <2>3 DEF HtInv
<1>10. Recoverable'
  <2>1. /\ Left(meta)' \subseteq Left(meta) /\ Left(wal)' \subseteq Left(wal)
        /\ \A p \in Pages : Left(ht[p])' \subseteq Left(ht[p])
    BY <1>a DEF Left, Lossy
  <2> QED BY <1>0, <1>a, <1>d, <2>1, Shrink
<1>11. OpenFailsNeedlessly'
  BY <1>0, <1>a DEF OpenFailsNeedlessly, PhaseInv, Waiting
<1> QED BY <1>1, <1>2, <1>3, <1>4, <1>5, <1>6, <1>7, <1>8, <1>9, <1>10, <1>11 DEF IInv

=============================================================================
