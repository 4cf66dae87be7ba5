------------------------ MODULE StoreSyncPostProofs ------------------------
(***************************************************************************)
(* The steps after the switch of the manifest keep the inductive           *)
(* invariant.                                                              *)
(***************************************************************************)
EXTENDS StoreSyncMetaProofs

\* A page of the hash table is written.
LEMMA HtWriteStep ==
  ASSUME NEW p \in Pages, Safe, IInv, HtWrite(p)
  PROVE  IInv'
<1>0. TypeOK /\ FilesOK /\ PhaseInv /\ MetaInv /\ FreeInv /\ HistInv /\ BeatreeInv /\ WalInv /\ HtInv /\ Recoverable /\ OpenFailsNeedlessly
  BY DEF IInv
<1>a. /\ pc = "ht_write" /\ p \in todo /\ ht' = [ht EXCEPT ![p] = PageWritten(@, chg.tr[p])]
      /\ todo' = todo \ {p}
      /\ UNCHANGED <<meta, wal, ln, pc, bb, bt, sync_seqn, poisoned, chg, index, free, bbn_index, alloc, acked, hist, crashes, readers>>
  BY DEF HtWrite, MainUnchanged
<1>b. bt = "off" /\ bb = "off" /\ ~poisoned
  BY <1>0, <1>a DEF PhaseInv, Waiting, TypeOK
<1>c. todo \subseteq DOMAIN chg.tr /\ chg.tr[p] \in Seqn
  BY <1>0, <1>a, DeltaType DEF HtInv, TypeOK
<1>d. /\ ht' \in [Pages -> File(Seqn)]
      /\ ht'[p] = PageWritten(ht[p], chg.tr[p])
      /\ \A q \in Pages : q # p => ht'[q] = ht[q]
  BY <1>0, <1>a, <1>c, FileOps DEF TypeOK
<1>1. TypeOK'
  BY <1>0, <1>a, <1>d DEF TypeOK
<1>2. FilesOK'
  BY <1>0, <1>a, <1>d, NowOps DEF FilesOK
<1>3. PhaseInv'
  BY <1>0, <1>a DEF PhaseInv
<1>4. MetaInv'
  BY <1>0, <1>a DEF MetaInv, Left, Lossy, Base, Top, NewFree, NewMeta, InUse, Serving
<1>5. FreeInv'
  BY <1>0, <1>a DEF FreeInv, Left, Lossy, InUse
<1>6. HistInv'
  BY <1>0, <1>a DEF HistInv, Target
<1>7. BeatreeInv'
  BY <1>0, <1>a, <1>b DEF BeatreeInv, LeavesDurable, InUse, Left, Lossy
<1>8. WalInv'
  BY <1>0, <1>a DEF WalInv, Left, Lossy
<1>9. HtInv'
  <2>1. \A q \in DOMAIN chg.tr \ todo' : ht'[q].now = chg.tr[q]
    <3>1. DOMAIN chg.tr \subseteq Pages
      BY <1>0, DeltaType DEF TypeOK
    <3> QED BY <1>0, <1>a, <1>d, <3>1, NowOps DEF HtInv
  <2> QED BY <1>0, <1>a, <1>c, <2>1 DEF HtInv, Before, Waiting, Serving
<1>10. Recoverable'
  <2>1. Left(wal) = {Wal(sync_seqn, chg.tr)} /\ Left(meta) = {Top} /\ Top.seqn = sync_seqn
    BY <1>0, <1>a DEF WalInv, MetaInv, Top, Left, LeftIf, Fresh, After
  <2>2. ASSUME NEW m \in Left(meta) PROVE LeavesGood(m)'
    BY <1>0, <1>a, <2>2 DEF Recoverable, LeavesGood, Left, Lossy
  <2>3. ASSUME NEW m \in Left(meta), NEW w \in Left(wal) PROVE PagesGood(m, w)'
    <3>1. PagesGood(m, w) /\ w.seqn = m.seqn /\ p \in DOMAIN w.tr
      BY SMTT(180), <1>0, <1>a, <1>c, <2>1, <2>3, WalFields DEF Recoverable
    <3> QED BY <1>a, <1>d, <3>1 DEF PagesGood, Left, Lossy
  <2>4. Left(meta)' = Left(meta) /\ Left(wal)' = Left(wal)
    BY <1>a DEF Left, Lossy
  <2> QED BY <2>2, <2>3, <2>4 DEF Recoverable
<1>11. OpenFailsNeedlessly'
  BY <1>0, <1>a DEF OpenFailsNeedlessly, PhaseInv, Waiting
<1> QED BY <1>1, <1>2, <1>3, <1>4, <1>5, <1>6, <1>7, <1>8, <1>9, <1>10, <1>11 DEF IInv

\* The hash table becomes durable.
LEMMA HtFsyncStep ==
  ASSUME Safe, IInv, HtFsync
  PROVE  IInv'
<1>0. TypeOK /\ FilesOK /\ PhaseInv /\ MetaInv /\ FreeInv /\ HistInv /\ BeatreeInv /\ WalInv /\ HtInv /\ Recoverable /\ OpenFailsNeedlessly
  BY DEF IInv
<1>a. /\ pc = "ht_write" /\ todo = {} /\ ht' = SyncedAll(ht) /\ pc' = "wal_collapse"
      /\ UNCHANGED <<meta, wal, ln, bb, bt, sync_seqn, poisoned, chg, index, free, bbn_index, alloc, todo, acked, hist, crashes, readers>>
  BY DEF HtFsync, MainUnchanged, mem
<1>b. bt = "off" /\ bb = "off" /\ ~poisoned
  BY <1>0, <1>a DEF PhaseInv, Waiting, TypeOK
<1>c. /\ ht' \in [Pages -> File(Seqn)]
      /\ \A p \in Pages : ht'[p] = Synced(ht[p]) /\ ht'[p].now \in ht'[p].may
  BY <1>0, <1>a, SyncedType DEF TypeOK, SyncedAll
<1>d. \A p \in Pages : Left(ht[p])' = {ht[p].now} /\ Left(ht[p])' \subseteq Left(ht[p])
  BY ZenonT(30), <1>0, <1>a, <1>c, LeftOps, LossyType DEF Left, Lossy, FilesOK
<1>1. TypeOK'
  BY <1>0, <1>a, <1>c DEF TypeOK
<1>2. FilesOK'
  <2>1. \A p \in Pages : ht'[p].may = {ht'[p].now}
    BY <1>c DEF Synced
  <2> QED BY <1>0, <1>a, <1>c, <2>1 DEF FilesOK
<1>3. PhaseInv'
  BY <1>0, <1>a, <1>b DEF PhaseInv, Before, After, Recovering, Waiting
<1>4. MetaInv'
  <2>1. Left(meta)' = Left(meta) /\ Top' = Top
    BY <1>a DEF Left, Lossy, Top, NewFree, InUse
  <2> QED BY <1>0, <1>a, <1>b, <2>1 DEF MetaInv, Before, After, Recovering, Waiting, Serving
<1>5. FreeInv'
  BY <1>0, <1>a DEF FreeInv, Left, Lossy, InUse, After
<1>6. HistInv'
  BY <1>0, <1>a, <1>b DEF HistInv, Target, Before, After, Waiting
<1>7. BeatreeInv'
  BY <1>0, <1>a, <1>b DEF BeatreeInv, LeavesDurable, InUse, Left, Lossy, After
<1>8. WalInv'
  BY <1>0, <1>a, <1>b DEF WalInv, Left, Lossy
<1>9. HtInv'
  <2>1. Left(wal) = {Wal(sync_seqn, chg.tr)} /\ Left(meta) = {Top} /\ Top.seqn = sync_seqn
    BY SMTT(180), <1>0, <1>a DEF WalInv, MetaInv, Top, Left, LeftIf, Fresh, After
  <2>2. PagesGood(Top, Wal(sync_seqn, chg.tr))
    BY <1>0, <2>1 DEF Recoverable
  <2>3. ASSUME NEW p \in Pages PROVE ht[p].now = hist[sync_seqn].tr[p]
    <3>1. IF p \in DOMAIN chg.tr THEN chg.tr[p] = hist[sync_seqn].tr[p]
          ELSE \A v \in Left(ht[p]) : v = hist[sync_seqn].tr[p]
      BY <2>1, <2>2, WalFields DEF PagesGood
    <3>2. ht[p].now \in Left(ht[p])
      BY <1>0, LeftType
    <3> QED BY <1>0, <1>a, <3>1, <3>2 DEF HtInv
  <2>4. PagesExact(sync_seqn)'
    BY <1>a, <1>d, <2>3 DEF PagesExact
  <2> QED BY <1>a, <2>4 DEF HtInv
<1>10. Recoverable'
  <2>1. /\ Left(meta)' \subseteq Left(meta) /\ Left(wal)' \subseteq Left(wal)
        /\ \A s \in Slots : Left(ln[s])' \subseteq Left(ln[s])
    BY <1>a DEF Left, Lossy
  <2> QED BY <1>0, <1>a, <1>d, <2>1, Shrink
<1>11. OpenFailsNeedlessly'
  BY <1>a DEF OpenFailsNeedlessly
<1> QED BY <1>1, <1>2, <1>3, <1>4, <1>5, <1>6, <1>7, <1>8, <1>9, <1>10, <1>11 DEF IInv

\* The WAL is truncated after the hash table is durable.
LEMMA WalCollapseStep ==
  ASSUME Safe, IInv, WalCollapse
  PROVE  IInv'
<1>0. TypeOK /\ FilesOK /\ PhaseInv /\ MetaInv /\ FreeInv /\ HistInv /\ BeatreeInv /\ WalInv /\ HtInv /\ Recoverable /\ OpenFailsNeedlessly
  BY DEF IInv
<1>a. /\ pc = "wal_collapse" /\ wal' = Written(wal, EmptyWal) /\ pc' = "finish"
      /\ UNCHANGED <<meta, ht, ln, bb, bt, sync_seqn, poisoned, chg, index, free, bbn_index, alloc, todo, acked, hist, crashes, readers>>
  BY DEF WalCollapse, MainUnchanged, mem
<1>b. bt = "off" /\ bb = "off" /\ ~poisoned
  BY <1>0, <1>a DEF PhaseInv, Waiting, TypeOK
<1>c. PagesExact(sync_seqn) /\ \A m \in Left(meta) : m.seqn = sync_seqn
  BY SMTT(180), <1>0, <1>a DEF HtInv, MetaInv, Top, After
<1>d. Left(wal)' \subseteq Left(wal) \cup {EmptyWal}
  BY ZenonT(30), <1>0, <1>a, LeftOps, LossyType DEF Left, Lossy, FilesOK
<1>e. /\ Recoverable'
      /\ \A m \in Left(meta)', w \in Left(wal)' : w.seqn = m.seqn /\ w # EmptyWal => w.whole
  BY Zenon, <1>0, <1>a, <1>c, <1>d, WalGrows
<1>f. wal' \in File(WalContent) /\ wal'.now \in wal'.may
  <2>1. wal \in File(WalContent) /\ EmptyWal \in WalContent
    BY <1>0, WalTypes DEF TypeOK
  <2> QED BY <1>a, <2>1, FileOps, NowOps
<1>1. TypeOK'
  BY SMTT(180), <1>0, <1>a, <1>f DEF TypeOK
<1>2. FilesOK'
  BY ZenonT(30), <1>0, <1>a, <1>f DEF FilesOK
<1>3. PhaseInv'
  BY <1>0, <1>a, <1>b DEF PhaseInv, Before, After, Recovering, Waiting
<1>4. MetaInv'
  <2>1. Left(meta)' = Left(meta) /\ Top' = Top
    BY <1>a DEF Left, Lossy, Top, NewFree, InUse
  <2> QED BY <1>0, <1>a, <1>b, <2>1 DEF MetaInv, Before, After, Recovering, Waiting, Serving
<1>5. FreeInv'
  BY <1>0, <1>a DEF FreeInv, Left, Lossy, InUse, After
<1>6. HistInv'
  BY SMTT(180), <1>0, <1>a, <1>b DEF HistInv, Target, Before, After, Waiting
<1>7. BeatreeInv'
  BY <1>0, <1>a, <1>b DEF BeatreeInv, LeavesDurable, InUse, Left, Lossy, After
<1>8. WalInv'
  BY <1>a, <1>b, <1>e DEF WalInv
<1>9. HtInv'
  BY <1>a, <1>c DEF HtInv, PagesExact, Left, Lossy
<1>10. OpenFailsNeedlessly'
  BY <1>a DEF OpenFailsNeedlessly
<1> QED BY <1>e, <1>1, <1>2, <1>3, <1>4, <1>5, <1>6, <1>7, <1>8, <1>9, <1>10 DEF IInv

\* The commit returns, with its result or with the error of the rollback log.
LEMMA FinishSyncStep ==
  ASSUME NEW ok \in BOOLEAN, Safe, IInv, FinishSync(ok)
  PROVE  IInv'
<1>0. TypeOK /\ FilesOK /\ PhaseInv /\ MetaInv /\ FreeInv /\ HistInv /\ BeatreeInv /\ WalInv /\ HtInv /\ Recoverable /\ OpenFailsNeedlessly
  BY DEF IInv
<1>a. /\ pc = "finish" /\ index' = bbn_index /\ free' = NewFree /\ alloc' = {}
      /\ acked' \in {acked, sync_seqn} /\ poisoned' \in BOOLEAN /\ pc' = "idle"
      /\ UNCHANGED <<meta, wal, ht, ln, bb, bt, sync_seqn, chg, bbn_index, todo, hist, crashes, readers>>
  BY DEF FinishSync, MainUnchanged, files
<1>b. bt = "off" /\ bb = "off"
  BY SMTT(180), <1>0, <1>a DEF PhaseInv, Waiting, TypeOK
<1>c. Left(meta) = {Top} /\ Left(meta)' = {Top} /\ Base' = Top /\ Top.seqn = sync_seqn
  BY <1>0, <1>a DEF MetaInv, Left, Lossy, Base, Top, After
<1>d. sync_seqn >= acked'
  <2>1. sync_seqn \in Int /\ sync_seqn >= acked
    BY SMTT(180), <1>0, <1>c, StoreAssumption DEF StoreAssumption, TypeOK, Seqn, MetaInv
  <2> QED BY <1>a, <2>1
<1>1. TypeOK'
  <2>1. NewFree \in SUBSET Slots
    BY <1>0 DEF TypeOK, NewFree, InUse
  <2> QED BY <1>0, <1>a, <2>1 DEF TypeOK
<1>2. FilesOK'
  BY <1>0, <1>a DEF FilesOK
<1>3. PhaseInv'
  BY <1>0, <1>a, <1>b DEF PhaseInv, Before, After, Recovering, Waiting
<1>4. MetaInv'
  BY <1>a, <1>b, <1>c, <1>d DEF MetaInv, Before, After, Recovering, Waiting, Serving
<1>5. FreeInv'
  BY <1>0, <1>a, <1>b, <1>c DEF FreeInv, InUse, Before, After, Waiting
<1>6. HistInv'
  BY <1>a, <1>b DEF HistInv, Before, After, Waiting
<1>7. BeatreeInv'
  BY <1>a, <1>b DEF BeatreeInv, After
<1>8. WalInv'
  BY <1>0, <1>a, <1>b DEF WalInv, Left, Lossy
<1>9. HtInv'
  BY SMTT(180), <1>0, <1>a DEF HtInv, PagesExact, Left, Lossy
<1>10. Recoverable'
  BY SMTT(180), <1>0, <1>a DEF Recoverable, LeavesGood, PagesGood, Left, Lossy
<1>11. OpenFailsNeedlessly'
  BY <1>a DEF OpenFailsNeedlessly
<1> QED BY <1>1, <1>2, <1>3, <1>4, <1>5, <1>6, <1>7, <1>8, <1>9, <1>10, <1>11 DEF IInv

\* An error after both halves are done poisons the store.
LEMMA SyncErrorStep ==
  ASSUME Safe, IInv, SyncError
  PROVE  IInv'
<1>0. TypeOK /\ FilesOK /\ PhaseInv /\ MetaInv /\ FreeInv /\ HistInv /\ BeatreeInv /\ WalInv /\ HtInv /\ Recoverable /\ OpenFailsNeedlessly
  BY DEF IInv
<1>a. /\ pc \in {"meta_write", "meta_fsync", "ht_write", "wal_collapse"}
      /\ meta' = meta \/ (pc = "meta_write" /\ meta' = PageWritten(meta, NewMeta))
      /\ poisoned' = TRUE /\ pc' = "idle"
      /\ UNCHANGED <<wal, ht, ln, bb, bt, sync_seqn, chg, index, free, bbn_index, alloc, todo, acked, hist, crashes, readers>>
  BY SMTT(180) DEF SyncError, MainUnchanged
<1>b. bt = "off" /\ bb = "off"
  BY SMTT(180), <1>0, <1>a DEF PhaseInv, Waiting, TypeOK
<1>c. /\ meta' \in File(Manifest) /\ meta'.now \in meta'.may
      /\ WriteThrough => meta'.may = {meta'.now}
  <2>1. CASE meta' = meta
    BY SMTT(180), <1>0, <2>1 DEF TypeOK, FilesOK
  <2>2. CASE pc = "meta_write" /\ meta' = PageWritten(meta, NewMeta)
    BY SMTT(180), <1>0, <2>2, NewMetaGood, FileOps, NowOps DEF TypeOK
  <2> QED BY SMTT(180), <1>a, <2>1, <2>2
<1>d. /\ Recoverable'
      /\ \A m \in Left(meta)', w \in Left(wal)' : w.seqn = m.seqn /\ w # EmptyWal => w.whole
      /\ \A m \in Left(meta)' : m.free \cap InUse(m.index) = {}
      /\ \A m \in Left(meta)' : m.seqn >= acked
  <2>1. CASE meta' = meta
    <3>1. UNCHANGED <<meta, wal, ht, ln, hist, crashes>>
      BY <1>a, <2>1
    <3>2. /\ Left(meta)' = Left(meta) /\ Left(wal)' = Left(wal)
          /\ \A p \in Pages : Left(ht[p])' = Left(ht[p])
          /\ \A s \in Slots : Left(ln[s])' = Left(ln[s])
      BY <3>1, SameFiles
    <3>3. Recoverable'
      BY <1>0, <3>1, <3>2, Shrink
    <3>4. \A m \in Left(meta)', w \in Left(wal)' : w.seqn = m.seqn /\ w # EmptyWal => w.whole
      BY <1>0, <3>2 DEF WalInv
    <3>5. \A m \in Left(meta)' : m.free \cap InUse(m.index) = {}
      BY <1>0, <3>2 DEF FreeInv
    <3>6. \A m \in Left(meta)' : m.seqn >= acked
      BY SMTT(180), <1>0, <3>2 DEF MetaInv
    <3> QED BY <3>3, <3>4, <3>5, <3>6
  <2>2. CASE pc = "meta_write" /\ meta' = PageWritten(meta, NewMeta)
    <3>1. LeftIf(Lossy, PageWritten(meta, NewMeta)) \subseteq LeftIf(Lossy, meta) \cup {NewMeta}
      BY <1>0, LeftOps, LossyType DEF FilesOK
    <3>2. Left(meta)' \subseteq Left(meta) \cup {NewMeta}
      BY <1>a, <2>2, <3>1 DEF Left, Lossy
    <3>3. NewMeta.seqn >= acked
      <4>1. Base.seqn = sync_seqn /\ NewMeta.seqn = sync_seqn + 1 /\ Base.seqn >= acked
        BY ZenonT(30), <1>0, <2>2 DEF Base, NewMeta, MetaInv, Before
      <4>2. sync_seqn \in Int /\ acked \in Int
        BY <1>0, StoreAssumption DEF StoreAssumption, TypeOK, Seqn
      <4> QED BY SMTT(180), <4>1, <4>2
    <3>4. \A m \in Left(meta)' : m.seqn >= acked
      BY <1>0, <3>2, <3>3 DEF MetaInv
    <3> QED BY <1>a, <2>2, <3>2, <3>4, MetaGrows
  <2> QED BY SMTT(180), <1>a, <2>1, <2>2
<1>1. TypeOK'
  BY ZenonT(30), <1>0, <1>a, <1>c DEF TypeOK
<1>2. FilesOK'
  BY ZenonT(30), <1>0, <1>a, <1>c DEF FilesOK
<1>3. PhaseInv'
  BY <1>a, <1>b DEF PhaseInv, Before, After, Recovering, Waiting
<1>4. MetaInv'
  BY SMTT(180), <1>a, <1>b, <1>d DEF MetaInv, Before, After, Recovering, Waiting, Serving
<1>5. FreeInv'
  BY <1>a, <1>b, <1>d DEF FreeInv, Before, After, Waiting
<1>6. HistInv'
  BY <1>a, <1>b DEF HistInv, Before, After, Waiting
<1>7. BeatreeInv'
  BY SMTT(180), <1>a, <1>b DEF BeatreeInv, After
<1>8. WalInv'
  BY SMTT(180), <1>a, <1>b, <1>d DEF WalInv
<1>9. HtInv'
  BY <1>a DEF HtInv, Before, Waiting, Serving
<1>10. OpenFailsNeedlessly'
  BY <1>a DEF OpenFailsNeedlessly
<1> QED BY <1>d, <1>1, <1>2, <1>3, <1>4, <1>5, <1>6, <1>7, <1>8, <1>9, <1>10 DEF IInv

=============================================================================
