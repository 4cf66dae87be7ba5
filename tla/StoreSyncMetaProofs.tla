------------------------ MODULE StoreSyncMetaProofs ------------------------
(***************************************************************************)
(* The wait for both halves and the switch of the manifest keep the        *)
(* inductive invariant.                                                    *)
(***************************************************************************)
EXTENDS StoreSyncBeatreeProofs

\* The beatree half fails.
LEMMA BeatreeErrorStep ==
  ASSUME Safe, IInv, BeatreeError
  PROVE  IInv'
<1>0. TypeOK /\ FilesOK /\ PhaseInv /\ MetaInv /\ FreeInv /\ HistInv /\ BeatreeInv /\ WalInv /\ HtInv /\ Recoverable /\ OpenFailsNeedlessly
  BY DEF IInv
<1> USE DEF BeatreeError, BeatreeUnchanged, files
<1>1. TypeOK'
  BY <1>0 DEF TypeOK
<1>2. FilesOK'
  BY <1>0 DEF FilesOK
<1>3. PhaseInv'
  BY <1>0 DEF PhaseInv, Waiting, Before, After, Recovering
<1>4. MetaInv'
  BY <1>0 DEF MetaInv, PhaseInv, Left, Lossy, Base, Top, NewFree, NewMeta, InUse, Waiting, Before, After, Recovering, Serving
<1>5. FreeInv'
  BY <1>0 DEF FreeInv, PhaseInv, Left, Lossy, InUse, Waiting, Before, After
<1>6. HistInv'
  BY <1>0 DEF HistInv, PhaseInv, Target, Waiting, Before, After
<1>7. BeatreeInv'
  BY <1>0 DEF BeatreeInv, PhaseInv, LeavesWritten, LeavesDurable, Left, Lossy, InUse, Waiting, After
<1>8. WalInv'
  BY <1>0 DEF WalInv, PhaseInv, Left, Lossy
<1>9. HtInv'
  BY <1>0 DEF HtInv, PhaseInv, PagesExact, Left, Lossy, Waiting, Before, Serving
<1>10. Recoverable'
  BY <1>0 DEF Recoverable, LeavesGood, PagesGood, Left, Lossy
<1>11. OpenFailsNeedlessly'
  BY <1>0 DEF OpenFailsNeedlessly, PhaseInv, Waiting
<1> QED BY <1>1, <1>2, <1>3, <1>4, <1>5, <1>6, <1>7, <1>8, <1>9, <1>10, <1>11 DEF IInv

\* The sync thread takes the result of the bitbox half.
LEMMA WaitBitboxStep ==
  ASSUME Safe, IInv, WaitBitbox
  PROVE  IInv'
<1>0. TypeOK /\ FilesOK /\ PhaseInv /\ MetaInv /\ FreeInv /\ HistInv /\ BeatreeInv /\ WalInv /\ HtInv /\ Recoverable /\ OpenFailsNeedlessly
  BY DEF IInv
<1> USE DEF WaitBitbox, MainUnchanged, files
<1>1. TypeOK'
  BY <1>0 DEF TypeOK
<1>2. FilesOK'
  BY <1>0 DEF FilesOK
<1>3. PhaseInv'
  BY ZenonT(30), <1>0 DEF PhaseInv, Waiting, Before, After, Recovering
<1>4. MetaInv'
  BY <1>0 DEF MetaInv, PhaseInv, Left, Lossy, Base, Top, NewFree, NewMeta, InUse, Waiting, Before, After, Recovering, Serving
<1>5. FreeInv'
  BY <1>0 DEF FreeInv, PhaseInv, Left, Lossy, InUse, Waiting, Before, After
<1>6. HistInv'
  BY <1>0 DEF HistInv, PhaseInv, Target, Waiting, Before, After
<1>7. BeatreeInv'
  BY SMTT(180), <1>0 DEF BeatreeInv, PhaseInv, LeavesWritten, LeavesDurable, Left, Lossy, InUse, Waiting, After
<1>8. WalInv'
  BY <1>0 DEF WalInv, PhaseInv, Left, Lossy
<1>9. HtInv'
  BY <1>0 DEF HtInv, PhaseInv, PagesExact, Left, Lossy, Waiting, Before, Serving
<1>10. Recoverable'
  BY <1>0 DEF Recoverable, LeavesGood, PagesGood, Left, Lossy
<1>11. OpenFailsNeedlessly'
  BY <1>0 DEF OpenFailsNeedlessly, PhaseInv, Waiting
<1> QED BY <1>1, <1>2, <1>3, <1>4, <1>5, <1>6, <1>7, <1>8, <1>9, <1>10, <1>11 DEF IInv

\* The sync thread takes the result of the beatree half.
LEMMA WaitBeatreeStep ==
  ASSUME Safe, IInv, WaitBeatree
  PROVE  IInv'
<1>0. TypeOK /\ FilesOK /\ PhaseInv /\ MetaInv /\ FreeInv /\ HistInv /\ BeatreeInv /\ WalInv /\ HtInv /\ Recoverable /\ OpenFailsNeedlessly
  BY DEF IInv
<1> USE DEF WaitBeatree, MainUnchanged, files
<1>1. TypeOK'
  BY <1>0 DEF TypeOK
<1>2. FilesOK'
  BY <1>0 DEF FilesOK
<1>3. PhaseInv'
  BY ZenonT(30), <1>0 DEF PhaseInv, Waiting, Before, After, Recovering
<1>4. MetaInv'
  BY <1>0 DEF MetaInv, PhaseInv, Left, Lossy, Base, Top, NewFree, NewMeta, InUse, Waiting, Before, After, Recovering, Serving
<1>5. FreeInv'
  BY <1>0 DEF FreeInv, PhaseInv, Left, Lossy, InUse, Waiting, Before, After
<1>6. HistInv'
  BY <1>0 DEF HistInv, PhaseInv, Target, Waiting, Before, After
<1>7. BeatreeInv'
  BY SMTT(180), <1>0 DEF BeatreeInv, PhaseInv, LeavesWritten, LeavesDurable, Left, Lossy, InUse, Waiting, After
<1>8. WalInv'
  BY <1>0 DEF WalInv, PhaseInv, Left, Lossy
<1>9. HtInv'
  BY <1>0 DEF HtInv, PhaseInv, PagesExact, Left, Lossy, Waiting, Before, Serving
<1>10. Recoverable'
  BY SMTT(180), <1>0 DEF Recoverable, LeavesGood, PagesGood, Left, Lossy
<1>11. OpenFailsNeedlessly'
  BY <1>0 DEF OpenFailsNeedlessly, PhaseInv, Waiting
<1> QED BY <1>1, <1>2, <1>3, <1>4, <1>5, <1>6, <1>7, <1>8, <1>9, <1>10, <1>11 DEF IInv


\* The manifest of the sync in progress describes a recoverable state, once
\* beatree's leaves are durable and the WAL is.
LEMMA NewMetaGood ==
  ASSUME IInv, pc \in {"meta_write", "meta_fsync"}
  PROVE  /\ NewMeta \in Manifest /\ NewMeta.seqn = sync_seqn + 1
         /\ NewMeta.free \cap InUse(NewMeta.index) = {}
         /\ LeavesGood(NewMeta)
         /\ \A w \in Left(wal) : PagesGood(NewMeta, w) /\ w.whole
<1>0. TypeOK /\ FilesOK /\ PhaseInv /\ MetaInv /\ FreeInv /\ HistInv /\ BeatreeInv /\ WalInv /\ HtInv /\ Recoverable
  BY DEF IInv
<1>1. /\ NewMeta.seqn = sync_seqn + 1 /\ NewMeta.index = bbn_index /\ NewMeta.free = NewFree
  BY DEF NewMeta
<1>2. sync_seqn \in Seqn /\ sync_seqn + 1 \in Seqn /\ (sync_seqn + 1) - 1 = sync_seqn
  BY <1>0, StoreAssumption DEF StoreAssumption, TypeOK, PhaseInv, Before, Seqn
<1>3. NewMeta \in Manifest
  <2>1. InUse(index) \subseteq Slots
    BY <1>0 DEF InUse, TypeOK
  <2> QED BY <1>0, <1>2, <2>1 DEF NewMeta, NewFree, Manifest, TypeOK
<1>4. LeavesDurable(sync_seqn + 1)
  BY <1>0 DEF BeatreeInv
<1>5. NewFree \cap InUse(bbn_index) = {}
  BY <1>0, <1>4 DEF FreeInv, LeavesDurable, NewFree, Before
<1>6. LeavesGood(NewMeta)
  BY <1>1, <1>4 DEF LeavesGood, LeavesDurable
<1>7. Left(wal) = {Wal(sync_seqn + 1, chg.tr)}
  BY <1>0 DEF WalInv, Left, LeftIf, Fresh
<1>8. PagesGood(NewMeta, Wal(sync_seqn + 1, chg.tr))
  <2>1. hist[sync_seqn + 1].tr = Apply(hist[sync_seqn].tr, chg.tr)
    BY <1>0, <1>2 DEF HistInv, Target, Before
  <2>2. hist[sync_seqn] \in State /\ chg.tr \in Delta(Pages)
    BY <1>0, <1>2 DEF TypeOK
  <2>3. \A p \in Pages : hist[sync_seqn + 1].tr[p] =
          IF p \in DOMAIN chg.tr THEN chg.tr[p] ELSE hist[sync_seqn].tr[p]
    BY <2>1, <2>2, ApplyType DEF State
  <2>4. PagesExact(sync_seqn)
    BY <1>0 DEF HtInv, Before
  <2> QED BY <1>1, <2>3, <2>4, WalFields DEF PagesGood, PagesExact
<1> QED BY <1>1, <1>3, <1>5, <1>6, <1>7, <1>8, WalFields

\* When only NewMeta joins the manifests that may be found, and nothing else
\* changes on disk, everything stays recoverable.
LEMMA MetaGrows ==
  ASSUME IInv, pc \in {"meta_write", "meta_fsync"},
         UNCHANGED <<wal, ht, ln, hist, crashes>>,
         Left(meta)' \subseteq Left(meta) \cup {NewMeta}
  PROVE  /\ Recoverable'
         /\ \A m \in Left(meta)', w \in Left(wal)' :
              w.seqn = m.seqn /\ w # EmptyWal => w.whole
         /\ \A m \in Left(meta)' : m.free \cap InUse(m.index) = {}
<1>0. Recoverable /\ WalInv /\ FreeInv
  BY DEF IInv
<1>1. Left(wal)' = Left(wal)
  BY DEF Left, Lossy
<1>2. ASSUME NEW m \in Left(meta)' PROVE LeavesGood(m)'
  <2>1. LeavesGood(m)
    BY <1>0, NewMetaGood DEF Recoverable
  <2> QED BY <2>1 DEF LeavesGood, Left, Lossy
<1>3. ASSUME NEW m \in Left(meta)', NEW w \in Left(wal) PROVE PagesGood(m, w)'
  <2>1. PagesGood(m, w)
    BY <1>0, NewMetaGood DEF Recoverable
  <2> QED BY <2>1 DEF PagesGood, Left, Lossy
<1>4. ASSUME NEW m \in Left(meta)', NEW w \in Left(wal), w.seqn = m.seqn, w # EmptyWal
      PROVE  w.whole
  BY <1>0, <1>4, NewMetaGood DEF WalInv
<1>5. ASSUME NEW m \in Left(meta)' PROVE m.free \cap InUse(m.index) = {}
  BY <1>0, NewMetaGood DEF FreeInv
<1> QED BY <1>1, <1>2, <1>3, <1>4, <1>5 DEF Recoverable

\* The manifest is written.
LEMMA MetaWriteStep ==
  ASSUME Safe, IInv, MetaWrite
  PROVE  IInv'
<1>0. TypeOK /\ FilesOK /\ PhaseInv /\ MetaInv /\ FreeInv /\ HistInv /\ BeatreeInv /\ WalInv /\ HtInv /\ Recoverable /\ OpenFailsNeedlessly
  BY DEF IInv
<1>a. /\ pc = "meta_write" /\ meta' = PageWritten(meta, NewMeta) /\ pc' = "meta_fsync"
      /\ UNCHANGED <<wal, ht, ln, bb, bt, sync_seqn, poisoned, chg, index, free, bbn_index, alloc, todo, acked, hist, crashes, readers>>
  BY DEF MetaWrite, MainUnchanged, mem
<1>b. bt = "off" /\ bb = "off" /\ ~poisoned /\ Left(meta) = {Base}
  BY <1>0, <1>a DEF PhaseInv, MetaInv, Before, Waiting, TypeOK
<1>c. Left(meta)' \subseteq {Base, NewMeta}
  <2>1. LeftIf(Lossy, PageWritten(meta, NewMeta)) \subseteq LeftIf(Lossy, meta) \cup {NewMeta}
    BY SMTT(180), <1>0, LeftOps, LossyType DEF FilesOK
  <2> QED BY <1>a, <1>b, <2>1 DEF Left, Lossy
<1>d. NewMeta' = NewMeta /\ Base' = Base
  BY <1>a DEF NewMeta, NewFree, InUse, Base
<1>e. /\ Recoverable'
      /\ \A m \in Left(meta)', w \in Left(wal)' : w.seqn = m.seqn /\ w # EmptyWal => w.whole
      /\ \A m \in Left(meta)' : m.free \cap InUse(m.index) = {}
  BY <1>a, <1>b, <1>c, MetaGrows
<1>1. TypeOK'
  <2>1. meta' \in File(Manifest)
    BY <1>0, <1>a, NewMetaGood, FileOps DEF TypeOK
  <2> QED BY SMTT(180), <1>0, <1>a, <2>1 DEF TypeOK
<1>2. FilesOK'
  BY SMTT(180), <1>0, <1>a, NowOps DEF FilesOK
<1>3. PhaseInv'
  BY <1>0, <1>a, <1>b DEF PhaseInv, Before, After, Recovering, Waiting
<1>4. MetaInv'
  <2>1. meta'.now = NewMeta
    BY <1>a, NowOps
  <2>2. NewMeta.seqn >= acked /\ Base.seqn >= acked
    <3>1. Base.seqn = sync_seqn /\ NewMeta.seqn = sync_seqn + 1 /\ Base.seqn >= acked
      BY <1>0, <1>b DEF Base, NewMeta, MetaInv
    <3>2. sync_seqn \in Int /\ acked \in Int
      BY SMTT(180), <1>0, StoreAssumption DEF StoreAssumption, TypeOK, Seqn
    <3> QED BY <3>1, <3>2
  <2> QED BY <1>a, <1>b, <1>c, <1>d, <2>1, <2>2 DEF MetaInv, Before, After, Recovering, Waiting, Serving
<1>5. FreeInv'
  BY <1>0, <1>a, <1>e DEF FreeInv, InUse, Before
<1>6. HistInv'
  BY SMTT(180), <1>0, <1>a, <1>b DEF HistInv, Target, Before, After
<1>7. BeatreeInv'
  BY SMTT(180), <1>0, <1>a, <1>b DEF BeatreeInv, LeavesDurable, InUse, Left, Lossy, After
<1>8. WalInv'
  BY SMTT(180), <1>0, <1>a, <1>b, <1>e DEF WalInv
<1>9. HtInv'
  BY <1>0, <1>a DEF HtInv, PagesExact, Left, Lossy, Before
<1>10. OpenFailsNeedlessly'
  BY <1>a DEF OpenFailsNeedlessly
<1> QED BY <1>e, <1>1, <1>2, <1>3, <1>4, <1>5, <1>6, <1>7, <1>8, <1>9, <1>10 DEF IInv

\* The manifest becomes durable and the sync takes effect.
LEMMA MetaFsyncStep ==
  ASSUME Safe, IInv, MetaFsync
  PROVE  IInv'
<1>0. TypeOK /\ FilesOK /\ PhaseInv /\ MetaInv /\ FreeInv /\ HistInv /\ BeatreeInv /\ WalInv /\ HtInv /\ Recoverable /\ OpenFailsNeedlessly
  BY DEF IInv
<1>a. /\ pc = "meta_fsync" /\ meta' = Synced(meta) /\ pc' = "ht_write"
      /\ sync_seqn' = sync_seqn + 1 /\ todo' = DOMAIN chg.tr
      /\ UNCHANGED <<wal, ht, ln, bb, bt, poisoned, chg, index, free, bbn_index, alloc, acked, hist, crashes, readers>>
  BY DEF MetaFsync, MainUnchanged
<1>b. bt = "off" /\ bb = "off" /\ ~poisoned
  BY <1>0, <1>a DEF PhaseInv, Waiting, TypeOK
<1>c. Left(meta)' = {NewMeta} /\ NewMeta \in Left(meta)
  <2>1. LeftIf(Lossy, Synced(meta)) = {meta.now} /\ meta.now \in LeftIf(Lossy, meta)
    BY ZenonT(30), <1>0, LeftOps, LossyType DEF FilesOK
  <2> QED BY <1>0, <1>a, <2>1 DEF Left, Lossy, MetaInv
<1>d. Top' = NewMeta
  BY <1>a DEF NewMeta, NewFree, InUse, Top
<1>e. /\ Recoverable'
      /\ \A m \in Left(meta)', w \in Left(wal)' : w.seqn = m.seqn /\ w # EmptyWal => w.whole
      /\ \A m \in Left(meta)' : m.free \cap InUse(m.index) = {}
  BY <1>a, <1>c, MetaGrows
<1>f. sync_seqn \in Int /\ sync_seqn >= 0 /\ sync_seqn + 1 \in Seqn
  BY SMTT(180), <1>0, <1>a, StoreAssumption DEF StoreAssumption, TypeOK, PhaseInv, Seqn
<1>1. TypeOK'
  <2>1. meta' \in File(Manifest)
    BY SMTT(180), <1>0, <1>a, SyncedType DEF TypeOK
  <2>2. DOMAIN chg.tr \subseteq Pages
    BY SMTT(180), <1>0, DeltaType DEF TypeOK
  <2> QED BY <1>0, <1>a, <1>f, <2>1, <2>2 DEF TypeOK
<1>2. FilesOK'
  <2>1. meta'.now \in meta'.may /\ meta'.may = {meta'.now}
    BY <1>a DEF Synced
  <2> QED BY ZenonT(30), <1>0, <1>a, <2>1 DEF FilesOK
<1>3. PhaseInv'
  BY <1>0, <1>a, <1>b, <1>f DEF PhaseInv, Before, After, Recovering, Waiting
<1>4. MetaInv'
  <2>1. NewMeta.seqn >= acked
    BY <1>0, <1>c DEF MetaInv
  <2> QED BY <1>a, <1>b, <1>c, <1>d, <2>1 DEF MetaInv, Before, After, Recovering, Waiting, Serving
<1>5. FreeInv'
  BY SMTT(180), <1>0, <1>a, <1>e DEF FreeInv, InUse
<1>6. HistInv'
  BY SMTT(180), <1>0, <1>a, <1>b DEF HistInv, Target, Before, Waiting
<1>7. BeatreeInv'
  BY SMTT(180), <1>0, <1>a, <1>b DEF BeatreeInv, LeavesDurable, InUse, Left, Lossy
<1>8. WalInv'
  BY <1>0, <1>a, <1>b, <1>e DEF WalInv
<1>9. HtInv'
  BY <1>a DEF HtInv, Before, Waiting, Serving
<1>10. OpenFailsNeedlessly'
  BY <1>a DEF OpenFailsNeedlessly
<1> QED BY <1>e, <1>1, <1>2, <1>3, <1>4, <1>5, <1>6, <1>7, <1>8, <1>9, <1>10 DEF IInv


(***************************************************************************)
(* The theorems.                                                           *)
(***************************************************************************)
LEMMA InitStep ==
  ASSUME Init PROVE IInv
<1>a. 0 \in Seqn /\ 0 \in 0..MaxCrash
  BY StoreAssumption DEF StoreAssumption, Seqn
<1>b. /\ meta.now = Base /\ meta.may = {Base} /\ meta.now \in Manifest
      /\ sync_seqn = 0 /\ index = [k \in Keys |-> NIL]
  BY SMTT(180), <1>a DEF Init, Fresh, Base, Manifest
<1>c. /\ wal = Fresh(EmptyWal) /\ hist \in [Seqn -> State]
      /\ \A p \in Pages : ht[p] = Fresh(0) /\ hist[0].tr[p] = 0
      /\ \A k \in Keys : hist[0].kv[k] = 0
  BY SMTT(180), <1>a DEF Init, State
<1>d. Left(meta) = {Base} /\ Left(wal) = {EmptyWal} /\ \A p \in Pages : Left(ht[p]) = {0}
  BY SMTT(180), <1>b, <1>c DEF Left, LeftIf, Fresh
<1>1. TypeOK
  <2>1. EmptyWal \in WalContent /\ NoChange \in Delta(Keys) /\ NoChange \in Delta(Pages)
    BY <1>a, NoChangeDelta, WalTypes
  <2>2. chg \in [kv : Delta(Keys), tr : Delta(Pages)]
    BY <2>1 DEF Init
  <2>3. meta \in File(Manifest) /\ wal \in File(WalContent)
    BY <1>b, <1>c, <2>1 DEF Init, File, Fresh
  <2>4. ht \in [Pages -> File(Seqn)] /\ ln \in [Slots -> File(Seqn)]
    BY SMTT(180), <1>a DEF Init, File, Fresh
  <2> QED BY ZenonT(30), <1>a, <1>c, <2>2, <2>3, <2>4 DEF Init, TypeOK
<1>2. FilesOK
  BY SMTT(180) DEF Init, FilesOK, Fresh
<1>3. PhaseInv
  BY SMTT(180) DEF Init, PhaseInv, Waiting, Before, After, Recovering
<1>4. MetaInv
  BY SMTT(180), <1>d DEF Init, MetaInv, Base, Waiting, Before, After, Recovering, Serving
<1>5. FreeInv
  <2>1. InUse(index) = {}
    BY <1>b DEF InUse
  <2> QED BY SMTT(180), <1>d, <2>1 DEF Init, FreeInv, Base, Waiting, Before, After
<1>6. HistInv
  BY SMTT(180) DEF Init, HistInv, Waiting, Before, After
<1>7. BeatreeInv
  BY SMTT(180) DEF Init, BeatreeInv, After
<1>8. WalInv
  BY SMTT(180), <1>d DEF Init, WalInv
<1>9. HtInv
  <2>1. PagesExact(sync_seqn)
    BY <1>b, <1>c, <1>d DEF PagesExact
  <2> QED BY SMTT(180), <2>1 DEF Init, HtInv, Before, Waiting
<1>10. Recoverable
  <2>1. LeavesGood(Base)
    BY SMTT(180), <1>b, <1>c DEF LeavesGood, Base
  <2>2. PagesGood(Base, EmptyWal)
    <3>1. DOMAIN EmptyWal.tr = {}
      BY WalFields
    <3>2. Base.seqn = 0
      BY <1>b DEF Base
    <3> QED BY <1>c, <1>d, <3>1, <3>2 DEF PagesGood
  <2> QED BY SMTT(180), <1>d, <2>1, <2>2 DEF Recoverable
<1>11. OpenFailsNeedlessly
  BY ZenonT(30) DEF Init, OpenFailsNeedlessly
<1> QED BY <1>1, <1>2, <1>3, <1>4, <1>5, <1>6, <1>7, <1>8, <1>9, <1>10, <1>11 DEF IInv

=============================================================================
