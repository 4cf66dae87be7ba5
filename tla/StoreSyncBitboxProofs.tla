----------------------- MODULE StoreSyncBitboxProofs -----------------------
(***************************************************************************)
(* Facts about files, WAL contents and changes; the steps of the bitbox    *)
(* half of a sync keep the inductive invariant.                            *)
(***************************************************************************)
EXTENDS StoreSync, TLAPS


(***************************************************************************)
(* Facts about files, WAL contents and changes.                            *)
(***************************************************************************)

\* The operations on a file keep the type of its contents.
LEMMA FileOps ==
  ASSUME NEW S, NEW f \in File(S), NEW v \in S
  PROVE  /\ Fresh(v) \in File(S)
         /\ Written(f, v) \in File(S)
         /\ PageWritten(f, v) \in File(S)
BY DEF File, Fresh, Written, PageWritten

\* An fsync keeps the type of a file's contents.
LEMMA SyncedType ==
  ASSUME NEW S, NEW f \in File(S)
  PROVE  Synced(f) \in File(S) /\ Synced(f).now \in Synced(f).may
BY DEF File, Synced

\* What a read returns, and what may survive, after each operation on a file.
LEMMA NowOps ==
  ASSUME NEW f, NEW v
  PROVE  /\ Fresh(v).now = v /\ Fresh(v).may = {v}
         /\ Written(f, v).now = v /\ Written(f, v).may = f.may \cup {v}
         /\ PageWritten(f, v).now = v /\ v \in PageWritten(f, v).may
         /\ WriteThrough => PageWritten(f, v) = Fresh(v)
         /\ Synced(f) = Fresh(f.now)
BY DEF Fresh, Written, PageWritten, Synced

\* A write adds one content to what may be found; an fsync removes some.
LEMMA LeftOps ==
  ASSUME NEW b \in BOOLEAN, NEW f, NEW v, f.now \in f.may
  PROVE  /\ LeftIf(b, Written(f, v)) \subseteq LeftIf(b, f) \cup {v}
         /\ LeftIf(b, PageWritten(f, v)) \subseteq LeftIf(b, f) \cup {v}
         /\ LeftIf(b, Synced(f)) \subseteq LeftIf(b, f)
         /\ LeftIf(b, Synced(f)) = {f.now}
         /\ LeftIf(b, Fresh(v)) = {v}
         /\ f.now \in LeftIf(b, f)
BY DEF LeftIf, Fresh, Written, PageWritten, Synced

\* Whether unsynced writes may be lost is a Boolean.
LEMMA LossyType == Lossy \in BOOLEAN
BY StoreAssumption DEF StoreAssumption, Lossy

\* The empty change changes nothing.
LEMMA NoChangeDelta ==
  ASSUME NEW S PROVE NoChange \in Delta(S) /\ DOMAIN NoChange = {}
<1>1. NoChange \in [{} -> Seqn] /\ DOMAIN NoChange = {}
  BY DEF NoChange
<1> QED BY SMTT(180), <1>1 DEF Delta

\* A change is a function to sync numbers on a subset.
LEMMA DeltaType ==
  ASSUME NEW S, NEW d \in Delta(S)
  PROVE  DOMAIN d \subseteq S /\ \A x \in DOMAIN d : d[x] \in Seqn
BY DEF Delta

\* What a change of type Delta maps to.
LEMMA ChangesType ==
  ASSUME NEW n \in Seqn, NEW c \in Changes(n)
  PROVE  c \in [kv : Delta(Keys), tr : Delta(Pages)]
<1>1. ASSUME NEW S, NEW d \in UNION {[T -> {0, n}] : T \in SUBSET S}
      PROVE  d \in Delta(S)
  <2>1. PICK T \in SUBSET S : d \in [T -> {0, n}]
    BY <1>1
  <2>2. {0, n} \subseteq Seqn
    BY StoreAssumption DEF StoreAssumption, Seqn
  <2>3. d \in [T -> Seqn]
    BY <2>1, <2>2
  <2> QED BY <2>1, <2>3 DEF Delta
<1> QED BY <1>1 DEF Changes

\* Applying a change to a state gives a state.
LEMMA ApplyType ==
  ASSUME NEW S, NEW f \in [S -> Seqn], NEW d \in Delta(S)
  PROVE  /\ Apply(f, d) \in [S -> Seqn]
         /\ \A x \in S : Apply(f, d)[x] = IF x \in DOMAIN d THEN d[x] ELSE f[x]
BY DeltaType DEF Apply

\* The contents a WAL is written with have the type of WAL contents.
LEMMA WalTypes ==
  ASSUME NEW n \in Seqn, NEW tr \in Delta(Pages)
  PROVE  /\ EmptyWal \in WalContent
         /\ Wal(n, tr) \in WalContent
         /\ TornWal(n) \in WalContent
         /\ HeadlessWal(n) \in WalContent
BY StoreAssumption, NoChangeDelta
   DEF StoreAssumption, EmptyWal, Wal, TornWal, HeadlessWal, WalContent, Seqn

\* Reading the fields of WAL contents.
LEMMA WalFields ==
  ASSUME NEW n, NEW tr
  PROVE  /\ EmptyWal.seqn = 0 /\ DOMAIN EmptyWal.tr = {}
         /\ Wal(n, tr).seqn = n /\ Wal(n, tr).tr = tr /\ Wal(n, tr).whole
         /\ TornWal(n).seqn = n /\ DOMAIN TornWal(n).tr = {}
         /\ HeadlessWal(n).seqn = n
         /\ n # 0 => Wal(n, tr) # EmptyWal
BY NoChangeDelta DEF EmptyWal, Wal, TornWal, HeadlessWal

\* What may be found has the type of what was written.
LEMMA LeftType ==
  ASSUME TypeOK, FilesOK
  PROVE  /\ Left(meta) \subseteq Manifest /\ meta.now \in Left(meta)
         /\ Left(wal) \subseteq WalContent /\ wal.now \in Left(wal)
         /\ \A p \in Pages : Left(ht[p]) \subseteq Seqn /\ ht[p].now \in Left(ht[p])
         /\ \A s \in Slots : Left(ln[s]) \subseteq Seqn /\ ln[s].now \in Left(ln[s])
BY DEF TypeOK, FilesOK, File, Left, LeftIf

\* What the invariant derives from the variables is unchanged with them.
LEMMA SameManifest ==
  ASSUME UNCHANGED <<meta, crashes, sync_seqn, index, free, bbn_index, alloc>>
  PROVE  Left(meta)' = Left(meta) /\ Base' = Base /\ Top' = Top /\ NewMeta' = NewMeta
<1>1. Left(meta)' = Left(meta)
  BY DEF Left, Lossy
<1>2. NewFree' = NewFree
  BY DEF NewFree, InUse
<1> QED BY <1>1, <1>2 DEF Base, Top, NewMeta

\* What may be found in the files is unchanged with them.
LEMMA SameFiles ==
  ASSUME UNCHANGED <<meta, wal, ht, ln, crashes>>
  PROVE  /\ Left(meta)' = Left(meta) /\ Left(wal)' = Left(wal)
         /\ \A p \in Pages : Left(ht[p])' = Left(ht[p])
         /\ \A s \in Slots : Left(ln[s])' = Left(ln[s])
BY DEF Left, Lossy

\* If nothing new may be found, what may be found is still recoverable.
LEMMA Shrink ==
  ASSUME TypeOK, FilesOK, Recoverable, hist' = hist,
         Left(meta)' \subseteq Left(meta),
         Left(wal)' \subseteq Left(wal),
         \A p \in Pages : Left(ht[p])' \subseteq Left(ht[p]),
         \A s \in Slots : Left(ln[s])' \subseteq Left(ln[s])
  PROVE  Recoverable'
<1>1. ASSUME NEW m \in Left(meta)' PROVE LeavesGood(m)'
  <2>1. LeavesGood(m) /\ m.index \in [Keys -> Slots \cup {NIL}]
    BY <1>1, LeftType DEF Recoverable, Manifest
  <2> QED BY <2>1 DEF LeavesGood
<1>2. ASSUME NEW m \in Left(meta)', NEW w \in Left(wal)' PROVE PagesGood(m, w)'
  <2>1. PagesGood(m, w)
    BY <1>2 DEF Recoverable
  <2> QED BY <2>1 DEF PagesGood
<1> QED BY <1>1, <1>2 DEF Recoverable


\* Contents that do not concern the state in effect may join the WAL.
LEMMA WalGrows ==
  ASSUME TypeOK, FilesOK, Recoverable, WalInv, PagesExact(sync_seqn),
         \A m \in Left(meta) : m.seqn = sync_seqn,
         UNCHANGED <<meta, ht, ln, hist, crashes>>,
         NEW W, \A w \in W : w = EmptyWal \/ w.seqn = sync_seqn + 1,
         Left(wal)' \subseteq Left(wal) \cup W
  PROVE  /\ Recoverable'
         /\ \A m \in Left(meta)', w \in Left(wal)' :
              w.seqn = m.seqn /\ w # EmptyWal => w.whole
<1>0. Left(meta)' = Left(meta)
  BY DEF Left, Lossy
<1>1. ASSUME NEW m \in Left(meta)' PROVE LeavesGood(m)'
  BY <1>0, <1>1 DEF LeavesGood, Recoverable, Left, Lossy
<1>2. ASSUME NEW m \in Left(meta), NEW w \in Left(wal)' PROVE PagesGood(m, w)'
  <2>1. CASE w \in Left(wal)
    <3>1. PagesGood(m, w)
      BY <2>1 DEF Recoverable
    <3> QED BY <3>1 DEF PagesGood, Left, Lossy
  <2>2. CASE w \in W
    <3>1. ~ (w.seqn = m.seqn /\ \E p \in Pages : p \in DOMAIN w.tr)
      <4>1. m.seqn = sync_seqn /\ sync_seqn \in Int
        BY StoreAssumption DEF StoreAssumption, TypeOK, Seqn
      <4>2. w = EmptyWal => DOMAIN w.tr = {}
        BY WalFields
      <4> QED BY <2>2, <4>1, <4>2
    <3>2. \A p \in Pages : \A v \in Left(ht[p])' : v = hist[m.seqn].tr[p]
      BY DEF PagesExact, Left, Lossy
    <3> QED BY <3>1, <3>2 DEF PagesGood
  <2> QED BY <2>1, <2>2
<1>3. ASSUME NEW m \in Left(meta), NEW w \in Left(wal)', w.seqn = m.seqn, w # EmptyWal
      PROVE  w.whole
  <2>1. sync_seqn \in Int
    BY StoreAssumption DEF StoreAssumption, TypeOK, Seqn
  <2> QED BY <1>3, <2>1 DEF WalInv
<1> QED BY <1>0, <1>1, <1>2, <1>3 DEF Recoverable


\* begin_sync truncates the WAL of the sync before.
LEMMA WalTruncateStep ==
  ASSUME Safe, IInv, WalTruncate
  PROVE  IInv'
<1>0. TypeOK /\ FilesOK /\ PhaseInv /\ MetaInv /\ FreeInv /\ HistInv /\ BeatreeInv /\ WalInv /\ HtInv /\ Recoverable /\ OpenFailsNeedlessly
  BY DEF IInv
<1> USE DEF WalTruncate, BitboxUnchanged, mem
<1>a. pc = "wait_bitbox" /\ PagesExact(sync_seqn) /\ \A m \in Left(meta) : m.seqn = sync_seqn
  BY <1>0 DEF PhaseInv, HtInv, MetaInv, Base, Before, Waiting
<1>b. Left(wal)' \subseteq Left(wal) \cup {EmptyWal}
  BY ZenonT(30), <1>0, LeftOps, LossyType DEF Left, Lossy, FilesOK
<1>c. /\ Recoverable'
      /\ \A m \in Left(meta)', w \in Left(wal)' : w.seqn = m.seqn /\ w # EmptyWal => w.whole
  BY Zenon, <1>0, <1>a, <1>b, WalGrows
<1>1. TypeOK'
  BY ZenonT(30), <1>0, FileOps, WalTypes DEF TypeOK
<1>2. FilesOK'
  BY SMTT(180), <1>0, NowOps DEF FilesOK
<1>3. PhaseInv'
  BY <1>0 DEF PhaseInv
<1>4. MetaInv'
  BY SMTT(180), <1>0 DEF MetaInv, Left, Lossy, Base, Top, NewFree, NewMeta, InUse, Serving
<1>5. FreeInv'
  BY <1>0 DEF FreeInv, Left, Lossy, InUse
<1>6. HistInv'
  BY <1>0 DEF HistInv, Target
<1>7. BeatreeInv'
  BY <1>0 DEF BeatreeInv, LeavesWritten, LeavesDurable, Left, Lossy, InUse
<1>8. WalInv'
  BY <1>0, <1>a, <1>c DEF WalInv
<1>9. HtInv'
  BY <1>0, <1>a DEF HtInv, PagesExact, Left, Lossy, Serving
<1>10. OpenFailsNeedlessly'
  BY <1>0, <1>a DEF OpenFailsNeedlessly, PhaseInv, Waiting
<1> QED BY <1>c, <1>1, <1>2, <1>3, <1>4, <1>5, <1>6, <1>7, <1>8, <1>9, <1>10 DEF IInv

\* The WAL is written, whole or in part.
LEMMA WalWriteStep ==
  ASSUME Safe, IInv, WalWrite
  PROVE  IInv'
<1>0. TypeOK /\ FilesOK /\ PhaseInv /\ MetaInv /\ FreeInv /\ HistInv /\ BeatreeInv /\ WalInv /\ HtInv /\ Recoverable /\ OpenFailsNeedlessly
  BY DEF IInv
<1> DEFINE n == sync_seqn + 1
<1> DEFINE W == {HeadlessWal(n), TornWal(n), Wal(n, chg.tr)}
<1>a. pc = "wait_bitbox" /\ PagesExact(sync_seqn) /\ \A m \in Left(meta) : m.seqn = sync_seqn
  BY <1>0 DEF PhaseInv, HtInv, MetaInv, Base, Before, Waiting, WalWrite
<1>b. Left(wal)' \subseteq Left(wal) \cup W
  BY <1>0 DEF Left, LeftIf, Lossy, WalWrite, BitboxUnchanged
<1>c. \A w \in W : w.seqn = n
  <2>1. HeadlessWal(n).seqn = n /\ TornWal(n).seqn = n /\ Wal(n, chg.tr).seqn = n
    BY Zenon, WalFields
  <2> QED BY <2>1
<1>d. /\ Recoverable'
      /\ \A m \in Left(meta)', w \in Left(wal)' : w.seqn = m.seqn /\ w # EmptyWal => w.whole
  <2> HIDE DEF W
  <2>1. UNCHANGED <<meta, ht, ln, hist, crashes>>
    BY DEF WalWrite, BitboxUnchanged
  <2> QED BY Zenon, <1>0, <1>a, <1>b, <1>c, <2>1, WalGrows
<1>1. TypeOK'
  <2>1. n \in Seqn /\ chg.tr \in Delta(Pages)
    BY <1>0, <1>a, StoreAssumption
       DEF StoreAssumption, TypeOK, PhaseInv, Before, Waiting, Seqn
  <2>2. W \subseteq WalContent
    BY <2>1, WalTypes
  <2>3. wal' \in File(WalContent)
    BY SMTT(180), <1>0, <2>2 DEF TypeOK, File, WalWrite
  <2> QED BY <1>0, <2>3 DEF TypeOK, WalWrite, BitboxUnchanged, mem
<1> USE DEF WalWrite, BitboxUnchanged, mem
<1>2. FilesOK'
  BY <1>0 DEF FilesOK
<1>3. PhaseInv'
  BY SMTT(180), <1>0 DEF PhaseInv
<1>4. MetaInv'
  BY SMTT(180), <1>0 DEF MetaInv, Left, Lossy, Base, Top, NewFree, NewMeta, InUse, Serving
<1>5. FreeInv'
  BY <1>0 DEF FreeInv, Left, Lossy, InUse
<1>6. HistInv'
  BY SMTT(180), <1>0 DEF HistInv, Target
<1>7. BeatreeInv'
  BY SMTT(180), <1>0 DEF BeatreeInv, LeavesWritten, LeavesDurable, Left, Lossy, InUse
<1>8. WalInv'
  BY ZenonT(30), <1>0, <1>a, <1>d DEF WalInv
<1>9. HtInv'
  BY ZenonT(30), <1>0, <1>a DEF HtInv, PagesExact, Left, Lossy, Serving
<1>10. OpenFailsNeedlessly'
  BY <1>0, <1>a DEF OpenFailsNeedlessly, PhaseInv, Waiting
<1> QED BY SMTT(180), <1>d, <1>1, <1>2, <1>3, <1>4, <1>5, <1>6, <1>7, <1>8, <1>9, <1>10 DEF IInv

\* The fsync of the WAL completes.
LEMMA WalFsyncStep ==
  ASSUME Safe, IInv, WalFsync
  PROVE  IInv'
<1>0. TypeOK /\ FilesOK /\ PhaseInv /\ MetaInv /\ FreeInv /\ HistInv /\ BeatreeInv /\ WalInv /\ HtInv /\ Recoverable /\ OpenFailsNeedlessly
  BY DEF IInv
<1> USE DEF WalFsync, BitboxUnchanged, mem
<1>a. pc = "wait_bitbox"
  BY <1>0 DEF PhaseInv
<1>b. Left(wal)' \subseteq Left(wal) /\ Left(meta)' = Left(meta)
  BY ZenonT(30), <1>0, LeftOps, LossyType DEF Left, Lossy, FilesOK
<1>c. wal' = Fresh(wal.now) /\ wal' \in File(WalContent) /\ wal'.now \in wal'.may
  BY ZenonT(30), <1>0, NowOps, SyncedType DEF TypeOK
<1>1. TypeOK'
  BY <1>0, <1>c DEF TypeOK
<1>2. FilesOK'
  BY <1>0, <1>c DEF FilesOK
<1>3. PhaseInv'
  BY <1>0 DEF PhaseInv
<1>4. MetaInv'
  BY ZenonT(60), <1>0 DEF MetaInv, Left, Lossy, Base, Top, NewFree, NewMeta, InUse, Serving
<1>5. FreeInv'
  BY <1>0 DEF FreeInv, Left, Lossy, InUse
<1>6. HistInv'
  BY <1>0 DEF HistInv, Target
<1>7. BeatreeInv'
  BY <1>0 DEF BeatreeInv, LeavesWritten, LeavesDurable, Left, Lossy, InUse
<1>8. WalInv'
  BY <1>0, <1>a, <1>b, <1>c DEF WalInv
<1>9. HtInv'
  BY <1>0, <1>a DEF HtInv, PagesExact, Left, Lossy, Serving
<1>10. Recoverable'
  BY <1>0, <1>b, Shrink DEF Left, Lossy
<1>11. OpenFailsNeedlessly'
  BY <1>0, <1>a DEF OpenFailsNeedlessly, PhaseInv, Waiting
<1> QED BY <1>1, <1>2, <1>3, <1>4, <1>5, <1>6, <1>7, <1>8, <1>9, <1>10, <1>11 DEF IInv

\* The bitbox half fails at one of its operations.
LEMMA BitboxErrorStep ==
  ASSUME Safe, IInv, BitboxError
  PROVE  IInv'
<1>0. TypeOK /\ FilesOK /\ PhaseInv /\ MetaInv /\ FreeInv /\ HistInv /\ BeatreeInv /\ WalInv /\ HtInv /\ Recoverable /\ OpenFailsNeedlessly
  BY DEF IInv
<1> DEFINE
  n == sync_seqn + 1
  W == {HeadlessWal(n), TornWal(n)}
<1>a. pc = "wait_bitbox" /\ PagesExact(sync_seqn) /\ \A m \in Left(meta) : m.seqn = sync_seqn
  BY SMTT(180), <1>0 DEF PhaseInv, HtInv, MetaInv, Base, Before, Waiting, BitboxError
<1>b. Left(wal)' \subseteq Left(wal) \cup W
  <2>1. CASE wal' = wal
    BY <2>1 DEF Left, Lossy, BitboxError, BitboxUnchanged
  <2>2. ASSUME NEW T \in W, wal' = Written(wal, T)
        PROVE  Left(wal)' \subseteq Left(wal) \cup W
    <3>1. crashes' = crashes
      BY DEF BitboxError, BitboxUnchanged
    <3>2. LeftIf(Lossy, Written(wal, T)) \subseteq LeftIf(Lossy, wal) \cup {T}
      BY SMTT(180), <1>0, LeftOps, LossyType DEF FilesOK
    <3> QED BY <2>2, <3>1, <3>2 DEF Left, Lossy
  <2> QED BY <2>1, <2>2 DEF BitboxError
<1>c. /\ Recoverable'
      /\ \A m \in Left(meta)', w \in Left(wal)' : w.seqn = m.seqn /\ w # EmptyWal => w.whole
  <2>1. \A w \in W : w.seqn = sync_seqn + 1
    <3>1. HeadlessWal(n).seqn = n /\ TornWal(n).seqn = n
      BY Zenon, WalFields
    <3> QED BY <3>1
  <2>2. UNCHANGED <<meta, ht, ln, hist, crashes>>
    BY DEF BitboxError, BitboxUnchanged
  <2> HIDE DEF W
  <2> QED BY Zenon, <1>0, <1>a, <1>b, <2>1, <2>2, WalGrows
<1>d. wal' \in File(WalContent) /\ wal'.now \in wal'.may
  <2>1. sync_seqn + 1 \in Seqn /\ chg.tr \in Delta(Pages)
    BY <1>0, <1>a, StoreAssumption
       DEF StoreAssumption, TypeOK, PhaseInv, Before, Waiting, Seqn
  <2>2. HeadlessWal(n) \in WalContent /\ TornWal(n) \in WalContent
    BY ZenonT(30), <2>1, WalTypes
  <2>3. ASSUME NEW T \in W
        PROVE  Written(wal, T) \in File(WalContent) /\ Written(wal, T).now \in Written(wal, T).may
    <3>1. T \in WalContent /\ wal \in File(WalContent)
      BY <1>0, <2>2 DEF TypeOK
    <3> HIDE DEF W
    <3> QED BY ZenonT(30), <3>1, FileOps DEF Written
  <2> HIDE DEF W
  <2>4. wal' = wal \/ \E T \in W : wal' = Written(wal, T)
    BY DEF W, BitboxError
  <2> QED BY <1>0, <2>3, <2>4 DEF TypeOK, FilesOK
<1>1. TypeOK'
  BY ZenonT(30), <1>0, <1>d DEF TypeOK, BitboxError, BitboxUnchanged, mem
<1>2. FilesOK'
  BY ZenonT(30), <1>0, <1>d DEF FilesOK, BitboxError
<1> USE DEF BitboxError, BitboxUnchanged, mem
<1>3. PhaseInv'
  BY <1>0 DEF PhaseInv
<1>4. MetaInv'
  <2>1. UNCHANGED <<meta, pc, bt, sync_seqn, poisoned, index, free, bbn_index, alloc,
                    acked, crashes>>
    OBVIOUS
  <2> HIDE DEF BitboxError
  <2>2. Left(meta)' = Left(meta) /\ Base' = Base /\ Top' = Top /\ NewMeta' = NewMeta
    BY SMTT(180), <2>1, SameManifest
  <2> QED BY <1>0, <2>1, <2>2 DEF MetaInv, Serving
<1>5. FreeInv'
  BY SMTT(180), <1>0 DEF FreeInv, Left, Lossy, InUse
<1>6. HistInv'
  BY <1>0 DEF HistInv, Target
<1>7. BeatreeInv'
  BY ZenonT(60), <1>0 DEF BeatreeInv, LeavesWritten, LeavesDurable, Left, Lossy, InUse
<1>8. WalInv'
  BY <1>a, <1>c DEF WalInv
<1>9. HtInv'
  BY <1>0, <1>a DEF HtInv, PagesExact, Left, Lossy, Serving
<1>10. OpenFailsNeedlessly'
  BY <1>0, <1>a DEF OpenFailsNeedlessly, PhaseInv, Waiting
<1> QED BY SMTT(180), <1>c, <1>1, <1>2, <1>3, <1>4, <1>5, <1>6, <1>7, <1>8, <1>9, <1>10 DEF IInv

=============================================================================
