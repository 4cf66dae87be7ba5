-------------------------- MODULE StoreSyncProofs --------------------------
(***************************************************************************)
(* Crashes and the steps of recovery keep the inductive invariant; so      *)
(* StoreSync keeps it for any keys, pages, leaf slots and bounds, and its  *)
(* safety properties follow.                                               *)
(***************************************************************************)
EXTENDS StoreSyncPostProofs

\* A crash that brings no new content to any file keeps the invariant.
LEMMA CrashStep ==
  ASSUME Safe, IInv, Stopped,
         meta' \in File(Manifest), wal' \in File(WalContent),
         ht' \in [Pages -> File(Seqn)], ln' \in [Slots -> File(Seqn)],
         FilesOK',
         Left(meta)' \subseteq Left(meta),
         Left(wal)' \subseteq Left(wal),
         \A p \in Pages : Left(ht[p])' \subseteq Left(ht[p]),
         \A s \in Slots : Left(ln[s])' \subseteq Left(ln[s])
  PROVE  IInv'
<1>0. TypeOK /\ FilesOK /\ PhaseInv /\ MetaInv /\ FreeInv /\ WalInv /\ Recoverable
  BY DEF IInv
<1>a. /\ crashes' = crashes + 1 /\ crashes < MaxCrash
      /\ pc' = "down" /\ bb' = "off" /\ bt' = "off" /\ poisoned' = FALSE
      /\ todo' = {} /\ alloc' = {}
      /\ UNCHANGED <<sync_seqn, chg, index, free, bbn_index, acked, hist>>
      /\ readers' = 0
  BY DEF Stopped
<1>b. crashes' \in 0..MaxCrash /\ crashes' > 0
  BY <1>0, <1>a, StoreAssumption DEF TypeOK, StoreAssumption
<1>1. TypeOK'
  BY ZenonT(30), <1>0, <1>a, <1>b DEF TypeOK
<1>3. PhaseInv'
  BY <1>a, <1>b DEF PhaseInv, Before, After, Recovering, Waiting
<1>4. MetaInv'
  <2>1. \A m \in Left(meta)' : m.seqn >= acked'
    BY <1>0, <1>a DEF MetaInv
  <2> QED BY <1>a, <2>1 DEF MetaInv, Before, After, Recovering, Waiting, Serving
<1>5. FreeInv'
  <2>1. \A m \in Left(meta)' : m.free \cap InUse(m.index) = {}
    BY <1>0 DEF FreeInv
  <2> QED BY <1>a, <2>1 DEF FreeInv, Before, After, Waiting
<1>6. HistInv'
  BY <1>a DEF HistInv, Before, After, Waiting
<1>7. BeatreeInv'
  BY <1>a DEF BeatreeInv, After
<1>8. WalInv'
  <2>1. \A m \in Left(meta)', w \in Left(wal)' : w.seqn = m.seqn /\ w # EmptyWal => w.whole
    BY <1>0 DEF WalInv
  <2> QED BY <1>a, <2>1 DEF WalInv
<1>9. HtInv'
  BY <1>a DEF HtInv, Before, Waiting, Serving
<1>10. Recoverable'
  BY <1>0, <1>a, Shrink
<1>11. OpenFailsNeedlessly'
  BY <1>a DEF OpenFailsNeedlessly
<1> QED BY <1>1, <1>3, <1>4, <1>5, <1>6, <1>7, <1>8, <1>9, <1>10, <1>11 DEF IInv

\* A power loss leaves any content each file may have.
LEMMA PowerLossStep ==
  ASSUME Safe, IInv, PowerLoss
  PROVE  IInv'
<1>0. TypeOK /\ FilesOK
  BY DEF IInv
<1>a. Stopped /\ Lossy
  BY DEF PowerLoss, Lossy
<1>b. PICK m \in meta.may : meta' = Fresh(m)
  BY DEF PowerLoss
<1>c. PICK w \in wal.may : wal' = Fresh(w)
  BY DEF PowerLoss
<1>d. PICK h \in [Pages -> UNION {ht[p].may : p \in Pages}] :
        /\ \A p \in Pages : h[p] \in ht[p].may
        /\ ht' = [p \in Pages |-> Fresh(h[p])]
  BY DEF PowerLoss
<1>e. PICK l \in [Slots -> UNION {ln[s].may : s \in Slots}] :
        /\ \A s \in Slots : l[s] \in ln[s].may
        /\ ln' = [s \in Slots |-> Fresh(l[s])]
  BY SMTT(180) DEF PowerLoss
<1>f. /\ \A p \in Pages : ht'[p] = Fresh(h[p])
      /\ \A s \in Slots : ln'[s] = Fresh(l[s])
  BY <1>d, <1>e
<1>1. /\ m \in Manifest /\ w \in WalContent
      /\ \A p \in Pages : h[p] \in Seqn
      /\ \A s \in Slots : l[s] \in Seqn
  BY <1>0, <1>b, <1>c, <1>d, <1>e DEF TypeOK, File
<1>2. meta' \in File(Manifest) /\ wal' \in File(WalContent)
  BY <1>b, <1>c, <1>1 DEF File, Fresh
<1>3. ht' \in [Pages -> File(Seqn)] /\ ln' \in [Slots -> File(Seqn)]
  BY <1>d, <1>e, <1>1 DEF File, Fresh
<1>4. FilesOK'
  <2>1. \A v : Fresh(v).now = v /\ Fresh(v).may = {v}
    BY DEF Fresh
  <2>2. meta'.now \in meta'.may /\ meta'.may = {meta'.now} /\ wal'.now \in wal'.may
    BY <1>b, <1>c, <2>1
  <2>3. /\ \A p \in Pages : ht'[p].now \in ht'[p].may /\ ht'[p].may = {ht'[p].now}
        /\ \A s \in Slots : ln'[s].now \in ln'[s].may
    BY <1>f, <2>1
  <2> QED BY <2>2, <2>3 DEF FilesOK
<1>5. \A v : LeftIf(Lossy', Fresh(v)) = {v}
  BY DEF LeftIf, Fresh
<1>6. /\ Left(meta)' = {m} /\ Left(wal)' = {w}
      /\ \A p \in Pages : Left(ht[p])' = {h[p]}
      /\ \A s \in Slots : Left(ln[s])' = {l[s]}
  BY <1>b, <1>c, <1>f, <1>5 DEF Left
<1>7. /\ m \in Left(meta) /\ w \in Left(wal)
      /\ \A p \in Pages : h[p] \in Left(ht[p])
      /\ \A s \in Slots : l[s] \in Left(ln[s])
  BY <1>a, <1>d, <1>e DEF Left, LeftIf
<1>8. /\ Left(meta)' \subseteq Left(meta) /\ Left(wal)' \subseteq Left(wal)
      /\ \A p \in Pages : Left(ht[p])' \subseteq Left(ht[p])
      /\ \A s \in Slots : Left(ln[s])' \subseteq Left(ln[s])
  BY ZenonT(30), <1>6, <1>7
<1> QED BY <1>a, <1>2, <1>3, <1>4, <1>8, CrashStep

\* The end of the process leaves the files as they are.
LEMMA KillStep ==
  ASSUME Safe, IInv, Kill
  PROVE  IInv'
<1>0. TypeOK /\ FilesOK
  BY DEF IInv
<1>a. Stopped /\ UNCHANGED <<meta, wal, ht, ln>>
  BY DEF Kill, files
<1>b. Lossy' => Lossy
  <2>1. crashes' # 0
    BY <1>0, <1>a DEF Stopped, TypeOK
  <2> QED BY <2>1 DEF Lossy
<1>c. \A f : f.now \in f.may => LeftIf(Lossy', f) \subseteq LeftIf(Lossy, f)
  BY <1>b DEF LeftIf
<1>1. FilesOK'
  BY <1>0, <1>a DEF FilesOK
<1>2. /\ Left(meta)' \subseteq Left(meta) /\ Left(wal)' \subseteq Left(wal)
      /\ \A p \in Pages : Left(ht[p])' \subseteq Left(ht[p])
      /\ \A s \in Slots : Left(ln[s])' \subseteq Left(ln[s])
  BY <1>0, <1>a, <1>c DEF Left, FilesOK
<1>3. /\ meta' \in File(Manifest) /\ wal' \in File(WalContent)
      /\ ht' \in [Pages -> File(Seqn)] /\ ln' \in [Slots -> File(Seqn)]
  BY <1>0, <1>a DEF TypeOK
<1> QED BY <1>a, <1>1, <1>2, <1>3, CrashStep


\* While the store recovers, only one content of the manifest and of each hash
\* table page can be found.
LEMMA Settled ==
  ASSUME Safe, FilesOK, PhaseInv, TypeOK, pc \in Recovering \cup {"down"}
  PROVE  Left(meta) = {meta.now} /\ \A p \in Pages : Left(ht[p]) = {ht[p].now}
<1>1. crashes # 0
  BY DEF PhaseInv, TypeOK
<1> QED BY <1>1, StoreAssumption DEF StoreAssumption, Safe, FilesOK, Left, LeftIf, Lossy

\* Opening reads the manifest and looks at the WAL.
LEMMA OpenStep ==
  ASSUME Safe, IInv, Open
  PROVE  IInv'
<1>0. TypeOK /\ FilesOK /\ PhaseInv /\ MetaInv /\ FreeInv /\ HistInv /\ BeatreeInv /\ WalInv /\ HtInv /\ Recoverable /\ OpenFailsNeedlessly
  BY DEF IInv
<1>a. /\ pc = "down" /\ sync_seqn' = meta.now.seqn
      /\ index' = meta.now.index /\ bbn_index' = meta.now.index /\ free' = meta.now.free
      /\ UNCHANGED <<meta, wal, ht, ln, bb, bt, poisoned, chg, alloc, acked, hist, crashes, readers>>
  BY DEF Open, files
<1>b. \/ pc' = "idle" /\ wal.now = EmptyWal
      \/ pc' = "redo" /\ wal.now # EmptyWal /\ wal.now.seqn = meta.now.seqn /\ todo' = DOMAIN wal.now.tr
      \/ pc' = "redo_trunc" /\ wal.now.seqn # meta.now.seqn
      \/ pc' = "open_failed" /\ ~wal.now.head
  BY DEF Open
<1>c. todo' = {} \/ todo' = DOMAIN wal.now.tr
  BY DEF Open
<1>d. bt = "off" /\ bb = "off" /\ ~poisoned
  BY <1>0, <1>a DEF PhaseInv, Waiting, TypeOK
<1>e. pc' \in {"idle", "redo", "redo_trunc", "open_failed"}
  BY SMTT(180), <1>b
<1>f. /\ Left(meta)' = {meta.now} /\ Left(meta) = {meta.now} /\ wal.now \in Left(wal)
      /\ \A p \in Pages : Left(ht[p])' = Left(ht[p])
  BY SMTT(180), <1>0, <1>a, Settled, LeftType DEF Left, Lossy
<1>1. TypeOK'
  <2>1. meta.now \in Manifest /\ wal.now \in WalContent
    BY <1>0 DEF TypeOK, File
  <2>2. todo' \in SUBSET (Keys \cup Pages)
    BY SMTT(180), <1>c, <2>1, DeltaType DEF WalContent
  <2> QED BY <1>0, <1>a, <1>e, <2>1, <2>2 DEF TypeOK, Manifest
<1>2. FilesOK'
  BY <1>0, <1>a DEF FilesOK
<1>3. PhaseInv'
  BY <1>0, <1>a, <1>d, <1>e DEF PhaseInv, Before, After, Recovering, Waiting
<1>4. MetaInv'
  <2>1. meta.now = Base'
    BY <1>0, <1>a DEF TypeOK, File, Manifest, Base
  <2>2. meta.now.seqn >= acked'
    BY <1>0, <1>a, <1>f DEF MetaInv
  <2> QED BY <1>d, <1>a, <1>e, <1>f, <2>1, <2>2 DEF MetaInv, Before, After, Recovering, Waiting, Serving
<1>5. FreeInv'
  BY <1>0, <1>a, <1>d, <1>e DEF FreeInv, Left, Lossy, InUse, Before, After, Waiting
<1>6. HistInv'
  BY <1>a, <1>d, <1>e DEF HistInv, Before, After, Waiting
<1>7. BeatreeInv'
  BY <1>a, <1>d, <1>e DEF BeatreeInv, After
<1>8. WalInv'
  <2>1. \A m \in Left(meta)', w \in Left(wal)' : w.seqn = m.seqn /\ w # EmptyWal => w.whole
    BY <1>0, <1>a DEF WalInv, Left, Lossy
  <2> QED BY <1>a, <1>b, <1>d, <2>1 DEF WalInv
<1>9. HtInv'
  <2>1. PagesGood(meta.now, wal.now)
    BY <1>0, <1>f DEF Recoverable
  <2>2. CASE pc' \in {"idle", "redo_trunc"}
    <3>1. wal.now.seqn # meta.now.seqn \/ DOMAIN wal.now.tr = {}
      BY <1>b, <2>2, WalFields
    <3>2. PagesExact(sync_seqn)'
      BY <1>a, <1>f, <2>1, <3>1 DEF PagesGood, PagesExact
    <3> QED BY <2>2, <3>2 DEF HtInv
  <2>3. CASE pc' = "redo"
    BY SMTT(180), <1>a, <1>b, <2>3 DEF HtInv, Before, Waiting, Serving
  <2>4. CASE pc' = "open_failed"
    BY SMTT(180), <2>4 DEF HtInv, Before, Waiting, Serving
  <2> QED BY <1>e, <2>2, <2>3, <2>4
<1>10. Recoverable'
  BY SMTT(180), <1>0, <1>a DEF Recoverable, LeavesGood, PagesGood, Left, Lossy
<1>11. OpenFailsNeedlessly'
  <2> SUFFICES ASSUME pc' = "open_failed"
               PROVE  /\ ~wal.now.head /\ wal.now.seqn # meta.now.seqn
                      /\ \A p \in Pages : ht[p].now = hist[meta.now.seqn].tr[p]
    BY <1>a DEF OpenFailsNeedlessly
  <2>1. ~wal.now.head
    BY <1>b
  <2>2. wal.now \in WalContent /\ wal.now # EmptyWal
    BY <1>0, <2>1 DEF TypeOK, File, EmptyWal
  <2>3. wal.now.seqn # meta.now.seqn
    BY <1>0, <1>f, <2>1, <2>2 DEF WalInv, WalContent
  <2>4. PagesGood(meta.now, wal.now)
    BY <1>0, <1>f DEF Recoverable
  <2> QED BY <1>0, <2>1, <2>3, <2>4, LeftType DEF PagesGood
<1> QED BY <1>1, <1>2, <1>3, <1>4, <1>5, <1>6, <1>7, <1>8, <1>9, <1>10, <1>11 DEF IInv

\* Recovery writes a page of the WAL to the hash table.
LEMMA RedoStep ==
  ASSUME NEW p \in Pages, Safe, IInv, Redo(p)
  PROVE  IInv'
<1>0. TypeOK /\ FilesOK /\ PhaseInv /\ MetaInv /\ FreeInv /\ HistInv /\ BeatreeInv /\ WalInv /\ HtInv /\ Recoverable /\ OpenFailsNeedlessly
  BY DEF IInv
<1>a. /\ pc = "redo" /\ p \in todo /\ ht' = [ht EXCEPT ![p] = PageWritten(@, wal.now.tr[p])]
      /\ todo' = todo \ {p}
      /\ UNCHANGED <<meta, wal, ln, pc, bb, bt, sync_seqn, poisoned, chg, index, free, bbn_index, alloc, acked, hist, crashes, readers>>
  BY DEF Redo, RecoveryUnchanged
<1>b. todo \subseteq DOMAIN wal.now.tr /\ wal.now.tr[p] \in Seqn /\ DOMAIN wal.now.tr \subseteq Pages
  <2>1. wal.now.tr \in Delta(Pages)
    BY SMTT(180), <1>0 DEF TypeOK, File, WalContent
  <2> QED BY <1>0, <1>a, <2>1, DeltaType DEF HtInv
<1>c. /\ ht' \in [Pages -> File(Seqn)]
      /\ ht'[p] = PageWritten(ht[p], wal.now.tr[p])
      /\ \A q \in Pages : q # p => ht'[q] = ht[q]
  BY SMTT(180), <1>0, <1>a, <1>b, FileOps DEF TypeOK
<1>d. /\ Left(meta) = {meta.now} /\ Left(meta) = {Base} /\ Left(meta)' = Left(meta)
      /\ Left(wal)' = Left(wal) /\ wal.now \in Left(wal)
  BY SMTT(180), <1>0, <1>a, Settled, LeftType DEF Recovering, MetaInv, Left, Lossy
<1>e. wal.now.tr[p] = hist[sync_seqn].tr[p]
  <2>1. meta.now.seqn = sync_seqn /\ PagesGood(meta.now, wal.now)
    BY SMTT(180), <1>0, <1>d DEF Recoverable, Base
  <2> QED BY <1>0, <1>a, <1>b, <2>1 DEF PagesGood, WalInv
<1>f. /\ Left(ht[p])' \subseteq Left(ht[p]) \cup {hist[sync_seqn].tr[p]}
      /\ \A q \in Pages : q # p => Left(ht[q])' = Left(ht[q])
  <2>1. LeftIf(Lossy, PageWritten(ht[p], wal.now.tr[p])) \subseteq LeftIf(Lossy, ht[p]) \cup {wal.now.tr[p]}
    BY SMTT(180), <1>0, LeftOps, LossyType DEF FilesOK
  <2> QED BY SMTT(180), <1>a, <1>c, <1>e, <2>1 DEF Left, Lossy
<1>1. TypeOK'
  BY SMTT(180), <1>0, <1>a, <1>c DEF TypeOK
<1>2. FilesOK'
  BY <1>0, <1>a, <1>c, NowOps DEF FilesOK
<1>3. PhaseInv'
  BY <1>0, <1>a DEF PhaseInv
<1>4. MetaInv'
  BY ZenonT(60), <1>0, <1>a DEF MetaInv, Left, Lossy, Base, Top, NewFree, NewMeta, InUse, Serving
<1>5. FreeInv'
  BY <1>0, <1>a DEF FreeInv, Left, Lossy, InUse
<1>6. HistInv'
  BY <1>0, <1>a DEF HistInv, Target
<1>7. BeatreeInv'
  BY <1>0, <1>a DEF BeatreeInv, LeavesDurable, InUse, Left, Lossy, After, PhaseInv, Waiting
<1>8. WalInv'
  BY SMTT(180), <1>0, <1>a DEF WalInv, Left, Lossy
<1>9. HtInv'
  <2>1. \A q \in DOMAIN wal.now.tr \ todo' : ht'[q].now = wal.now.tr[q]
    BY <1>0, <1>a, <1>b, <1>c, NowOps DEF HtInv
  <2> QED BY ZenonT(30), <1>a, <1>b, <2>1 DEF HtInv, Before, Waiting, Serving
<1>10. Recoverable'
  <2>1. ASSUME NEW m \in Left(meta) PROVE LeavesGood(m)'
    BY ZenonT(30), <1>0, <1>a, <2>1 DEF Recoverable, LeavesGood, Left, Lossy
  <2>2. ASSUME NEW m \in Left(meta), NEW w \in Left(wal) PROVE PagesGood(m, w)'
    <3>1. PagesGood(m, w) /\ m.seqn = sync_seqn
      BY <1>0, <1>d DEF Recoverable, Base
    <3>2. \A q \in Pages : \A v \in Left(ht[q])' : v \in Left(ht[q]) \/ v = hist[sync_seqn].tr[q]
      BY <1>f
    <3> QED BY ZenonT(30), <1>a, <3>1, <3>2 DEF PagesGood
  <2> QED BY SMTT(180), <1>d, <2>1, <2>2 DEF Recoverable
<1>11. OpenFailsNeedlessly'
  BY SMTT(180), <1>a DEF OpenFailsNeedlessly
<1> QED BY <1>1, <1>2, <1>3, <1>4, <1>5, <1>6, <1>7, <1>8, <1>9, <1>10, <1>11 DEF IInv

\* Recovery has written all pages of the WAL.
LEMMA RedoEndStep ==
  ASSUME Safe, IInv, RedoEnd
  PROVE  IInv'
<1>0. TypeOK /\ FilesOK /\ PhaseInv /\ MetaInv /\ FreeInv /\ HistInv /\ BeatreeInv /\ WalInv /\ HtInv /\ Recoverable /\ OpenFailsNeedlessly
  BY DEF IInv
<1>d. /\ pc = "redo" /\ todo = {} /\ pc' = IF wal.now.whole THEN "redo_trunc" ELSE "open_failed"
      /\ UNCHANGED <<meta, wal, ht, ln, bb, bt, sync_seqn, poisoned, chg, index, free, bbn_index, alloc, todo, acked, hist, crashes, readers>>
  BY SMTT(180) DEF RedoEnd, RecoveryUnchanged, files
<1>b. /\ Left(meta) = {meta.now} /\ meta.now.seqn = sync_seqn
      /\ wal.now \in Left(wal) /\ wal.now.seqn = sync_seqn /\ wal.now # EmptyWal
      /\ \A p \in Pages : Left(ht[p]) = {ht[p].now}
  BY <1>0, <1>d, Settled, LeftType DEF Recovering, MetaInv, Base, WalInv
<1>a. /\ pc = "redo" /\ todo = {} /\ pc' = "redo_trunc"
      /\ UNCHANGED <<meta, wal, ht, ln, bb, bt, sync_seqn, poisoned, chg, index, free, bbn_index, alloc, todo, acked, hist, crashes, readers>>
  <2>1. wal.now.whole
    BY SMTT(180), <1>0, <1>b DEF WalInv
  <2> QED BY <1>d, <2>1
<1>1. TypeOK'
  BY SMTT(180), <1>0, <1>a DEF TypeOK
<1>2. FilesOK'
  BY ZenonT(30), <1>0, <1>a DEF FilesOK
<1>3. PhaseInv'
  BY SMTT(180), <1>0, <1>a DEF PhaseInv, Before, After, Recovering, Waiting
<1>4. MetaInv'
  BY <1>0, <1>a DEF MetaInv, Left, Lossy, Base, Before, After, Recovering, Waiting, Serving
<1>5. FreeInv'
  BY SMTT(180), <1>0, <1>a DEF FreeInv, Left, Lossy, InUse, Before, After, Waiting
<1>6. HistInv'
  BY SMTT(180), <1>0, <1>a DEF HistInv, Target, Before, After, Waiting
<1>7. BeatreeInv'
  BY SMTT(180), <1>0, <1>a DEF BeatreeInv, LeavesDurable, InUse, Left, Lossy, After, PhaseInv, Waiting
<1>8. WalInv'
  BY SMTT(180), <1>0, <1>a DEF WalInv, Left, Lossy
<1>9. HtInv'
  <2>1. PagesGood(meta.now, wal.now)
    BY SMTT(180), <1>0, <1>b DEF Recoverable
  <2>2. \A p \in Pages : ht[p].now = hist[sync_seqn].tr[p]
    <3> SUFFICES ASSUME NEW p \in Pages PROVE ht[p].now = hist[sync_seqn].tr[p]
      OBVIOUS
    <3>1. CASE p \in DOMAIN wal.now.tr
      <4>1. ht[p].now = wal.now.tr[p]
        BY SMTT(180), <1>0, <1>a, <3>1 DEF HtInv
      <4> QED BY SMTT(180), <1>b, <2>1, <3>1, <4>1 DEF PagesGood
    <3>2. CASE p \notin DOMAIN wal.now.tr
      BY SMTT(180), <1>b, <2>1, <3>2 DEF PagesGood
    <3> QED BY <3>1, <3>2
  <2>3. PagesExact(sync_seqn)'
    BY <1>a, <1>b, <2>2 DEF PagesExact, Left, Lossy
  <2> QED BY SMTT(180), <1>a, <2>3 DEF HtInv
<1>10. Recoverable'
  <2>1. /\ Left(meta)' = Left(meta) /\ Left(wal)' = Left(wal)
        /\ \A f : LeftIf(Lossy', f) = LeftIf(Lossy, f)
    BY SMTT(180), <1>a DEF Left, Lossy
  <2>2. ASSUME NEW m \in Left(meta) PROVE LeavesGood(m)'
    <3>1. LeavesGood(m)
      BY SMTT(180), <1>0 DEF Recoverable
    <3> QED BY <1>a, <2>1, <3>1 DEF LeavesGood, Left
  <2>3. ASSUME NEW m \in Left(meta), NEW w \in Left(wal) PROVE PagesGood(m, w)'
    <3>1. PagesGood(m, w)
      BY <1>0 DEF Recoverable
    <3> QED BY <1>a, <2>1, <3>1 DEF PagesGood, Left
  <2> QED BY <2>1, <2>2, <2>3 DEF Recoverable
<1>11. OpenFailsNeedlessly'
  BY <1>a DEF OpenFailsNeedlessly
<1> QED BY <1>1, <1>2, <1>3, <1>4, <1>5, <1>6, <1>7, <1>8, <1>9, <1>10, <1>11 DEF IInv

\* Recovery empties the WAL, then fsyncs it.
LEMMA RedoWalStep ==
  ASSUME Safe, IInv, RedoTruncate \/ RedoFsync
  PROVE  IInv'
<1>0. TypeOK /\ FilesOK /\ PhaseInv /\ MetaInv /\ FreeInv /\ HistInv /\ BeatreeInv /\ WalInv /\ HtInv /\ Recoverable /\ OpenFailsNeedlessly
  BY DEF IInv
<1>a. /\ pc \in {"redo_trunc", "redo_fsync"} /\ pc' \in {"redo_fsync", "idle"}
      /\ wal' = Written(wal, EmptyWal) \/ wal' = Synced(wal)
      /\ UNCHANGED <<meta, ht, ln, bb, bt, sync_seqn, poisoned, chg, index, free, bbn_index, alloc, todo, acked, hist, crashes, readers>>
  BY SMTT(180) DEF RedoTruncate, RedoFsync, RecoveryUnchanged
<1>b. bt = "off" /\ bb = "off" /\ ~poisoned
  BY <1>0, <1>a DEF PhaseInv, Waiting, TypeOK
<1>c. /\ PagesExact(sync_seqn) /\ Left(meta) = {Base} /\ Left(meta)' = {Base'}
      /\ \A m \in Left(meta) : m.seqn = sync_seqn
  <2>1. PagesExact(sync_seqn) /\ Left(meta) = {Base}
    BY ZenonT(30), <1>0, <1>a DEF HtInv, MetaInv, Recovering
  <2>2. Base' = Base /\ Left(meta)' = Left(meta) /\ Base.seqn = sync_seqn
    BY SMTT(180), <1>a DEF Base, Left, Lossy
  <2> QED BY SMTT(180), <2>1, <2>2
<1>d. Left(wal)' \subseteq Left(wal) \cup {EmptyWal}
  BY ZenonT(30), <1>0, <1>a, LeftOps, LossyType DEF Left, Lossy, FilesOK
<1>e. /\ Recoverable'
      /\ \A m \in Left(meta)', w \in Left(wal)' : w.seqn = m.seqn /\ w # EmptyWal => w.whole
  BY Zenon, <1>0, <1>a, <1>c, <1>d, WalGrows
<1>f. wal' \in File(WalContent) /\ wal'.now \in wal'.may
  <2>1. wal \in File(WalContent) /\ EmptyWal \in WalContent
    BY <1>0, WalTypes DEF TypeOK
  <2> QED BY SMTT(180), <1>a, <2>1, FileOps, SyncedType, NowOps
<1>1. TypeOK'
  BY ZenonT(30), <1>0, <1>a, <1>f DEF TypeOK
<1>2. FilesOK'
  BY ZenonT(30), <1>0, <1>a, <1>f DEF FilesOK
<1>3. PhaseInv'
  BY SMTT(180), <1>0, <1>a, <1>b DEF PhaseInv, Before, After, Recovering, Waiting
<1>4. MetaInv'
  <2>1. Base.seqn >= acked'
    BY <1>0, <1>a, <1>c DEF MetaInv
  <2>2. Base = Base'
    BY SMTT(180), <1>a DEF Base
  <2>3. pc' # "meta_fsync" /\ pc' \notin After
    BY <1>a DEF After
  <2>4. \A m \in Left(meta)' : m.seqn >= acked'
    BY <1>c, <2>1, <2>2
  <2> QED BY <1>c, <2>3, <2>4 DEF MetaInv
<1>5. FreeInv'
  BY <1>0, <1>a, <1>b DEF FreeInv, Left, Lossy, InUse, Before, After, Waiting
<1>6. HistInv'
  BY <1>a, <1>b DEF HistInv, Before, After, Waiting
<1>7. BeatreeInv'
  BY SMTT(180), <1>a, <1>b DEF BeatreeInv, After
<1>8. WalInv'
  BY SMTT(180), <1>a, <1>b, <1>e DEF WalInv
<1>9. HtInv'
  BY <1>a, <1>c DEF HtInv, PagesExact, Left, Lossy
<1>10. OpenFailsNeedlessly'
  BY <1>a DEF OpenFailsNeedlessly
<1> QED BY <1>e, <1>1, <1>2, <1>3, <1>4, <1>5, <1>6, <1>7, <1>8, <1>9, <1>10 DEF IInv


\* Whether read transactions are open, and the end of the wait for them, do not
\* matter to the invariant.
LEMMA QuietTask ==
  ASSUME IInv, readers' \in Nat, bt' = bt \/ (bt = "wait" /\ bt' = "write"),
         UNCHANGED <<meta, wal, ht, ln, pc, bb, sync_seqn, poisoned, chg, index, free, bbn_index,
                     alloc, todo, acked, hist, crashes>>
  PROVE  IInv'
<1>0. TypeOK /\ FilesOK /\ PhaseInv /\ MetaInv /\ FreeInv /\ HistInv /\ BeatreeInv /\ WalInv /\ HtInv /\ Recoverable /\ OpenFailsNeedlessly
  BY DEF IInv
<1>a. /\ bt # "off" <=> bt' # "off"
      /\ bt = "done" <=> bt' = "done"
      /\ bt' \in {"wait", "write"} => bt \in {"wait", "write"}
  OBVIOUS
<1>1. TypeOK' /\ FilesOK'
  BY ZenonT(60), <1>0 DEF TypeOK, FilesOK
<1>2. PhaseInv'
  BY <1>0, <1>a DEF PhaseInv
<1>b. /\ Left(meta)' = Left(meta) /\ Left(wal)' = Left(wal)
      /\ \A p \in Pages : Left(ht[p])' = Left(ht[p])
      /\ \A s \in Slots : Left(ln[s])' = Left(ln[s])
  BY SameFiles
<1>c. Base' = Base /\ Top' = Top /\ NewMeta' = NewMeta
  BY SameManifest
<1>3. MetaInv'
  BY <1>0, <1>a, <1>b, <1>c DEF MetaInv, Serving
<1>4. FreeInv'
  BY ZenonT(30), <1>0, <1>a, <1>b DEF FreeInv
<1>5. HistInv'
  BY <1>0, <1>a DEF HistInv, Target
<1>d. LeavesWritten' = LeavesWritten /\ \A n : LeavesDurable(n)' = LeavesDurable(n)
  BY DEF LeavesWritten, LeavesDurable, InUse, Left, Lossy
<1>6. BeatreeInv'
  BY <1>0, <1>a, <1>d DEF BeatreeInv
<1>7. WalInv' /\ HtInv'
  BY ZenonT(30), <1>0, <1>a DEF WalInv, HtInv, PagesExact, Left, Lossy, Serving
<1>8. Recoverable'
  BY <1>0, <1>b, Shrink
<1>9. OpenFailsNeedlessly'
  BY <1>0 DEF OpenFailsNeedlessly
<1> QED BY <1>1, <1>2, <1>3, <1>4, <1>5, <1>6, <1>7, <1>8, <1>9 DEF IInv

\* A step that changes nothing keeps the invariant.
LEMMA StutterStep ==
  ASSUME IInv, UNCHANGED vars PROVE IInv'
<1>1. readers' \in Nat /\ bt' = bt
  BY DEF vars, IInv, TypeOK
<1> QED BY <1>1, QuietTask DEF vars, files, mem

\* The beatree half has waited for the last read transaction.
LEMMA BlockUntilZeroStep ==
  ASSUME IInv, BlockUntilZero PROVE IInv'
<1>1. readers' \in Nat /\ bt = "wait" /\ bt' = "write"
  BY DEF IInv, TypeOK, BlockUntilZero, BeatreeUnchanged
<1> QED BY <1>1, QuietTask DEF BlockUntilZero, BeatreeUnchanged, files

\* A read transaction begins or ends.
LEMMA ReadersStep ==
  ASSUME IInv, BeginRead \/ EndRead PROVE IInv'
<1>1. readers \in Nat
  BY DEF IInv, TypeOK
<1>2. readers' \in Nat /\ bt' = bt
  BY <1>1 DEF BeginRead, EndRead
<1>3. UNCHANGED <<files, pc, bb, bt, mem, acked, hist, crashes>>
  BY DEF BeginRead, EndRead
<1> QED BY <1>2, <1>3, QuietTask DEF files, mem

\* Every step keeps the invariant.
LEMMA NextStep ==
  ASSUME Safe, IInv, [Next]_vars PROVE IInv'
<1>1. CASE \E c \in Changes(sync_seqn + 1) : Commit(c)
  BY <1>1, CommitStep
<1>2. CASE BitboxTask
  BY <1>2, WalTruncateStep, WalWriteStep, WalFsyncStep, BitboxErrorStep DEF BitboxTask
<1>3. CASE BeatreeTask
  BY <1>3, BlockUntilZeroStep, WriteLeafStep, DropLeafStep, BeatreeFsyncStep, BeatreeErrorStep DEF BeatreeTask
<1>4. CASE SyncThread
  BY <1>4, WaitBitboxStep, WaitBeatreeStep, MetaWriteStep, MetaFsyncStep, HtWriteStep,
     HtFsyncStep, WalCollapseStep, FinishSyncStep, SyncErrorStep DEF SyncThread
<1>5. CASE PowerLoss
  BY <1>5, PowerLossStep
<1>6. CASE Kill
  BY <1>6, KillStep
<1>7. CASE Recovery
  BY <1>7, OpenStep, RedoStep, RedoEndStep, RedoWalStep DEF Recovery
<1>8. CASE UNCHANGED vars
  BY <1>8, StutterStep
<1>9. CASE BeginRead \/ EndRead
  BY <1>9, ReadersStep
<1> QED BY <1>1, <1>2, <1>3, <1>4, <1>5, <1>6, <1>7, <1>8, <1>9 DEF Next

\* IInv holds in every reachable state: no interleaving of the bitbox task, the
\* beatree task, the sync thread, crashes and recovery breaks it.
THEOREM InductiveInvariant ==
  ASSUME Safe PROVE Spec => []IInv
<1>1. Init => IInv
  BY InitStep
<1>2. IInv /\ [Next]_vars => IInv'
  BY NextStep
<1> QED BY <1>1, <1>2, PTL DEF Spec

\* The variables keep their types, as do the contents of the files.
THEOREM TypeCorrect ==
  ASSUME Safe PROVE Spec => []TypeOK
<1>1. IInv => TypeOK
  BY SMTT(180) DEF IInv
<1> QED BY <1>1, InductiveInvariant, PTL

\* Whenever no sync runs, the open store holds exactly the state of the sync
\* its manifest names, in the value store and in the hash table file alike.
THEOREM Consistency ==
  ASSUME Safe PROVE Spec => []ConsistentWhenIdle
<1>1. ASSUME IInv, pc = "idle", ~poisoned
      PROVE  /\ sync_seqn = meta.now.seqn
             /\ \A k \in Keys : Value(index, k) = hist[sync_seqn].kv[k]
             /\ \A p \in Pages : ht[p].now = hist[sync_seqn].tr[p]
  <2>0. TypeOK /\ FilesOK /\ MetaInv /\ HtInv /\ Recoverable
    BY <1>1 DEF IInv
  <2>1. Left(meta) = {Base} /\ meta.now \in Left(meta)
    BY SMTT(180), <1>1, <2>0, LeftType DEF MetaInv, Serving
  <2>2. sync_seqn = meta.now.seqn /\ LeavesGood(Base) /\ Base.index = index /\ Base.seqn = sync_seqn
    BY SMTT(180), <2>0, <2>1 DEF Base, Recoverable
  <2>3. ASSUME NEW k \in Keys PROVE Value(index, k) = hist[sync_seqn].kv[k]
    <3>1. index[k] = NIL \/ index[k] \in Slots
      BY SMTT(180), <2>0 DEF TypeOK
    <3>2. index[k] \in Slots => ln[index[k]].now \in Left(ln[index[k]])
      BY ZenonT(30), <2>0, LeftType
    <3> QED BY SMTT(180), <2>2, <3>1, <3>2 DEF LeavesGood, Value
  <2>4. ASSUME NEW p \in Pages PROVE ht[p].now = hist[sync_seqn].tr[p]
    BY SMTT(180), <1>1, <2>0, LeftType DEF HtInv, PagesExact, Serving
  <2> QED BY <2>2, <2>3, <2>4
<1>2. IInv => ConsistentWhenIdle
  BY <1>1 DEF ConsistentWhenIdle
<1> QED BY <1>2, InductiveInvariant, PTL

\* Once Store::commit has returned, no crash takes the manifest back.
THEOREM Durability ==
  ASSUME Safe PROVE Spec => []Durable
<1>1. IInv => Durable
  BY DEF IInv, MetaInv, Durable
<1> QED BY <1>1, InductiveInvariant, PTL

\* Every combination of file contents a crash may leave can be brought back to
\* the state of the sync the manifest names.
THEOREM Recoverability ==
  ASSUME Safe PROVE Spec => []Recoverable
<1>1. IInv => Recoverable
  BY DEF IInv
<1> QED BY <1>1, InductiveInvariant, PTL

\* Bitbox's recovery never meets a torn WAL of the sync the manifest names. The
\* one thing Store::open fails on is a WAL whose first page is not there, and it
\* is then the WAL of a sync that never took effect: the hash table is exactly
\* the state of the manifest, so nothing was left to recover from that WAL.
THEOREM OpenFailures ==
  ASSUME Safe PROVE Spec => []OpenFailsNeedlessly
<1>1. IInv => OpenFailsNeedlessly
  BY DEF IInv
<1> QED BY <1>1, InductiveInvariant, PTL
=============================================================================
