--------------------- MODULE StoreSyncRefinementProofs ---------------------
(***************************************************************************)
(* StoreSync implements AtomicStore: every step of a sync, a crash or a    *)
(* recovery is a step of the atomic store or leaves it as it is.           *)
(***************************************************************************)
EXTENDS StoreSyncProofs

\* At most two manifests may be found: the one in effect and, from the write of
\* the manifest to the end of its fsync or after an error of either, the next.
OneManifest == \E m \in Manifest : Left(meta) = {m}
TwoManifests ==
  /\ pc = "meta_fsync" \/ poisoned
  /\ sync_seqn + 1 \in Seqn
  /\ \E m, o \in Manifest :
       m.seqn = sync_seqn /\ o.seqn = sync_seqn + 1 /\ Left(meta) = {m, o}
ManifestInv == OneManifest \/ TwoManifests

Running == {"wait_bitbox", "wait_beatree", "meta_write", "meta_fsync"}

\* The variables of the atomic store, as functions of those they depend on.
DbOf(h, L) == h[Oldest(L).seqn]
NextOf(h, L, n, p, z) ==
  IF \/ p \in Running /\ Oldest(L).seqn = n
     \/ z /\ \E m \in L : m # Oldest(L)
    THEN h[n + 1] ELSE NIL
Served == [kv |-> [k \in Keys |-> Value(index, k)], tr |-> [p \in Pages |-> ht[p].now]]

Db == DbOf(hist, Left(meta))
Pending == NextOf(hist, Left(meta), sync_seqn, pc, poisoned)
View == IF pc = "idle" /\ ~poisoned THEN Served ELSE NIL

\* What a step may do to them.
Stays == Db' = Db /\ Pending' = Pending /\ View' = View
Begins == View # NIL /\ Pending' \in State /\ View' = NIL /\ Db' = Db
Effects == Pending # NIL /\ Db' = Pending /\ Pending' = NIL /\ View' = View
Serves == View = NIL /\ Pending = NIL /\ View' = Db /\ Db' = Db /\ Pending' = NIL
Stops == View' = NIL /\ Pending' = NIL /\ (Db' = Db \/ (Pending # NIL /\ Db' = Pending))
AtomicStep == Stays \/ Begins \/ Effects \/ Serves \/ Stops

\* Such a step is a step of the atomic store.
LEMMA StepOfAtomic ==
  ASSUME AtomicStep PROVE [Atomic!Next]_(Atomic!vars)
<1> DEFINE
  D == hist[InEffect.seqn]
  N == IF InProgress \/ Ambiguous THEN hist[sync_seqn + 1] ELSE NIL
  V == IF pc = "idle" /\ ~poisoned
         THEN [kv |-> [k \in Keys |-> Value(index, k)], tr |-> [p \in Pages |-> ht[p].now]]
         ELSE NIL
<1>1. Db = D /\ Pending = N /\ View = V
  BY DEF Db, DbOf, Pending, NextOf, View, Served, InEffect, InProgress, Ambiguous, Running
<1>2. Db' = D' /\ Pending' = N' /\ View' = V'
  BY DEF Db, DbOf, Pending, NextOf, View, Served, InEffect, InProgress, Ambiguous, Running
<1> HIDE DEF D, N, V
<1>3. \/ D' = D /\ N' = N /\ V' = V
      \/ V # NIL /\ N' \in State /\ V' = NIL /\ D' = D
      \/ N # NIL /\ D' = N /\ N' = NIL /\ V' = V
      \/ V = NIL /\ N = NIL /\ V' = D /\ D' = D /\ N' = N
      \/ V' = NIL /\ N' = NIL /\ D' \in {D} \cup ({N} \ {NIL})
  BY <1>1, <1>2 DEF AtomicStep, Stays, Begins, Effects, Serves, Stops
<1>4. CASE D' = D /\ N' = N /\ V' = V
  BY <1>4 DEF Atomic!vars, D, N, V
<1>5. CASE V # NIL /\ N' \in State /\ V' = NIL /\ D' = D
  BY <1>5 DEF Atomic!Next, Atomic!Begin, D, N, V
<1>6. CASE N # NIL /\ D' = N /\ N' = NIL /\ V' = V
  BY <1>6 DEF Atomic!Next, Atomic!TakeEffect, D, N, V
<1>7. CASE V = NIL /\ N = NIL /\ V' = D /\ D' = D /\ N' = N
  BY <1>7 DEF Atomic!Next, Atomic!Serve, D, N, V
<1>8. CASE V' = NIL /\ N' = NIL /\ D' \in {D} \cup ({N} \ {NIL})
  BY <1>8 DEF Atomic!Next, Atomic!Stop, D, N, V
<1> QED BY <1>3, <1>4, <1>5, <1>6, <1>7, <1>8

\* The older of the manifests that may be found.
LEMMA OldestOne ==
  ASSUME NEW m \in Manifest PROVE Oldest({m}) = m
<1>1. m.seqn <= m.seqn
  BY StoreAssumption DEF Manifest, Seqn, StoreAssumption
<1> QED BY <1>1 DEF Oldest

\* Likewise when there are two.
LEMMA OldestTwo ==
  ASSUME NEW m \in Manifest, NEW o \in Manifest, o.seqn = m.seqn + 1
  PROVE  Oldest({m, o}) = m /\ m # o
<1>1. m.seqn \in Int /\ o.seqn \in Int
  BY StoreAssumption DEF Manifest, Seqn, StoreAssumption
<1>2. m.seqn <= m.seqn /\ m.seqn <= o.seqn /\ ~(o.seqn <= m.seqn) /\ m # o
  BY <1>1
<1> QED BY <1>2 DEF Oldest

\* With one manifest, that one is in effect; a running sync that it does not
\* name yet is pending.
LEMMA OneNow ==
  ASSUME NEW m \in Manifest, Left(meta) = {m}
  PROVE  /\ Db = hist[m.seqn]
         /\ pc \in Running /\ m.seqn = sync_seqn => Pending = hist[sync_seqn + 1]
         /\ pc \notin Running \/ m.seqn # sync_seqn => Pending = NIL
<1>1. Oldest(Left(meta)) = m /\ \A x \in Left(meta) : x = m
  BY OldestOne
<1> QED BY <1>1 DEF Db, DbOf, Pending, NextOf

\* The same after a step.
LEMMA OneThen ==
  ASSUME NEW m \in Manifest, Left(meta)' = {m}
  PROVE  /\ Db' = hist'[m.seqn]
         /\ pc' \in Running /\ m.seqn = sync_seqn' => Pending' = hist'[sync_seqn' + 1]
         /\ pc' \notin Running \/ m.seqn # sync_seqn' => Pending' = NIL
<1>1. Oldest(Left(meta)') = m /\ \A x \in Left(meta)' : x = m
  BY OldestOne
<1> QED BY <1>1 DEF Db, DbOf, Pending, NextOf

\* With two, the older one is in effect, and the newer one may still be.
LEMMA TwoNow ==
  ASSUME NEW m \in Manifest, NEW o \in Manifest, Left(meta) = {m, o},
         m.seqn = sync_seqn, o.seqn = sync_seqn + 1, pc \in Running \/ poisoned
  PROVE  Db = hist[sync_seqn] /\ Pending = hist[sync_seqn + 1]
<1>1. Oldest(Left(meta)) = m /\ o # m /\ o \in Left(meta)
  BY OldestTwo
<1> QED BY <1>1 DEF Db, DbOf, Pending, NextOf

\* The same after a step.
LEMMA TwoThen ==
  ASSUME NEW m \in Manifest, NEW o \in Manifest, Left(meta)' = {m, o},
         m.seqn = sync_seqn', o.seqn = sync_seqn' + 1, pc' \in Running \/ poisoned'
  PROVE  Db' = hist'[sync_seqn'] /\ Pending' = hist'[sync_seqn' + 1]
<1>1. Oldest(Left(meta)') = m /\ o # m /\ o \in Left(meta)'
  BY OldestTwo
<1> QED BY <1>1 DEF Db, DbOf, Pending, NextOf

\* Outside a sync's critical steps one manifest is left, of the current sync.
LEMMA Settles ==
  ASSUME IInv
  PROVE  /\ Base \in Manifest /\ Base.seqn = sync_seqn
         /\ pc \in Before \cup Recovering \/ Serving => Left(meta) = {Base}
         /\ pc \in After => /\ Top \in Manifest /\ Top.seqn = sync_seqn
                            /\ Left(meta) = {Top}
<1>0. TypeOK /\ FilesOK /\ MetaInv
  BY DEF IInv
<1>1. Base \in Manifest /\ Base.seqn = sync_seqn
  BY <1>0 DEF Base, Manifest, TypeOK
<1>2. ASSUME pc \in After PROVE Top \in Manifest
  BY <1>0, <1>2, LeftType DEF MetaInv
<1> QED BY <1>0, <1>1, <1>2 DEF MetaInv, Top

\* A state is never the absence of one.
LEMMA HistIsState ==
  ASSUME IInv, NEW n \in Seqn PROVE hist[n] \in State /\ hist[n] # NIL
BY NilAssumption DEF IInv, TypeOK, NilAssumption

\* A step that touches neither the manifest nor the phase of a sync.
LEMMA QuietStep ==
  ASSUME ManifestInv, UNCHANGED <<meta, crashes, hist, sync_seqn, poisoned>>,
         pc \in Running <=> pc' \in Running,
         pc = "meta_fsync" => pc' = pc,
         pc # "idle" \/ poisoned,
         pc' # "idle" \/ poisoned
  PROVE  ManifestInv' /\ AtomicStep
<1>1. Left(meta)' = Left(meta)
  BY DEF Left, Lossy
<1>2. ManifestInv'
  BY <1>1 DEF ManifestInv, OneManifest, TwoManifests
<1>3. Db' = Db
  BY <1>1 DEF Db
<1>4. Pending' = Pending
  BY <1>1 DEF Pending, NextOf
<1>5. View' = View
  BY DEF View
<1> QED BY <1>2, <1>3, <1>4, <1>5 DEF AtomicStep, Stays

\* An error poisons the store while one manifest is left.
LEMMA FailStep ==
  ASSUME IInv, pc \in Before \cup After, UNCHANGED <<meta, crashes, hist, sync_seqn>>,
         pc' = "idle", poisoned' = TRUE
  PROVE  ManifestInv' /\ AtomicStep
<1>1. PICK m \in Manifest : m.seqn = sync_seqn /\ Left(meta) = {m}
  BY Settles
<1>2. Left(meta)' = {m}
  BY <1>1 DEF Left, Lossy
<1>3. Db' = Db
  BY <1>1, <1>2 DEF Db
<1>4. Pending' = NIL
  BY <1>2, OneThen DEF Running
<1>5. View' = NIL
  BY DEF View
<1> QED BY <1>2, <1>3, <1>4, <1>5 DEF AtomicStep, Stops, ManifestInv, OneManifest

\* What an open store serves is the state of the sync its manifest names.
LEMMA ServeStep ==
  ASSUME IInv', ConsistentWhenIdle', hist' = hist, NEW m \in Manifest,
         Left(meta) = {m}, Left(meta)' = {m}, m.seqn = sync_seqn',
         pc \notin Running, pc # "idle", pc' = "idle", ~poisoned'
  PROVE  ManifestInv' /\ AtomicStep
<1>1. Pending = NIL /\ Db = hist[m.seqn]
  BY OneNow DEF Running
<1>2. Pending' = NIL /\ Db' = Db
  <2>1. Pending' = NIL
    BY OneThen DEF Running
  <2> QED BY <2>1 DEF Db
<1>3. View = NIL
  BY DEF View
<1>4. View' = hist[m.seqn]
  <2>1. /\ \A k \in Keys : Value(index, k)' = hist[m.seqn].kv[k]
        /\ \A p \in Pages : ht'[p].now = hist[m.seqn].tr[p]
    BY DEF ConsistentWhenIdle
  <2>2. hist[m.seqn] \in State
    BY DEF IInv, TypeOK, Manifest
  <2>3. View' = Served'
    BY DEF View
  <2>4. Served' = [kv |-> [k \in Keys |-> Value(index, k)'], tr |-> [p \in Pages |-> ht'[p].now]]
    BY DEF Served
  <2>5. /\ [k \in Keys |-> Value(index, k)'] = hist[m.seqn].kv
        /\ [p \in Pages |-> ht'[p].now] = hist[m.seqn].tr
    BY <2>1, <2>2 DEF State
  <2>6. hist[m.seqn] = [kv |-> hist[m.seqn].kv, tr |-> hist[m.seqn].tr]
    BY <2>2 DEF State
  <2> QED BY <2>3, <2>4, <2>5, <2>6
<1>5. ManifestInv'
  BY DEF ManifestInv, OneManifest
<1> QED BY <1>1, <1>2, <1>3, <1>4, <1>5 DEF AtomicStep, Serves

\* A commit begins.
LEMMA CommitAbs ==
  ASSUME NEW c \in Changes(sync_seqn + 1), IInv, IInv', ConsistentWhenIdle, Commit(c)
  PROVE  ManifestInv' /\ AtomicStep
<1>a. /\ Serving /\ pc' = "wait_bitbox" /\ sync_seqn < MaxSync
      /\ UNCHANGED <<meta, crashes, sync_seqn, poisoned, index, free, ht, ln>>
      /\ \E s : hist' = [hist EXCEPT ![sync_seqn + 1] = s]
  BY ZenonT(30) DEF Commit, Serving, files
<1>b. /\ sync_seqn \in Seqn /\ sync_seqn + 1 \in Seqn /\ sync_seqn + 1 # sync_seqn
      /\ hist \in [Seqn -> State] /\ hist' \in [Seqn -> State]
  BY SMTT(180), <1>a, StoreAssumption DEF IInv, TypeOK, Seqn, StoreAssumption
<1>1. Base \in Manifest /\ Base.seqn = sync_seqn /\ Left(meta) = {Base} /\ Left(meta)' = {Base}
  BY <1>a, Settles DEF Left, Lossy
<1>2. Db' = Db
  <2>1. hist'[sync_seqn] = hist[sync_seqn]
    BY <1>a, <1>b
  <2> QED BY <1>1, <2>1, OneNow, OneThen
<1>3. Pending' \in State
  <2>1. Pending' = hist'[sync_seqn + 1]
    BY <1>a, <1>1, OneThen DEF Running
  <2> QED BY <1>b, <2>1
<1>4. View # NIL
  <2>1. View = Served
    BY <1>a DEF View, Serving
  <2>2. Served \in State
    <3>1. /\ \A k \in Keys : Value(index, k) \in Seqn
          /\ \A p \in Pages : ht[p].now \in Seqn
      BY SMTT(180), <1>a, <1>b DEF ConsistentWhenIdle, Serving, State
    <3> QED BY <3>1 DEF Served, State
  <2> QED BY <2>1, <2>2, NilAssumption DEF NilAssumption
<1>5. View' = NIL
  BY <1>a DEF View
<1> QED BY <1>1, <1>2, <1>3, <1>4, <1>5 DEF AtomicStep, Begins, ManifestInv, OneManifest

\* While the manifest is written or fsynced: the two it may be.
LEMMA Switching ==
  ASSUME IInv, pc \in {"meta_write", "meta_fsync"}
  PROVE  /\ Base \in Manifest /\ NewMeta \in Manifest
         /\ Base.seqn = sync_seqn /\ NewMeta.seqn = sync_seqn + 1
         /\ sync_seqn \in Int /\ sync_seqn + 1 \in Seqn
         /\ hist[sync_seqn + 1] # NIL /\ ~poisoned
         /\ pc = "meta_write" => Left(meta) = {Base}
         /\ pc = "meta_fsync" => Left(meta) = {NewMeta} \/ Left(meta) = {Base, NewMeta}
<1>0. TypeOK /\ FilesOK /\ PhaseInv /\ MetaInv
  BY DEF IInv
<1>1. sync_seqn \in Int /\ sync_seqn + 1 \in Seqn /\ ~poisoned
  BY <1>0, StoreAssumption DEF TypeOK, PhaseInv, Before, Seqn, StoreAssumption
<1>2. ASSUME pc = "meta_fsync" PROVE Left(meta) = {NewMeta} \/ Left(meta) = {Base, NewMeta}
  BY <1>0, <1>2, LeftType DEF MetaInv
<1> QED BY <1>1, <1>2, Settles, NewMetaGood, HistIsState DEF Before

\* The manifest is written: it takes effect at once, or may do so.
LEMMA MetaWriteAbs ==
  ASSUME IInv, pc = "meta_write", meta' = PageWritten(meta, NewMeta),
         UNCHANGED <<crashes, hist, sync_seqn>>,
         \/ pc' = "meta_fsync" /\ poisoned' = poisoned
         \/ pc' = "idle" /\ poisoned' = TRUE
  PROVE  ManifestInv' /\ AtomicStep
<1>0. /\ Base \in Manifest /\ NewMeta \in Manifest
      /\ Base.seqn = sync_seqn /\ NewMeta.seqn = sync_seqn + 1
      /\ sync_seqn \in Int /\ sync_seqn + 1 \in Seqn
      /\ hist[sync_seqn + 1] # NIL /\ ~poisoned /\ Left(meta) = {Base}
  BY Switching
<1>1. Left(meta)' = {NewMeta} \/ Left(meta)' = {Base, NewMeta}
  <2>1. Left(meta)' = IF Lossy THEN meta'.may ELSE {NewMeta}
    <3>1. meta'.now = NewMeta
      BY NowOps
    <3>2. Lossy' = Lossy
      BY DEF Lossy
    <3> QED BY <3>1, <3>2 DEF Left, LeftIf
  <2>2. meta'.may = {NewMeta} \/ meta'.may = meta.may \cup {NewMeta}
    BY DEF PageWritten, Fresh, Written
  <2>3. Lossy => meta.may = {Base}
    BY <1>0 DEF Left, LeftIf
  <2> QED BY <2>1, <2>2, <2>3
<1>2. Db = hist[sync_seqn] /\ Pending = hist[sync_seqn + 1] /\ View = NIL /\ View' = NIL
  <2>1. Db = hist[sync_seqn]
    BY <1>0, OneNow DEF Running
  <2>2. Pending = hist[sync_seqn + 1]
    BY <1>0, OneNow DEF Running
  <2> QED BY <2>1, <2>2 DEF View
<1>3. CASE Left(meta)' = {NewMeta}
  <2>1. Db' = hist[sync_seqn + 1]
    BY <1>0, <1>3, OneThen DEF Running
  <2>2. Pending' = NIL
    BY <1>0, <1>3, OneThen DEF Running
  <2>3. ManifestInv'
    BY <1>0, <1>3 DEF ManifestInv, OneManifest
  <2> QED BY <1>0, <1>2, <2>1, <2>2, <2>3 DEF AtomicStep, Effects
<1>4. CASE Left(meta)' = {Base, NewMeta}
  <2>1. Db' = hist[sync_seqn] /\ Pending' = hist[sync_seqn + 1]
    BY <1>0, <1>4, TwoThen DEF Running
  <2>2. ManifestInv'
    BY <1>0, <1>4 DEF ManifestInv, TwoManifests
  <2> QED BY <1>2, <2>1, <2>2 DEF AtomicStep, Stays
<1> QED BY <1>1, <1>3, <1>4

\* The manifest is durable: from here on the commit is in effect.
LEMMA MetaFsyncAbs ==
  ASSUME IInv, MetaFsync PROVE ManifestInv' /\ AtomicStep
<1>a. /\ pc = "meta_fsync" /\ meta' = Synced(meta) /\ pc' = "ht_write"
      /\ sync_seqn' = sync_seqn + 1 /\ UNCHANGED <<poisoned, hist, crashes>>
  BY DEF MetaFsync, MainUnchanged
<1>0. /\ Base \in Manifest /\ NewMeta \in Manifest
      /\ Base.seqn = sync_seqn /\ NewMeta.seqn = sync_seqn + 1
      /\ sync_seqn \in Int /\ sync_seqn + 1 \in Seqn
      /\ hist[sync_seqn + 1] # NIL /\ ~poisoned
      /\ Left(meta) = {NewMeta} \/ Left(meta) = {Base, NewMeta}
  BY <1>a, Switching
<1>1. Left(meta)' = {NewMeta}
  <2>1. meta.now = NewMeta
    BY <1>a DEF IInv, MetaInv
  <2> QED BY <1>a, <2>1 DEF Left, LeftIf, Lossy, Synced
<1>2. View = NIL /\ View' = NIL
  BY <1>a DEF View
<1>3. Db' = hist[sync_seqn + 1]
  BY <1>a, <1>0, <1>1, OneThen DEF Running
<1>4. Pending' = NIL
  BY <1>a, <1>0, <1>1, OneThen DEF Running
<1>5. ManifestInv'
  BY <1>0, <1>1 DEF ManifestInv, OneManifest
<1>6. CASE Left(meta) = {NewMeta}
  <2>1. Db = hist[sync_seqn + 1]
    BY <1>0, <1>6, OneNow DEF Running
  <2>2. Pending = NIL
    BY <1>0, <1>6, OneNow DEF Running
  <2> QED BY <1>2, <1>3, <1>4, <1>5, <2>1, <2>2 DEF AtomicStep, Stays
<1>7. CASE Left(meta) = {Base, NewMeta}
  <2>1. Pending = hist[sync_seqn + 1]
    BY <1>a, <1>0, <1>7, TwoNow DEF Running
  <2> QED BY <1>0, <1>2, <1>3, <1>4, <1>5, <2>1 DEF AtomicStep, Effects
<1> QED BY <1>0, <1>6, <1>7

\* The fsync of the manifest fails: which manifest will be found stays open.
LEMMA MetaFsyncFails ==
  ASSUME IInv, pc = "meta_fsync", pc' = "idle", poisoned' = TRUE,
         UNCHANGED <<meta, crashes, hist, sync_seqn>>
  PROVE  ManifestInv' /\ AtomicStep
<1>0. /\ Base \in Manifest /\ NewMeta \in Manifest
      /\ Base.seqn = sync_seqn /\ NewMeta.seqn = sync_seqn + 1
      /\ sync_seqn \in Int /\ sync_seqn + 1 \in Seqn
      /\ Left(meta) = {NewMeta} \/ Left(meta) = {Base, NewMeta}
  BY Switching
<1>1. Left(meta)' = Left(meta)
  BY DEF Left, Lossy
<1>2. View = NIL /\ View' = NIL
  BY DEF View
<1>3. CASE Left(meta) = {NewMeta}
  <2>1. Db' = Db /\ Pending = NIL /\ Pending' = NIL
    BY <1>0, <1>1, <1>3, OneNow, OneThen
  <2> QED BY <1>0, <1>1, <1>2, <1>3, <2>1 DEF AtomicStep, Stays, ManifestInv, OneManifest
<1>4. CASE Left(meta) = {Base, NewMeta}
  <2>1. Db = hist[sync_seqn] /\ Pending = hist[sync_seqn + 1]
    BY <1>0, <1>4, TwoNow DEF Running
  <2>2. Db' = hist[sync_seqn] /\ Pending' = hist[sync_seqn + 1]
    BY <1>0, <1>1, <1>4, TwoThen
  <2>3. ManifestInv'
    BY <1>0, <1>1, <1>4 DEF ManifestInv, TwoManifests
  <2> QED BY <1>2, <2>1, <2>2, <2>3 DEF AtomicStep, Stays
<1> QED BY <1>0, <1>3, <1>4

\* A crash leaves one of the manifests that may be found: the commit that was
\* under way takes effect as a whole, or not at all.
LEMMA CrashAbs ==
  ASSUME IInv, ManifestInv, Stopped, NEW m \in Left(meta), Left(meta)' = {m}
  PROVE  ManifestInv' /\ AtomicStep
<1>a. pc' = "down" /\ poisoned' = FALSE /\ UNCHANGED <<sync_seqn, hist>>
  BY DEF Stopped
<1>b. m \in Manifest
  BY LeftType DEF IInv
<1>1. Db' = hist[m.seqn]
  BY <1>a, <1>b, OneThen
<1>2. Pending' = NIL
  BY <1>a, <1>b, OneThen DEF Running
<1>3. View' = NIL
  BY <1>a DEF View
<1>4. ManifestInv'
  BY <1>b DEF ManifestInv, OneManifest
<1>5. CASE OneManifest
  <2>1. Left(meta) = {m}
    BY <1>5 DEF OneManifest
  <2>2. Db = hist[m.seqn]
    BY <1>b, <2>1, OneNow
  <2> QED BY <1>1, <1>2, <1>3, <1>4, <2>2 DEF AtomicStep, Stops
<1>6. CASE TwoManifests
  <2>1. PICK b, o \in Manifest :
          b.seqn = sync_seqn /\ o.seqn = sync_seqn + 1 /\ Left(meta) = {b, o}
    BY <1>6 DEF TwoManifests
  <2>2. (pc \in Running \/ poisoned) /\ sync_seqn + 1 \in Seqn
    BY <1>6 DEF TwoManifests, Running
  <2>3. Db = hist[sync_seqn] /\ Pending = hist[sync_seqn + 1]
    BY <2>1, <2>2, TwoNow
  <2>4. m.seqn = sync_seqn \/ m.seqn = sync_seqn + 1
    BY <2>1
  <2>5. Pending # NIL
    BY <2>2, <2>3, HistIsState
  <2> QED BY <1>1, <1>2, <1>3, <1>4, <2>3, <2>4, <2>5 DEF AtomicStep, Stops
<1> QED BY <1>5, <1>6 DEF ManifestInv

\* After a kill only what reads returned is left.
LEMMA KillLeaves ==
  ASSUME Safe, IInv, Kill PROVE meta.now \in Left(meta) /\ Left(meta)' = {meta.now}
<1>1. meta.now \in Left(meta) /\ FilesOK
  BY LeftType DEF IInv
<1>2. meta' = meta /\ crashes' # 0
  BY SMTT(180) DEF Kill, Stopped, files, IInv, TypeOK
<1>3. Lossy' = LossAfterCrash
  BY <1>2, StoreAssumption DEF Lossy, StoreAssumption
<1>4. CASE WriteThrough
  BY <1>1, <1>2, <1>4 DEF FilesOK, Left, LeftIf
<1>5. CASE ~WriteThrough
  BY <1>1, <1>2, <1>3, <1>5 DEF Safe, Left, LeftIf
<1> QED BY <1>1, <1>4, <1>5

\* Steps of the two tasks leave the atomic store as it is.
LEMMA TaskAbs ==
  ASSUME IInv, ManifestInv, BitboxTask \/ BeatreeTask PROVE ManifestInv' /\ AtomicStep
<1>1. UNCHANGED <<meta, crashes, hist, sync_seqn, poisoned, pc>>
  <2>1. CASE BitboxTask
    BY SMTT(180), <2>1 DEF BitboxTask, WalTruncate, WalWrite, WalFsync, BitboxError, BitboxUnchanged, mem
  <2>2. CASE BeatreeTask
    BY ZenonT(30), <2>2 DEF BeatreeTask, BlockUntilZero, WriteLeaf, DropLeaf, BeatreeFsync, BeatreeError, BeatreeUnchanged, files
  <2> QED BY <2>1, <2>2
<1>2. bb # "off" \/ bt # "off"
  <2>1. CASE BitboxTask
    BY SMTT(180), <2>1 DEF BitboxTask, WalTruncate, WalWrite, WalFsync, BitboxError
  <2>2. CASE BeatreeTask
    BY <2>2 DEF BeatreeTask, BlockUntilZero, WriteLeaf, DropLeaf, BeatreeFsync, BeatreeError
  <2> QED BY <2>1, <2>2
<1>3. pc # "idle" \/ poisoned
  BY <1>2 DEF IInv, PhaseInv, Waiting
<1> QED BY <1>1, <1>3, QuietStep

\* Steps of the sync thread.
LEMMA SyncThreadAbs ==
  ASSUME IInv, IInv', ConsistentWhenIdle', ManifestInv, SyncThread
  PROVE  ManifestInv' /\ AtomicStep
<1>0. pc # "idle" => ~poisoned
  BY DEF IInv, PhaseInv
<1>1. CASE WaitBitbox \/ WaitBeatree
  <2>1. /\ pc \in Waiting /\ UNCHANGED <<meta, crashes, hist, sync_seqn>>
        /\ \/ pc' \in {"wait_beatree", "meta_write"} /\ poisoned' = FALSE
           \/ pc' = "idle" /\ poisoned' = TRUE
    BY ZenonT(30), <1>1 DEF WaitBitbox, WaitBeatree, MainUnchanged, files, Waiting
  <2>2. CASE pc' = "idle" /\ poisoned' = TRUE
    BY <2>1, <2>2, FailStep DEF Before
  <2>3. CASE pc' \in {"wait_beatree", "meta_write"} /\ poisoned' = FALSE
    <3>1. poisoned' = poisoned
      BY <1>0, <2>1, <2>3 DEF IInv, TypeOK, Waiting
    <3> QED BY <2>1, <2>3, <3>1, QuietStep DEF Waiting, Running
  <2> QED BY ZenonT(30), <2>1, <2>2, <2>3
<1>2. CASE MetaWrite
  BY <1>2, MetaWriteAbs DEF MetaWrite, MainUnchanged, mem
<1>3. CASE MetaFsync
  BY <1>3, MetaFsyncAbs
<1>4. CASE (\E p \in Pages : HtWrite(p)) \/ HtFsync \/ WalCollapse
  <2>1. /\ pc \in {"ht_write", "wal_collapse"} /\ pc' \in {"ht_write", "wal_collapse", "finish"}
        /\ UNCHANGED <<meta, crashes, hist, sync_seqn, poisoned>>
    BY <1>4 DEF HtWrite, HtFsync, WalCollapse, MainUnchanged, mem
  <2> QED BY SMTT(180), <2>1, QuietStep DEF Running
<1>5. CASE \E ok \in BOOLEAN : FinishSync(ok)
  <2>1. PICK ok \in BOOLEAN : FinishSync(ok)
    BY <1>5
  <2>2. /\ pc = "finish" /\ pc' = "idle" /\ poisoned' = ~ok
        /\ UNCHANGED <<meta, crashes, hist, sync_seqn>>
    BY <2>1 DEF FinishSync, MainUnchanged, files
  <2>3. CASE ok
    <3>1. Top \in Manifest /\ Top.seqn = sync_seqn' /\ Left(meta) = {Top} /\ Left(meta)' = {Top}
      BY <2>2, Settles DEF After, Left, Lossy
    <3> QED BY ZenonT(30), <2>2, <2>3, <3>1, ServeStep DEF Running
  <2>4. CASE ~ok
    BY ZenonT(30), <2>2, <2>4, FailStep DEF After
  <2> QED BY <2>3, <2>4
<1>6. CASE SyncError
  <2>1. /\ pc' = "idle" /\ poisoned' = TRUE /\ UNCHANGED <<crashes, hist, sync_seqn>>
        /\ \/ pc \in Before \cup After /\ meta' = meta
           \/ pc = "meta_fsync" /\ meta' = meta
           \/ pc = "meta_write" /\ meta' = PageWritten(meta, NewMeta)
    BY <1>6 DEF SyncError, MainUnchanged, Before, After
  <2> QED BY <2>1, FailStep, MetaFsyncFails, MetaWriteAbs
<1> QED BY <1>1, <1>2, <1>3, <1>4, <1>5, <1>6 DEF SyncThread

\* Steps of Store::open.
LEMMA RecoveryAbs ==
  ASSUME Safe, IInv, IInv', ConsistentWhenIdle', ManifestInv, Recovery
  PROVE  ManifestInv' /\ AtomicStep
<1>0. TypeOK /\ FilesOK /\ PhaseInv /\ MetaInv
  BY DEF IInv
<1>1. CASE Open
  <2>1. /\ pc = "down" /\ pc' \in {"idle", "redo", "redo_trunc", "open_failed"}
        /\ sync_seqn' = meta.now.seqn /\ UNCHANGED <<meta, poisoned, hist, crashes>>
    BY SMTT(180), <1>1 DEF Open, files
  <2>2. /\ Left(meta) = {meta.now} /\ Left(meta)' = {meta.now} /\ meta.now \in Manifest
        /\ ~poisoned
    BY <1>0, <2>1, Settled, LeftType DEF Left, Lossy, PhaseInv
  <2>3. CASE pc' = "idle"
    BY <2>1, <2>2, <2>3, ServeStep DEF Running
  <2>4. CASE pc' # "idle"
    <3>1. Db' = Db
      BY <2>1, <2>2, OneNow, OneThen
    <3>2. Pending = NIL
      BY <2>1, <2>2, OneNow DEF Running
    <3>3. Pending' = NIL
      BY <2>1, <2>2, OneThen DEF Running
    <3>4. View = NIL /\ View' = NIL
      BY <2>1, <2>4 DEF View
    <3> QED BY SMTT(180), <2>2, <3>1, <3>2, <3>3, <3>4 DEF AtomicStep, Stays, ManifestInv, OneManifest
  <2> QED BY <2>3, <2>4
<1>2. CASE (\E p \in Pages : Redo(p)) \/ RedoEnd \/ RedoTruncate
  <2>1. /\ pc \in Recovering /\ pc' \in Recovering \cup {"open_failed"}
        /\ UNCHANGED <<meta, crashes, hist, sync_seqn, poisoned>>
    BY <1>2 DEF Redo, RedoEnd, RedoTruncate, RecoveryUnchanged, files, Recovering
  <2> QED BY SMTT(180), <2>1, QuietStep DEF Running, Recovering
<1>3. CASE RedoFsync
  <2>1. /\ pc = "redo_fsync" /\ pc' = "idle" /\ ~poisoned'
        /\ UNCHANGED <<meta, crashes, hist, sync_seqn>>
    BY <1>0, <1>3 DEF RedoFsync, RecoveryUnchanged, PhaseInv
  <2>2. Base \in Manifest /\ Base.seqn = sync_seqn' /\ Left(meta) = {Base} /\ Left(meta)' = {Base}
    BY <2>1, Settles DEF Recovering, Left, Lossy
  <2> QED BY <2>1, <2>2, ServeStep DEF Running
<1> QED BY <1>1, <1>2, <1>3 DEF Recovery

\* Every step of the store is a step of the atomic store or none.
LEMMA NextAbs ==
  ASSUME Safe, IInv, IInv', ConsistentWhenIdle, ConsistentWhenIdle', ManifestInv, [Next]_vars
  PROVE  ManifestInv' /\ AtomicStep
<1>1. CASE \E c \in Changes(sync_seqn + 1) : Commit(c)
  BY <1>1, CommitAbs
<1>2. CASE BitboxTask \/ BeatreeTask
  BY <1>2, TaskAbs
<1>3. CASE SyncThread
  BY SMTT(180), <1>3, SyncThreadAbs
<1>4. CASE PowerLoss
  <2>1. PICK m \in meta.may : meta' = Fresh(m)
    BY SMTT(180), <1>4 DEF PowerLoss
  <2>2. m \in Left(meta) /\ Left(meta)' = {m}
    BY <1>4, <2>1 DEF PowerLoss, Left, LeftIf, Lossy, Fresh
  <2> QED BY <1>4, <2>2, CrashAbs DEF PowerLoss
<1>5. CASE Kill
  BY <1>5, KillLeaves, CrashAbs DEF Kill
<1>6. CASE Recovery
  BY <1>6, RecoveryAbs
<1>7. CASE BeginRead \/ EndRead \/ UNCHANGED vars
  <2>1. UNCHANGED <<meta, crashes, hist, sync_seqn, poisoned, pc, index, ln, ht>>
    BY <1>7 DEF BeginRead, EndRead, vars, files, mem
  <2>2. Left(meta)' = Left(meta)
    BY <2>1 DEF Left, Lossy
  <2>3. ManifestInv'
    BY SMTT(180), <2>1, <2>2 DEF ManifestInv, OneManifest, TwoManifests
  <2>4. Stays
    BY <2>1, <2>2 DEF Stays, Db, Pending, View, Served, Value
  <2> QED BY <2>3, <2>4 DEF AtomicStep
<1> QED BY <1>1, <1>2, <1>3, <1>4, <1>5, <1>6, <1>7 DEF Next

\* Commits are atomic and durable: whatever interleaving of the tasks, error,
\* crash or recovery happens, what Store::open and Store::commit show is a
\* behaviour of AtomicStore.
THEOREM Refinement ==
  ASSUME Safe PROVE Spec => AtomicCommits
<1>1. Init => Atomic!Init /\ ManifestInv
  <2> SUFFICES ASSUME Init PROVE Atomic!Init /\ ManifestInv
    OBVIOUS
  <2> DEFINE m == [seqn |-> 0, index |-> [k \in Keys |-> NIL], free |-> Slots]
  <2>1. m \in Manifest /\ m.seqn = 0
    BY SMTT(180), StoreAssumption DEF StoreAssumption, Manifest, Seqn
  <2>2. Left(meta) = {m} /\ pc = "idle" /\ ~poisoned /\ 0 \in Seqn
    BY SMTT(180), StoreAssumption DEF Init, Left, LeftIf, Fresh, Seqn, StoreAssumption
  <2> HIDE DEF m
  <2>3. InEffect = m
    BY <2>1, <2>2, OldestOne DEF InEffect
  <2>4. ~InProgress /\ ~Ambiguous
    BY SMTT(180), <2>2 DEF InProgress, Ambiguous
  <2>5. hist[InEffect.seqn] = [kv |-> [k \in Keys |-> 0], tr |-> [p \in Pages |-> 0]]
    BY SMTT(180), <2>1, <2>2, <2>3 DEF Init
  <2>6. /\ [k \in Keys |-> Value(index, k)] = [k \in Keys |-> 0]
        /\ [p \in Pages |-> ht[p].now] = [p \in Pages |-> 0]
    BY SMTT(180) DEF Init, Value, Fresh
  <2>7. Atomic!Init
    BY ZenonT(30), <2>2, <2>4, <2>5, <2>6 DEF Atomic!Init
  <2> QED BY <2>1, <2>2, <2>7 DEF ManifestInv, OneManifest
<1>2. /\ IInv /\ IInv' /\ ConsistentWhenIdle /\ ConsistentWhenIdle'
      /\ ManifestInv /\ [Next]_vars
      => ManifestInv' /\ [Atomic!Next]_(Atomic!vars)
  BY NextAbs, StepOfAtomic
<1>3. Spec => []IInv /\ []ConsistentWhenIdle
  BY InductiveInvariant, Consistency, PTL
<1>4. AtomicCommits <=> Atomic!Init /\ [][Atomic!Next]_(Atomic!vars)
  BY DEF AtomicCommits, Atomic!Spec
<1> QED BY <1>1, <1>2, <1>3, <1>4, PTL DEF Spec
=============================================================================
