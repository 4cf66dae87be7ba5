----------------------------- MODULE StoreSync -----------------------------
(***************************************************************************)
(* The commit protocol of `Store::commit` / `Sync::sync`: one sync writes  *)
(* the merkle pages through bitbox (redo WAL, then the hash table file),   *)
(* the values through beatree (shadow pages), and switches from the old    *)
(* state to the new one by rewriting the manifest.  A crash may strike     *)
(* between any two system calls; `Store::open` recovers.                   *)
(*                                                                         *)
(* Data.  The value of a key, and the content of a merkle page, is the     *)
(* number of the sync that last wrote it; 0 stands for "absent".           *)
(*                                                                         *)
(* Files.  `now` is what a read returns, `may` the set of contents a power *)
(* loss may leave behind: a write adds to it, an fsync collapses it.       *)
(***************************************************************************)
EXTENDS Integers, FiniteSets

CONSTANTS
  Keys,         \* the keys of the value store
  Pages,        \* the merkle pages
  Slots,        \* the page numbers of the leaf store
  NIL,          \* no leaf
  MaxSync,      \* bound: syncs that may reach the manifest
  MaxCrash,     \* bound: crashes
  MaxReaders,   \* bound: read transactions open at a time
  WriteThrough, \* is a page written with O_DIRECT to a file of fixed size (`ht`,
                \* `meta`) durable once the write completes?
  LossAfterCrash \* may a power loss follow an earlier crash?

ASSUME StoreAssumption ==
  /\ MaxSync \in Nat
  /\ MaxCrash \in Nat
  /\ MaxReaders \in Nat
  /\ NIL \notin Slots
  /\ WriteThrough \in BOOLEAN
  /\ LossAfterCrash \in BOOLEAN

VARIABLES
  meta,      \* file `meta`: the manifest
  wal,       \* file `wal`
  ht,        \* file `ht`, per merkle page
  ln,        \* file `ln`, per page number
  pc,        \* the thread inside Store::commit or Store::open
  bb,        \* the pre-meta tasks of bitbox
  bt,        \* the begin_sync task of beatree
  sync_seqn, \* Sync::sync_seqn
  poisoned,  \* Shared::poisoned
  chg,       \* what the current sync writes
  index,     \* Shared::bbn_index, the live index of beatree
  free,      \* pages the leaf store's free list (or bump) may hand out
  bbn_index, \* the index under construction by the current sync
  alloc,     \* leaf pages allocated by the current sync
  todo,      \* pages still to be written by the current loop
  readers,   \* ReadTransactionCounter: the read transactions open on the beatree
  acked,     \* number of the last sync reported as committed (history)
  hist,      \* the logical state after each sync (history)
  crashes    \* number of crashes so far

files == <<meta, wal, ht, ln>>
mem == <<sync_seqn, poisoned, chg, index, free, bbn_index, alloc, todo>>
vars == <<files, pc, bb, bt, mem, acked, hist, crashes, readers>>
----------------------------------------------------------------------------
(***************************************************************************)
(* Files.                                                                  *)
(***************************************************************************)
File(S) == [now : S, may : SUBSET S]

Fresh(v) == [now |-> v, may |-> {v}]
Written(f, v) == [now |-> v, may |-> f.may \cup {v}]
Synced(f) == [now |-> f.now, may |-> {f.now}]

SyncedAll(F) == [x \in DOMAIN F |-> Synced(F[x])]

\* A page write to a file whose size never changes.
PageWritten(f, v) == IF WriteThrough THEN Fresh(v) ELSE Written(f, v)

\* Contents of the WAL: the sync it belongs to, the page updates, whether it
\* reaches its end tag, and whether WalBlobReader::new can read its start: the
\* size is a multiple of the page size and the first page, with the start tag and
\* the number of the sync, is there.  The empty file has no sync.
NoChange == [x \in {} |-> 0]
EmptyWal == [seqn |-> 0, tr |-> NoChange, whole |-> FALSE, head |-> TRUE]
Wal(n, tr) == [seqn |-> n, tr |-> tr, whole |-> TRUE, head |-> TRUE]
TornWal(n) == [seqn |-> n, tr |-> NoChange, whole |-> FALSE, head |-> TRUE]
HeadlessWal(n) == [seqn |-> n, tr |-> NoChange, whole |-> FALSE, head |-> FALSE]

Seqn == 0..MaxSync
Delta(S) == UNION {[T -> Seqn] : T \in SUBSET S}
Apply(f, d) == [x \in DOMAIN f |-> IF x \in DOMAIN d THEN d[x] ELSE f[x]]

\* The logical state of a store.
State == [kv : [Keys -> Seqn], tr : [Pages -> Seqn]]
ASSUME NilAssumption == NIL \notin State
Manifest == [seqn : Seqn, index : [Keys -> Slots \cup {NIL}], free : SUBSET Slots]
WalContent ==
  {w \in [seqn : Seqn, tr : Delta(Pages), whole : BOOLEAN, head : BOOLEAN] : w.whole => w.head}

\* What a lookup of key k finds through an index, given the leaf file.
Value(ix, k) == IF ix[k] = NIL THEN 0 ELSE ln[ix[k]].now
----------------------------------------------------------------------------
Init ==
  /\ meta = Fresh([seqn |-> 0, index |-> [k \in Keys |-> NIL], free |-> Slots])
  /\ wal = Fresh(EmptyWal)
  /\ ht = [p \in Pages |-> Fresh(0)]
  /\ ln = [s \in Slots |-> Fresh(0)]
  /\ pc = "idle" /\ bb = "off" /\ bt = "off"
  /\ sync_seqn = 0
  /\ poisoned = FALSE
  /\ chg = [kv |-> NoChange, tr |-> NoChange]
  /\ index = [k \in Keys |-> NIL]
  /\ bbn_index = [k \in Keys |-> NIL]
  /\ free = Slots
  /\ alloc = {} /\ todo = {}
  /\ acked = 0
  /\ hist = [n \in Seqn |->
               [kv |-> [k \in Keys |-> 0], tr |-> [p \in Pages |-> 0]]]
  /\ crashes = 0 /\ readers = 0

(***************************************************************************)
(* Store::commit: take the sync lock, refuse if poisoned, begin the sync   *)
(* of both stores on their thread pools.  Sync number n writes n to the    *)
(* keys and pages it changes, or 0 to those it removes.                    *)
(***************************************************************************)
Changes(n) ==
  [kv : UNION {[T -> {0, n}] : T \in SUBSET Keys},
   tr : UNION {[T -> {0, n}] : T \in SUBSET Pages}]

Commit(c) ==
  /\ pc = "idle" /\ ~poisoned
  /\ sync_seqn < MaxSync
  /\ chg' = c
  /\ hist' = [hist EXCEPT ![sync_seqn + 1] =
                [kv |-> Apply(hist[sync_seqn].kv, c.kv),
                 tr |-> Apply(hist[sync_seqn].tr, c.tr)]]
  /\ pc' = "wait_bitbox" /\ bb' = "wal_trunc" /\ bt' = "wait"
  /\ bbn_index' = index
  /\ alloc' = {}
  /\ todo' = DOMAIN c.kv
  /\ UNCHANGED <<files, sync_seqn, poisoned, index, free, acked, crashes, readers>>

(***************************************************************************)
(* Bitbox before the manifest: build the WAL blob, then write_wal, which   *)
(* truncates the file, writes the blob and fsyncs.                         *)
(***************************************************************************)
BitboxUnchanged ==
  UNCHANGED <<pc, bt, mem, acked, hist, crashes, readers>>

WalTruncate ==
  /\ bb = "wal_trunc"
  /\ wal' = Written(wal, EmptyWal)
  /\ bb' = "wal_write"
  /\ UNCHANGED <<meta, ht, ln>> /\ BitboxUnchanged

WalWrite ==
  /\ bb = "wal_write"
  /\ LET n == sync_seqn + 1 IN
     wal' = [now |-> Wal(n, chg.tr),
             may |-> wal.may \cup {HeadlessWal(n), TornWal(n), Wal(n, chg.tr)}]
  /\ bb' = "wal_fsync"
  /\ UNCHANGED <<meta, ht, ln>> /\ BitboxUnchanged

\* Fault: the fsync of the WAL is forgotten.
WalFsyncForgotten ==
  /\ bb = "wal_fsync"
  /\ bb' = "done"
  /\ UNCHANGED files /\ BitboxUnchanged

WalFsync ==
  /\ bb = "wal_fsync"
  /\ wal' = Synced(wal)
  /\ bb' = "done"
  /\ UNCHANGED <<meta, ht, ln>> /\ BitboxUnchanged

\* Bucket exhaustion in prepare_sync, or an I/O error of write_wal, which may
\* leave part of the blob in the file.
BitboxError ==
  /\ bb \in {"wal_trunc", "wal_write", "wal_fsync"}
  /\ \/ wal' = wal
     \/ /\ bb = "wal_write"
        /\ \/ wal' = Written(wal, HeadlessWal(sync_seqn + 1))
           \/ wal' = Written(wal, TornWal(sync_seqn + 1))
  /\ bb' = "error"
  /\ UNCHANGED <<meta, ht, ln>> /\ BitboxUnchanged

(***************************************************************************)
(* Beatree before the manifest: every changed leaf goes to a page taken    *)
(* from the free list, the pages it replaces are freed only by the         *)
(* manifest this sync will write; then both store files are fsynced.       *)
(***************************************************************************)
BeatreeUnchanged ==
  UNCHANGED <<pc, bb, sync_seqn, poisoned, chg, index, free, acked, hist, crashes, readers>>

\* block_until_zero: the update may overwrite pages that the open read
\* transactions still reach, so it waits until there is none.
BlockUntilZero ==
  /\ bt = "wait" /\ readers = 0
  /\ bt' = "write"
  /\ UNCHANGED <<files, bbn_index, alloc, todo>> /\ BeatreeUnchanged

\* Fault: a leaf is rewritten in the page it occupies.
WriteLeafInPlace(k, s) ==
  /\ bt = "write" /\ k \in todo
  /\ chg.kv[k] # 0
  /\ s \in (free \ alloc) \cup ({index[k]} \ {NIL})
  /\ ln' = [ln EXCEPT ![s] = Written(@, chg.kv[k])]
  /\ bbn_index' = [bbn_index EXCEPT ![k] = s]
  /\ alloc' = alloc \cup {s}
  /\ todo' = todo \ {k}
  /\ UNCHANGED <<meta, wal, ht, bt>> /\ BeatreeUnchanged

WriteLeaf(k, s) ==
  /\ bt = "write" /\ k \in todo
  /\ chg.kv[k] # 0
  /\ s \in free \ alloc
  /\ ln' = [ln EXCEPT ![s] = Written(@, chg.kv[k])]
  /\ bbn_index' = [bbn_index EXCEPT ![k] = s]
  /\ alloc' = alloc \cup {s}
  /\ todo' = todo \ {k}
  /\ UNCHANGED <<meta, wal, ht, bt>> /\ BeatreeUnchanged

DropLeaf(k) ==
  /\ bt = "write" /\ k \in todo
  /\ chg.kv[k] = 0
  /\ bbn_index' = [bbn_index EXCEPT ![k] = NIL]
  /\ todo' = todo \ {k}
  /\ UNCHANGED <<files, bt, alloc>> /\ BeatreeUnchanged

\* Fault: the leaf store is not fsynced.
BeatreeFsyncForgotten ==
  /\ bt = "write" /\ todo = {}
  /\ bt' = "done"
  /\ UNCHANGED <<files, bbn_index, alloc, todo>> /\ BeatreeUnchanged

\* Fault: the beatree task dies without sending a result.
BeatreeFsyncLost ==
  /\ bt = "write" /\ todo = {}
  /\ bt' = "off"
  /\ UNCHANGED <<files, bbn_index, alloc, todo>> /\ BeatreeUnchanged

BeatreeFsync ==
  /\ bt = "write" /\ todo = {}
  /\ ln' = SyncedAll(ln)
  /\ bt' = "done"
  /\ UNCHANGED <<meta, wal, ht, bbn_index, alloc, todo>> /\ BeatreeUnchanged

BeatreeError ==
  /\ bt = "write"
  /\ bt' = "error"
  /\ UNCHANGED <<files, bbn_index, alloc, todo>> /\ BeatreeUnchanged

(***************************************************************************)
(* The sync thread: join bitbox, join beatree, write the manifest, then    *)
(* write the hash table and truncate the WAL.                              *)
(***************************************************************************)
MainUnchanged == UNCHANGED <<chg, hist, crashes, readers>>

WaitBitbox ==
  /\ pc = "wait_bitbox" /\ bb \in {"done", "error"}
  /\ pc' = IF bb = "done" THEN "wait_beatree" ELSE "idle"
  /\ poisoned' = (bb = "error")
  /\ bb' = "off"
  /\ UNCHANGED <<files, bt, sync_seqn, index, free, bbn_index, alloc, todo, acked>>
  /\ MainUnchanged

WaitBeatree ==
  /\ pc = "wait_beatree" /\ bt \in {"done", "error"}
  /\ pc' = IF bt = "done" THEN "meta_write" ELSE "idle"
  /\ poisoned' = (bt = "error")
  /\ bt' = "off"
  /\ UNCHANGED <<files, bb, sync_seqn, index, free, bbn_index, alloc, todo, acked>>
  /\ MainUnchanged

\* The leaf pages in use by index ix.
InUse(ix) == {ix[k] : k \in Keys} \ {NIL}

\* The free list that update() leaves behind: the pages handed out are gone
\* from it, the pages of replaced leaves are back.
NewFree == (free \ alloc) \cup (InUse(index) \ InUse(bbn_index))

\* Fault: the manifest keeps the number of the previous sync.
NewMetaStale == [seqn |-> sync_seqn, index |-> bbn_index, free |-> NewFree]

NewMeta == [seqn |-> sync_seqn + 1, index |-> bbn_index, free |-> NewFree]

MetaWrite ==
  /\ pc = "meta_write"
  /\ meta' = PageWritten(meta, NewMeta)
  /\ pc' = "meta_fsync"
  /\ UNCHANGED <<wal, ht, ln, bb, bt, mem, acked>> /\ MainUnchanged

\* Fault: the sequence number is bumped twice.
MetaFsyncTwice ==
  /\ pc = "meta_fsync"
  /\ meta' = Synced(meta)
  /\ sync_seqn' = sync_seqn + 2
  /\ todo' = DOMAIN chg.tr
  /\ pc' = "ht_write"
  /\ UNCHANGED <<wal, ht, ln, bb, bt, poisoned, index, free, bbn_index, alloc, acked>>
  /\ MainUnchanged

MetaFsync ==
  /\ pc = "meta_fsync"
  /\ meta' = Synced(meta)
  /\ sync_seqn' = sync_seqn + 1
  /\ todo' = DOMAIN chg.tr
  /\ pc' = "ht_write"
  /\ UNCHANGED <<wal, ht, ln, bb, bt, poisoned, index, free, bbn_index, alloc, acked>>
  /\ MainUnchanged

HtWrite(p) ==
  /\ pc = "ht_write" /\ p \in todo
  /\ ht' = [ht EXCEPT ![p] = PageWritten(@, chg.tr[p])]
  /\ todo' = todo \ {p}
  /\ UNCHANGED <<meta, wal, ln, pc, bb, bt, sync_seqn, poisoned, index, free,
                 bbn_index, alloc, acked>>
  /\ MainUnchanged

\* Fault: the hash table file is not fsynced before the WAL goes.
HtFsyncForgotten ==
  /\ pc = "ht_write" /\ todo = {}
  /\ pc' = "wal_collapse"
  /\ UNCHANGED <<files, bb, bt, mem, acked>> /\ MainUnchanged

HtFsync ==
  /\ pc = "ht_write" /\ todo = {}
  /\ ht' = SyncedAll(ht)
  /\ pc' = "wal_collapse"
  /\ UNCHANGED <<meta, wal, ln, bb, bt, mem, acked>> /\ MainUnchanged

\* truncate_wal(.., false): not fsynced.
WalCollapse ==
  /\ pc = "wal_collapse"
  /\ wal' = Written(wal, EmptyWal)
  /\ pc' = "finish"
  /\ UNCHANGED <<meta, ht, ln, bb, bt, mem, acked>> /\ MainUnchanged

\* Tree::finish_sync swaps the index in.  Commit returns Ok unless the pruning
\* of the rollback log, joined last, has failed.
FinishSync(ok) ==
  /\ pc = "finish"
  /\ index' = bbn_index
  /\ free' = NewFree
  /\ alloc' = {}
  /\ acked' = IF ok THEN sync_seqn ELSE acked
  /\ poisoned' = ~ok
  /\ pc' = "idle"
  /\ UNCHANGED <<files, bb, bt, sync_seqn, bbn_index, todo>>
  /\ MainUnchanged

\* An I/O error of the sync thread itself: Store::commit poisons the store.
\* The write of the manifest may have reached the file all the same.
SyncError ==
  /\ pc \in {"meta_write", "meta_fsync", "ht_write", "wal_collapse"}
  /\ \/ meta' = meta
     \/ pc = "meta_write" /\ meta' = PageWritten(meta, NewMeta)
  /\ pc = "ht_write" => todo = {}
  /\ poisoned' = TRUE
  /\ pc' = "idle"
  /\ UNCHANGED <<wal, ht, ln, bb, bt, sync_seqn, index, free, bbn_index, alloc,
                 todo, acked>>
  /\ MainUnchanged
----------------------------------------------------------------------------
(***************************************************************************)
(* Crashes.  A power loss leaves of each page of each file one of the      *)
(* contents it may have; a killed process leaves what reads returned.      *)
(***************************************************************************)
Stopped ==
  /\ pc # "down"
  /\ crashes < MaxCrash
  /\ crashes' = crashes + 1
  /\ pc' = "down" /\ bb' = "off" /\ bt' = "off"
  /\ poisoned' = FALSE
  /\ todo' = {} /\ alloc' = {} /\ readers' = 0
  /\ UNCHANGED <<sync_seqn, chg, index, free, bbn_index, acked, hist>>

PowerLoss ==
  /\ Stopped
  /\ crashes = 0 \/ LossAfterCrash
  /\ \E m \in meta.may : meta' = Fresh(m)
  /\ \E w \in wal.may : wal' = Fresh(w)
  /\ \E f \in [Pages -> UNION {ht[p].may : p \in Pages}] :
        /\ \A p \in Pages : f[p] \in ht[p].may
        /\ ht' = [p \in Pages |-> Fresh(f[p])]
  /\ \E f \in [Slots -> UNION {ln[s].may : s \in Slots}] :
        /\ \A s \in Slots : f[s] \in ln[s].may
        /\ ln' = [s \in Slots |-> Fresh(f[s])]

Kill == Stopped /\ UNCHANGED files

(***************************************************************************)
(* Read transactions come and go at any time.  One that is open when a     *)
(* sync begins, and one opened while it waits, are alike to it; what they  *)
(* are allowed to read is the business of module BeatreeTree.              *)
(***************************************************************************)
BeginRead ==
  /\ bt = "wait" /\ readers < MaxReaders
  /\ readers' = readers + 1
  /\ UNCHANGED <<files, pc, bb, bt, mem, acked, hist, crashes>>

EndRead ==
  /\ readers > 0
  /\ readers' = readers - 1
  /\ UNCHANGED <<files, pc, bb, bt, mem, acked, hist, crashes>>

(***************************************************************************)
(* Store::open: read the manifest, open beatree from it, let bitbox look   *)
(* at the WAL.  Without its start the WAL makes the open fail; a WAL of    *)
(* another sync is discarded; the WAL of the sync the manifest names is    *)
(* applied to the hash table file, then discarded.                         *)
(***************************************************************************)
Open ==
  /\ pc = "down"
  /\ sync_seqn' = meta.now.seqn
  /\ index' = meta.now.index /\ bbn_index' = meta.now.index
  /\ free' = meta.now.free
  /\ LET redo == wal.now.head /\ wal.now.seqn = meta.now.seqn IN
     /\ todo' = IF redo THEN DOMAIN wal.now.tr ELSE {}
     /\ pc' = IF ~wal.now.head THEN "open_failed"
              ELSE IF wal.now = EmptyWal THEN "idle"
              ELSE IF redo THEN "redo" ELSE "redo_trunc"
  /\ UNCHANGED <<files, bb, bt, poisoned, chg, alloc, acked, hist, crashes, readers>>

RecoveryUnchanged ==
  UNCHANGED <<bb, bt, sync_seqn, poisoned, chg, index, free, bbn_index, alloc,
              acked, hist, crashes, readers>>

Redo(p) ==
  /\ pc = "redo" /\ p \in todo
  /\ ht' = [ht EXCEPT ![p] = PageWritten(@, wal.now.tr[p])]
  /\ todo' = todo \ {p}
  /\ UNCHANGED <<meta, wal, ln, pc>> /\ RecoveryUnchanged

\* The reader reaches the end of the WAL: the end tag, or "Unexpected end of
\* WAL file", which makes Store::open fail.
\* Fault: the WAL is truncated before its entries are applied.
RedoEndEarly ==
  /\ pc = "redo"
  /\ pc' = IF wal.now.whole THEN "redo_trunc" ELSE "open_failed"
  /\ UNCHANGED <<files, todo>> /\ RecoveryUnchanged

\* Fault: the end of the WAL is not recognised.
RedoEndStuck ==
  /\ pc = "redo" /\ todo = {} /\ ~wal.now.whole
  /\ pc' = "open_failed"
  /\ UNCHANGED <<files, todo>> /\ RecoveryUnchanged

RedoEnd ==
  /\ pc = "redo" /\ todo = {}
  /\ pc' = IF wal.now.whole THEN "redo_trunc" ELSE "open_failed"
  /\ UNCHANGED <<files, todo>> /\ RecoveryUnchanged

RedoTruncate ==
  /\ pc = "redo_trunc"
  /\ wal' = Written(wal, EmptyWal)
  /\ pc' = "redo_fsync"
  /\ UNCHANGED <<meta, ht, ln, todo>> /\ RecoveryUnchanged

RedoFsync ==
  /\ pc = "redo_fsync"
  /\ wal' = Synced(wal)
  /\ pc' = "idle"
  /\ UNCHANGED <<meta, ht, ln, todo>> /\ RecoveryUnchanged
----------------------------------------------------------------------------
BitboxTask == WalTruncate \/ WalWrite \/ WalFsync \/ BitboxError

BeatreeTask ==
  \/ BlockUntilZero
  \/ \E k \in Keys, s \in Slots : WriteLeaf(k, s)
  \/ \E k \in Keys : DropLeaf(k)
  \/ BeatreeFsync \/ BeatreeError

SyncThread ==
  \/ WaitBitbox \/ WaitBeatree \/ MetaWrite \/ MetaFsync
  \/ \E p \in Pages : HtWrite(p)
  \/ HtFsync \/ WalCollapse \/ SyncError
  \/ \E ok \in BOOLEAN : FinishSync(ok)

Recovery ==
  \/ Open \/ RedoEnd \/ RedoTruncate \/ RedoFsync
  \/ \E p \in Pages : Redo(p)

Next ==
  \/ \E c \in Changes(sync_seqn + 1) : Commit(c)
  \/ BitboxTask \/ BeatreeTask \/ SyncThread
  \/ BeginRead \/ EndRead
  \/ PowerLoss \/ Kill \/ Recovery

Spec == Init /\ [][Next]_vars

\* Every task of the thread pools runs, and so does the calling thread.  Nothing
\* is assumed of read transactions: the applications that hold them may never
\* end them.
FairSpec ==
  /\ Spec
  /\ WF_vars(BitboxTask) /\ WF_vars(BeatreeTask)
  /\ WF_vars(SyncThread) /\ WF_vars(Recovery)
----------------------------------------------------------------------------
TypeOK ==
  /\ meta \in File(Manifest)
  /\ wal \in File(WalContent)
  /\ ht \in [Pages -> File(Seqn)]
  /\ ln \in [Slots -> File(Seqn)]
  /\ pc \in {"idle", "wait_bitbox", "wait_beatree", "meta_write", "meta_fsync",
             "ht_write", "wal_collapse", "finish", "down", "redo",
             "redo_trunc", "redo_fsync", "open_failed"}
  /\ bb \in {"off", "wal_trunc", "wal_write", "wal_fsync", "done", "error"}
  /\ bt \in {"off", "wait", "write", "done", "error"}
  /\ sync_seqn \in Seqn /\ acked \in Seqn /\ crashes \in 0..MaxCrash
  /\ poisoned \in BOOLEAN
  /\ readers \in Nat
  /\ chg \in [kv : Delta(Keys), tr : Delta(Pages)]
  /\ index \in [Keys -> Slots \cup {NIL}]
  /\ bbn_index \in [Keys -> Slots \cup {NIL}]
  /\ free \in SUBSET Slots /\ alloc \in SUBSET Slots
  /\ todo \in SUBSET (Keys \cup Pages)
  /\ hist \in [Seqn -> State]

\* The open store with no sync running holds exactly the state of the sync its
\* manifest names, in both halves: every value through the index, every merkle
\* page in the hash table file.
ConsistentWhenIdle ==
  pc = "idle" /\ ~poisoned =>
    /\ sync_seqn = meta.now.seqn
    /\ \A k \in Keys : Value(index, k) = hist[sync_seqn].kv[k]
    /\ \A p \in Pages : ht[p].now = hist[sync_seqn].tr[p]

\* The contents of file f that the next Store::open may find.
Lossy == crashes = 0 \/ LossAfterCrash
LeftIf(lossy, f) == IF lossy THEN f.may ELSE {f.now}
Left(f) == LeftIf(Lossy, f)

\* A sync reported as committed survives every crash.
Durable == \A m \in Left(meta) : m.seqn >= acked

\* Whatever a crash leaves on disk, recovery has what it needs: the index
\* leads to durable leaves, and each merkle page is either redone from the WAL
\* or already durable.
LeavesGood(m) ==
  \A k \in Keys :
    IF m.index[k] = NIL THEN hist[m.seqn].kv[k] = 0
    ELSE \A v \in Left(ln[m.index[k]]) : v = hist[m.seqn].kv[k]

PagesGood(m, w) ==
  \A p \in Pages :
    IF w.seqn = m.seqn /\ p \in DOMAIN w.tr
      THEN w.tr[p] = hist[m.seqn].tr[p]
      ELSE \A v \in Left(ht[p]) : v = hist[m.seqn].tr[p]

Recoverable ==
  /\ \A m \in Left(meta) : LeavesGood(m)
  /\ \A m \in Left(meta), w \in Left(wal) : PagesGood(m, w)

\* The one thing a crash may leave that Store::open refuses is a WAL without its
\* start, and it need not: that WAL belongs to a sync the manifest does not name
\* and the hash table holds every page of the sync the manifest names.  Never does
\* open meet a torn WAL of that sync.
OpenFailsNeedlessly ==
  pc = "open_failed" =>
    /\ ~wal.now.head /\ wal.now.seqn # meta.now.seqn
    /\ \A p \in Pages : ht[p].now = hist[meta.now.seqn].tr[p]

\* Unless read transactions are opened for ever, every call of Store::commit
\* returns, with its result or with an error, or a crash ends it: neither side of
\* the sync waits for the other for ever.
CommitReturns ==
  <>[](readers = 0) => (pc = "wait_bitbox" ~> pc \in {"idle", "down"})

\* After the last crash the store opens, or has found a WAL without its start.
Reopens == pc = "down" ~> pc = "idle" \/ (pc = "open_failed" /\ ~wal.now.head)
----------------------------------------------------------------------------
(***************************************************************************)
(* Refinement.  The value in effect is the one named by the oldest         *)
(* manifest that may still be found; what an open store serves is computed *)
(* from the files.                                                         *)
(***************************************************************************)
Oldest(S) == CHOOSE m \in S : \A o \in S : m.seqn <= o.seqn
InEffect == Oldest(Left(meta))

InProgress ==
  pc \in {"wait_bitbox", "wait_beatree", "meta_write", "meta_fsync"}
  /\ InEffect.seqn = sync_seqn
Ambiguous == poisoned /\ \E m \in Left(meta) : m # InEffect

Atomic == INSTANCE AtomicStore WITH
  State <- State,
  Empty <- [kv |-> [k \in Keys |-> 0], tr |-> [p \in Pages |-> 0]],
  NONE  <- NIL,
  db    <- hist[InEffect.seqn],
  next  <- IF InProgress \/ Ambiguous THEN hist[sync_seqn + 1] ELSE NIL,
  view  <- IF pc = "idle" /\ ~poisoned
             THEN [kv |-> [k \in Keys |-> Value(index, k)],
                   tr |-> [p \in Pages |-> ht[p].now]]
             ELSE NIL

\* Commits are atomic and durable, in the sense of AtomicStore.
AtomicCommits == Atomic!Spec
----------------------------------------------------------------------------
(***************************************************************************)
(* The inductive invariant behind the properties above.                    *)
(***************************************************************************)
FilesOK ==
  /\ meta.now \in meta.may /\ wal.now \in wal.may
  /\ \A p \in Pages : ht[p].now \in ht[p].may
  /\ \A s \in Slots : ln[s].now \in ln[s].may
  /\ WriteThrough => /\ meta.may = {meta.now}
                     /\ \A p \in Pages : ht[p].may = {ht[p].now}

Waiting == {"wait_bitbox", "wait_beatree"}
Before == Waiting \cup {"meta_write"}
After == {"ht_write", "wal_collapse", "finish"}
Recovering == {"redo", "redo_trunc", "redo_fsync"}
Serving == pc = "idle" /\ ~poisoned

PhaseInv ==
  /\ pc \in Waiting => bt # "off"
  /\ bt # "off" => pc \in Waiting \/ poisoned
  /\ pc = "wait_bitbox" <=> bb # "off"
  /\ poisoned => pc = "idle"
  /\ pc \in Recovering \cup {"down"} => crashes > 0
  /\ pc \in Before \cup {"meta_fsync"} \/ bt # "off" => sync_seqn < MaxSync
  /\ pc \in After => sync_seqn > 0

\* The manifest of the live state, and of the sync that sync_seqn just counted.
Base == [seqn |-> sync_seqn, index |-> index, free |-> free]
Top == [seqn |-> sync_seqn, index |-> bbn_index, free |-> NewFree]

MetaInv ==
  /\ pc \in Before \cup Recovering \/ Serving \/ bt # "off" => Left(meta) = {Base}
  /\ pc = "meta_fsync" => meta.now = NewMeta /\ Left(meta) \subseteq {Base, NewMeta}
  /\ pc \in After => Left(meta) = {Top}
  /\ \A m \in Left(meta) : m.seqn >= acked

FreeInv ==
  /\ \A m \in Left(meta) : m.free \cap InUse(m.index) = {}
  /\ pc \in Before \cup After \cup {"meta_fsync"} \/ bt # "off" =>
       free \cap InUse(index) = {} /\ alloc \subseteq free

\* The state the running sync leads to.
Target(n) ==
  /\ hist[n].kv = Apply(hist[n - 1].kv, chg.kv)
  /\ hist[n].tr = Apply(hist[n - 1].tr, chg.tr)

HistInv ==
  /\ pc \in Before \cup {"meta_fsync"} \/ bt # "off" => Target(sync_seqn + 1)
  /\ pc \in After => Target(sync_seqn)

\* The leaves of the running sync: where they are, and that they are durable.
LeavesWritten ==
  \A k \in Keys :
    IF k \in todo \/ k \notin DOMAIN chg.kv THEN bbn_index[k] = index[k]
    ELSE IF chg.kv[k] = 0 THEN bbn_index[k] = NIL
    ELSE bbn_index[k] \in alloc /\ ln[bbn_index[k]].now = chg.kv[k]

LeavesDurable(n) ==
  /\ InUse(bbn_index) \subseteq InUse(index) \cup alloc
  /\ \A k \in Keys :
       IF bbn_index[k] = NIL THEN hist[n].kv[k] = 0
       ELSE \A v \in Left(ln[bbn_index[k]]) : v = hist[n].kv[k]

BeatreeInv ==
  /\ bt \in {"wait", "write"} => LeavesWritten /\ todo \subseteq DOMAIN chg.kv
  /\ bt = "done" \/ pc \in {"meta_write", "meta_fsync"} => LeavesDurable(sync_seqn + 1)
  /\ pc \in After => LeavesDurable(sync_seqn)

WalInv ==
  /\ bb = "wal_fsync" => wal.now = Wal(sync_seqn + 1, chg.tr)
  /\ bb = "done" \/ pc \in {"wait_beatree", "meta_write", "meta_fsync"}
       => wal = Fresh(Wal(sync_seqn + 1, chg.tr))
  /\ pc \in {"ht_write", "wal_collapse"} => wal = Fresh(Wal(sync_seqn, chg.tr))
  /\ pc = "redo" => wal.now.seqn = sync_seqn /\ wal.now # EmptyWal
  /\ \A m \in Left(meta), w \in Left(wal) :
       w.seqn = m.seqn /\ w # EmptyWal => w.whole

\* The hash table holds exactly the state of sync n.
PagesExact(n) == \A p \in Pages : \A v \in Left(ht[p]) : v = hist[n].tr[p]

HtInv ==
  /\ pc \in Before \cup {"wal_collapse", "finish", "redo_trunc", "redo_fsync",
                         "meta_fsync"} \/ Serving
       => PagesExact(sync_seqn)
  /\ pc = "ht_write" =>
       /\ todo \subseteq DOMAIN chg.tr
       /\ \A p \in DOMAIN chg.tr \ todo : ht[p].now = chg.tr[p]
  /\ pc = "redo" =>
       /\ todo \subseteq DOMAIN wal.now.tr
       /\ \A p \in DOMAIN wal.now.tr \ todo : ht[p].now = wal.now.tr[p]

IInv ==
  /\ TypeOK /\ FilesOK /\ PhaseInv /\ MetaInv /\ FreeInv /\ HistInv
  /\ BeatreeInv /\ WalInv /\ HtInv /\ Recoverable /\ OpenFailsNeedlessly

\* Where the theorems hold: page writes to files of fixed size are durable when
\* they complete, or no power loss follows an earlier crash.
Safe == WriteThrough \/ ~LossAfterCrash
=============================================================================
