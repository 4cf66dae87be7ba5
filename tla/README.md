# NOMT in TLA+

NOMT is an embedded database of key-value pairs under a binary Merkle trie. This
directory models it in TLA+: the modules are checked with TLC on small instances,
and the commit and recovery of the store, down to its refinement of an atomic store,
and the concurrent page allocator are proved with TLAPS for all instances.
`PROJECT.json` relates every definition to the lines it models and lists the runs,
the mutants that show the properties have teeth, the hazards and the findings.

## The system and its modules

A *session* (`nomt/src/lib.rs`) reads the database, possibly through in-memory
*overlays*, and ends with a list of reads and writes. The *merkle workers* seek
the trie positions of these keys, walk the pages of the trie and compute a new
root and, if asked, a witness. A commit makes a session or an overlay the state of
the database: it appends a reverse delta to the *rollback log*, then runs a *sync*
of the store. The store has two halves. *Beatree*, a B+tree with shadow paging,
keeps the values; *bitbox*, a hash table of pages with a redo log (the WAL), keeps
the trie. A one-page *manifest* names the current version of both halves and the
live range of the rollback log.

| Module | Source | What it models |
| --- | --- | --- |
| `StoreSync` | `store/`, `bitbox/mod.rs`, `bitbox/writeout.rs`, `bitbox/wal/`, `beatree/mod.rs` | every file operation of `Sync::sync` and `Store::open`, in order, with power loss, process death and I/O errors |
| `AtomicStore` | — | what a commit promises: it takes effect at one instant, as a whole |
| `StoreSync*Proofs` | — | the proofs about `StoreSync` |
| `FreeList` | `beatree/allocator/free_list.rs` | the free list kept in the file it manages, over many syncs and crashes |
| `SyncAllocator` | `beatree/allocator/mod.rs` | `allocate`, called by several workers at once |
| `SyncAllocatorProofs` | — | the proofs about `SyncAllocator` |
| `BitOps`, `LeafUpdate`, `BranchUpdate` | `beatree/ops/bit_ops.rs`, `leaf/node.rs`, `branch/node.rs`, `ops/update/*_updater.rs`, `branch_ops.rs` | separators, prefixes, sizes, and the updaters that split, merge and rebuild nodes |
| `BeatreeUpdate` | `beatree/ops/update/` | the leaf and the branch stage: workers, the extend-range protocol between neighbours, failures, joining |
| `Trie` | `core/src/trie.rs`, `trie_pos.rs`, `page_id.rs`, `update.rs` | nodes, positions, page ids, the building of a sub-trie |
| `PathProofs` | `core/src/proof/` | path proofs and multi-proofs: verification, confirmation, updates |
| `PageWalker` | `merkle/page_walker.rs`, `page_diff.rs` | the walk that updates pages, elides small ones and rebuilds elided ones |
| `HashTable` | `bitbox/mod.rs`, `bitbox/meta_map.rs` | buckets: probing, allocation, tombstones, the contents of the WAL and its replay |
| `BeatreeRead` | `beatree/iterator.rs`, `ops/mod.rs`, `index.rs` | lookups and the iterator over staged and stored values |
| `Seek` | `merkle/seek.rs`, `page_set.rs` | the seeker: requests, page loads, leaf fetches, reconstruction of elided pages |
| `MerkleUpdate` | `merkle/mod.rs`, `merkle/worker.rs`, `page_cache.rs`, `page_region.rs` | the warm-up and update workers, page cache shards, the root page, joining, the commit of pages |
| `SegLog` | `seglog/` | segment files: append, pruning at both ends, what a crash leaves, recovery |
| `Rollback` | `rollback/` | reverse deltas, the log in memory, truncation, what a sync writes out |
| `Overlay` | `overlay.rs` | chains of overlays, their index of values, status and markers |
| `BeatreeTree` | `beatree/mod.rs` | the two stages of changes, read transactions and when their pages are reused |
| `Nomt` | `lib.rs` and the four modules above | threads with sessions, overlays, commits, rollbacks; poisoning, crashes, reopening |

Modules with the prefix `MC` give the constants of a run. State follows the fields
of the code and keeps their names where TLA+ allows; the comments of a module say
what its data stands for. Throughout:

- a hash is an injective constructor: a node is the tree below it (`Trie`), a root
  is the values it commits to (`Nomt`), and two roots are equal iff these are;
- a panic is a state: `ok`, `"panicked"` or a predicate on the call that would
  panic, so that properties can exclude it;
- definitions marked `Fault:` are mutated forms of the definition after them. No
  specification uses them; the mutants of `PROJECT.json` do.

### Commit and recovery (`StoreSync`)

The value of a key and the content of a trie page is the number of the sync that
wrote it, 0 for absent. A file has the content a read returns (`now`) and the
contents a power loss may leave (`may`): a write adds one, an fsync leaves one.
Process death (`Kill`) leaves `now`. Bitbox's tasks (`bb`), beatree's task (`bt`),
the sync thread (`pc`) and read transactions (`BeginRead`, `EndRead`), for which
`BlockUntilZero` waits, interleave. A WAL that was not fsynced may be found whole,
torn, or without its first page. The file of branch nodes, its own fsync and the
pages of the free lists are folded into the leaf file and the manifest
(`BeatreeFsync`), and the meta pages of the hash table into its pages (`RedoEnd`):
they are written in the same window and fsynced before the same later step.
`WriteThrough` says whether a page written with O_DIRECT to a file of fixed size is
durable when the write completes, and `LossAfterCrash` whether a power loss may
follow an earlier crash. `AtomicCommits` is the refinement of `AtomicStore`: the
manifest's switch is the instant of the commit.

### The beatree update (`BeatreeUpdate`)

Keys have 4 bits instead of 256, a leaf holds `LeafBody` bytes and a branch
`BranchBody`, with the thresholds in proportion. A step of a worker is the work
between two uses of a channel or one failing allocation. Other I/O errors of a
worker (reading a leaf, writing an overflow value) end it in the same way, as its
neighbours see it, and have no step of their own. New nodes get new pages; the freed
ones are collected as in the code. `Lookup` walks the index as a read does.

### The trie update (`MerkleUpdate`)

Keys have 8 bits, pages 2 layers (6 in the code), pages with fewer than 3 leaves
are elided (20). A scenario is a set of keys to start from and the sessions to run,
with or without overlays; workers, I/O completions, cache evictions and the order
of joining are nondeterministic. The witness is what `join` makes of the workers'
outputs in the order in which they finish, indices included, and its verifier is
that of the repository's test (`witness_check.rs`). A panic or a full table in
`prepare_sync` disables the commit, so that it shows as a deadlock; I/O errors of a
seek (`seek.rs:728`) and the limit of 512 warm seeks per turn (`worker.rs:509`) are
left out. A worker's turn of its loop is not interrupted:
what it shares with others within a turn is immutable or under a lock held for the
whole access, so turns commute.

### Sessions, commits and rollbacks (`Nomt`)

A scenario says whether the database has a rollback log, the values it starts with,
and how many threads, sessions, overlays, crashes and I/O errors there are. Each
thread is a record with a program counter: begin a session (read transaction, then
root, then access guard, three steps), preserve priors, finish, become an overlay or
commit; commit an overlay; roll back. A call that holds the access lock goes through
the append and sync of the rollback record, which may fail, the wait for read
transactions, the manifest, and the switch of the index while the log is pruned, one
unlink per step. Records take one or two pages of a segment of two. A crash strikes
between any two steps, of a recovery too; the segment files are left as `CrashImages`
says: the record being written is there, missing or torn (a header with an incomplete
payload, or zeros for the header); directory operations reach the disk in order, so
the crash undoes the last few unlinks, or none, since the directory was last synced.
A failed append writes nothing: one that leaves part of a record is not modelled.

The code does not keep root, store and log together in every behaviour. `events`
records the four things after which it does not, and the properties that make an
exception of one name it: a failed append (`append`), the commit of a session that
did not read the values of its root (`stale`), a rollback of every delta of a pruned
log (`emptied`), and a recovery cut short among several segments to remove (`swept`).
They are findings or further defects below.

## Runs

Run them here with `tlc -config <cfg> <module>`.

| Run | cfg | Shows |
| --- | --- | --- |
| `store` | `StoreSync.cfg` | files that only an fsync makes durable; a power loss and a kill, or two kills, at any point, also in recovery; I/O errors; a reader: commits are atomic, a commit reported stays, the open store is the state of one sync in both halves, any mix of file contents is recoverable, opening fails at most on a WAL without its first page, which it could have discarded, and the inductive invariant of the proofs holds; under fairness commits return once there are no readers and the store reopens, that WAL excepted |
| `free_list` | `FreeList.cfg` | no page is lost or handed out twice, the n-th pop computed without popping is the n-th pop, preallocation is exact, pages of the last manifest stay intact |
| `sync_allocator` | `SyncAllocator.cfg` | three workers: no page twice, every page inside the file, the file never shrinks |
| `beatree_update` | `BeatreeUpdate.cfg` | three syncs with up to three workers and a failing allocation: the tree is the map of the committed changes, nodes are well formed, pages of nodes are used or freed exactly once (those of overflow values are not: see below), neighbours agree on their border, workers never all wait for each other |
| `merkle` | `Merkle.cfg` | no panic; a seek finds the terminal and its siblings; the iterator over staged and stored values agrees with lookups; the root joined is that of the trie of the new values; the hash table holds exactly the trie, without the elided pages; replaying the WAL over a half-written table gives the new one, for sessions and overlays; the paths of the witness verify and prove every key once, and, when the workers finish in key order, reads and writes fit the paths they name and the update of the old root is the new one; the multi-proof of the paths verifies, confirms every key and, when no terminal has two siblings of its own, updates to the new root |
| `nomt` | `Nomt.cfg` | root, store and manifest move together; sessions, and the loads of their priors, read the values of their root; the log leads back through the states of the database also after crashes; rollbacks restore them; the database reopens; no assertion fails; live sessions prevent writes. With the exceptions each property states |
| `beatree_branches` | `BeatreeUpdate_branches.cfg` | violation, as the five below: see Findings |
| `merkle_overlay_deletes` | `Merkle_deletes.cfg` | |
| `nomt_begin_session` | `Nomt_begin.cfg` | |
| `nomt_rollback_all` | `Nomt_rollback.cfg` | |
| `store_recover_unsynced` | `StoreSync_recover.cfg` | |
| `store_ht_error` | `StoreSync_hterror.cfg` | |

Bounds, and why they are enough:

- `StoreSync`: two syncs, so that a WAL, a manifest and leaf pages of the sync
  before exist when the second is torn; two crashes, so that recovery is
  interrupted; one more leaf page than keys forces the reuse of freed pages; one
  reader at a time. The run has `WriteThrough = FALSE`; that it may be `TRUE`, with
  any power losses, is covered by the theorems, which have no bounds.
- `FreeList`: portions of 3 page numbers; five syncs that allocate up to 6 and free
  up to 5 pages cross every boundary of two portions, fragmented ones included.
- `SyncAllocator`: three workers and chunks of 2 pages, so that two workers find
  the file too short at once and a third passes by.
  In `FastPath` a relaxed load returns the value last seen or the newest; one in
  between leads a worker to its page or to the lock just as these two do.
- `BeatreeUpdate`: 16 keys filled by two syncs; the third deletes any run of keys
  and inserts at either end or in the middle. Leaves hold three or four cells of
  values of different sizes, so all kinds of splits, merges and range extensions
  occur, also the cell that takes a leaf from below the split target past its size.
  `BranchBody = 38` keeps the tree at two branches; with 20 there are three, which is
  the run `beatree_branches`. With a single worker all invariants hold there too.
- `MerkleUpdate`: the scenarios of `MCMerkle` start from tries on both sides of the
  elision threshold, cross it up and down, read absent keys, delete everything, and
  stack overlays; a cache of one page per shard forces eviction. Overlays that delete
  are there where no seek ends at a leaf behind a deleted key (see
  `merkle_overlay_deletes`). The threshold itself is taken from the code's constant:
  nothing observes a different one used consistently.
- `Nomt`: four scenarios. Two threads, three sessions and two overlays; the same
  without a rollback log and with four sessions, so that a root comes back; one
  thread that fills and prunes a log of three deltas with records of two pages, with
  a crash and one in its recovery; an I/O error with two crashes. Symmetry of threads
  and keys is sound: no definition tells them apart.

Deadlock is checked in `beatree_update` and `merkle`, whose only resting states have
a stuttering action of their own; the other runs end when their bounds are used up
or, `nomt`, in the deadlock of `nomt_begin_session`.

Fairness. `StoreSync` assumes weak fairness of every step of a running sync or
recovery: tasks run on their own threads and every wait is for a message that a
task sends also when it fails, or for readers, whose end is a premise of
`CommitReturns` and not a fairness assumption. `Nomt!FairSpec` assumes strong fairness of the steps
of a call, because waiters for the access lock are served in turn (`parking_lot`'s
lock is eventually fair), and that an application ends its sessions. Crashes, I/O
errors and new calls are never assumed to happen.

## Proofs

`StoreSyncProofs` proves, for any sets of keys, trie pages and leaf pages and any
bounds, under `StoreAssumption` (the types of the constants) and

    Safe == WriteThrough \/ ~LossAfterCrash

that `IInv` is an invariant of `Spec` (`InductiveInvariant`) and, from it,
`TypeCorrect`, `Consistency`, `Durability`, `Recoverability` and `OpenFailures`:
the invariants of the run `store`. `Safe` is needed: without it
the finding `store_recover_unsynced` refutes `ConsistentWhenIdle`.

The properties are not inductive: they speak of idle or crashed stores, and say
nothing of the middle of a sync. `IInv` adds what each phase has established:
which manifests the file may hold (`MetaInv`), that no page a manifest in question
uses is free or allocated (`FreeInv`), that the leaves of the running sync are in
their pages and, once fsynced, durable (`BeatreeInv`), that the WAL in the file is
that of the running sync, whole, before the manifest changes and until the hash
table is durable (`WalInv`), and which pages of the hash table are those of which
sync (`HtInv`). `Recoverable` and `OpenFailsNeedlessly` are part of it. Contents of files
appear only through `Left(f)`, the set of contents a crash may leave: a crash then
takes a subset, which keeps every conjunct (`CrashStep`), and the other steps are
about which elements are added and removed.

There is one lemma per action, with one step per conjunct. They are split along
the phases of a sync: `StoreSyncBitboxProofs` (lemmas on files, WAL steps),
`StoreSyncBeatreeProofs` (begin of a commit, leaves), `StoreSyncMetaProofs` (the
waits and the manifest), `StoreSyncPostProofs` (hash table, WAL, end of a commit)
and `StoreSyncProofs` (crashes, recovery, theorems); each extends the one before.

`StoreSyncRefinementProofs` proves, again under `Safe`, that `StoreSync` implements
`AtomicStore` (`Refinement`, the property `AtomicCommits` of the run `store`). The value in
effect is that of the oldest manifest the file may hold, so a commit takes effect
at the fsync of the manifest, or at a crash that leaves the new one. The argument
needs one invariant beyond `IInv`, inductive relative to it: the file may hold one
manifest, or, while the manifest is being synced and after an error of that step,
exactly the current and the next (`ManifestInv`). Each action is then shown to be a
step of the atomic store or a stutter; that `Serve` serves the value in effect is
`Consistency`. `NilAssumption` (the "no value" of the mapping is not a state) is
what makes the mapping well-defined.

`SyncAllocatorProofs` proves `PagesInsideFile`, `FileNeverShrinks` and `NoPageTwice`
for any number of workers, lengths and stale loads, under `AllocatorAssumption`. Its
invariant says that the lock has one holder, that no published length and no load of
it exceeds the length of the file, and that a worker past the growth has its page
inside the file. The assumption `GrowBy > 1` is needed to round a page number up to
a multiple that lies beyond it; the code's constant is far larger.

Only model-checked: all liveness properties, and everything about the other modules.
`FreeList`, the beatree and the trie modules are built from recursive operators, about which TLAPS cannot reason.

## Findings

Each is a run that TLC refutes, with the quotation in `PROJECT.json`.

- `beatree_branches`: a branch worker that hands a merged node to its left neighbour
  keeps the deletion of a branch that lies behind that node, though the range is the
  neighbour's now. The neighbour may put a branch at the same separator; if the right
  worker is joined last, its deletion removes it and the keys below are lost.
- `store_recover_unsynced`: recovery redoes pages from the WAL and truncates it
  without an fsync of the hash table file. A power loss after that leaves a mix of
  two syncs.
- `store_ht_error`: the completions of the page writes to the hash table are not
  looked at; a failed write goes unnoticed.
- `merkle_overlay_deletes`: a seek through an overlay that deletes a key may answer
  with the leaf of that key, still in the beatree.
- `nomt_begin_session`: `begin_session` holds a read transaction while it waits for
  the access lock; a commit that holds the lock waits for read transactions.
- `nomt_rollback_all`: rolling back all deltas of a log whose first segment has been
  pruned fails after the manifest is written, and the database does not open again.

Further defects that the models reach. The properties of the passing runs state them
as exceptions, or TLC refutes the definition named when it is put in the place of the
invariants of the cfg:

- `OverflowConserved` (`BeatreeUpdate.cfg`, `MaxFails = 0`): the pages of a replaced
  overflow value are not freed when no kept cell precedes it (`leaf_updater.rs:230`).
- `WitnessedOpsInScope` (`Merkle.cfg`): `witness.rs:64` calls `path_index` "The index
  of the path in the corresponding witness". `join` pairs paths in the order in which
  the workers finish with operations in key order, so that when workers finish out of
  key order an operation names the path of another (`merkle/mod.rs:366-398`) and the
  loop of `witness_check.rs` fails. Exception of `WitnessVerifies`.
- `MultiProofUpdates` (`Merkle.cfg`): `multi_proof.rs:686` says of `verify_update`:
  "Returns the root of the trie obtained after application of the given updates".
  `CommonSiblings::extend` pushes the siblings of a terminal's own in reverse
  (`multi_proof.rs:655-663`), so with two or more the root is another. Exception of
  `MultiProofVerifies`.
- A WAL whose first page was lost in a crash before its fsync makes `open` fail
  (`wal/read.rs:130`), although `bitbox/mod.rs:439` says of such a WAL: "the WAL holds
  data for a sync that never concluded. Safe to discard." Exception of `Reopens`;
  `OpenFailsNeedlessly` says that nothing would have been lost.
- A failed append to the rollback log leaves the root ahead of the store
  (`lib.rs:669-676`), the database is not poisoned, although `lib.rs:278` says: "A
  database becomes poisoned when an error occurred during a commit operation", and
  later records and restarts go by wrong record ids. Exception `append` of
  `RootMatchesStore`, `SessionReadsItsRoot`, `LogIsHistory`, `RollbackRestores` and
  `OpenFailuresExplained`.
- Without a rollback log, or on an overlay that another commit has left behind, a
  session may read values that are not those of its root; its commit is refused unless
  the root has come back to that value meanwhile (`lib.rs:314`, `lib.rs:717`).
  Exception of `SessionReadsItsRoot`, and `stale` of `RootMatchesStore`.
- Recovery removes the segments past the live end in ascending order
  (`seglog/mod.rs:463`); a crash after the first leaves a gap in the numbers, which
  the next scan refuses. Exception `swept` of `OpenFailuresExplained`.
- A crash that leaves zeros for the header of the last record makes recovery fail
  (`seglog/mod.rs:498`), although `seglog/mod.rs:684` means such records to be
  repaired by truncation: "In case a commit was interrupted, the last segment may contain
  records in inconsistent state." Exception `Unreadable` of `OpenFailuresExplained`.

Met while reading, outside the models' bounds: a hash table without an empty bucket
or tombstone makes the probe loop endless (`bitbox/mod.rs:708`); a key equal to the
last key path of a shard lies outside its worker's half-open range
(`merkle/worker.rs:301`); the manifest names the start of the rollback log before
the pruning, so the log grows by a record per restart (`rollback/mod.rs:250`);
`max_rollback_log_len` of 0 runs into the assertion of `prune_oldest`
(`seglog/mod.rs:288`); each session with a delta occupies two threads of a pool of
two (`rollback/reverse_delta_worker.rs:62`).

## Not modelled

- Byte layouts: nodes, the manifest, WAL entries, segment records and page ids are
  records, with sizes where the code decides by size. Field widths are not reached by
  any of the models' counters.
- The directory lock, the creation of files and `sys/`: calls of the operating system
  without interleaving in this code.
- io_uring and the page pool: the models see completions in any order and errors.
- `cache_prepopulate.rs` fills the page cache before the database is used; the leaf
  cache is the set of leaves it holds.
- `RwPassCell`: the borrow checker and assertions enforce its discipline; the workers
  of `MerkleUpdate` own their pages as it prescribes.
- Thread pools: a task runs as soon as it is scheduled. A pool that is too small is
  outside the models.
- Sessions that take no guard are `Nomt` without the steps in question.
- I/O errors of page and leaf loads, which end a session without a change to the
  database; the exhaustion of hash table buckets; metrics, and the programs around the database (torture, trickfs, benchtop, fuzz,
  examples).
