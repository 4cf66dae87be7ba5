------------------------------ MODULE HashTable ------------------------------
(***************************************************************************)
(* Bitbox's hash table of pages: the meta map with one byte per bucket,    *)
(* the probing of buckets, the allocation of a bucket, the preparation of  *)
(* a sync (meta map, pages to write, write-ahead log, updates of the page  *)
(* cache) and the replay of the log.  A table is [meta, data, occupied]:   *)
(* data[b] is [id, page], the label and the contents of bucket b.          *)
(***************************************************************************)
EXTENDS PageWalker

CONSTANTS NumBuckets,      \* buckets of the table
          TagUnit,         \* hashes that share a tag (2^57 in the code)
          PageHash(_)      \* the seeded hash of a page id

Buckets == 0..(NumBuckets - 1)
EMPTY == 0
TOMBSTONE == 127
FULL_MASK == 128
full_entry(hash) == FULL_MASK + hash \div TagUnit
full_count(meta) == Cardinality({b \in Buckets : meta[b] >= FULL_MASK})

NoPage == [id |-> <<-1>>, page |-> pristine_empty(TERMINATOR)]
EmptyTable == [meta |-> [b \in Buckets |-> EMPTY], data |-> [b \in Buckets |-> NoPage], occupied |-> 0]
----------------------------------------------------------------------------
ProbeSequence(id) == [id |-> id, hash |-> PageHash(id), bucket |-> PageHash(id) % NumBuckets, step |-> 0]
\* Triangular probing visits nothing new after this many steps.
PROBE_PERIOD == 2 * NumBuckets

Hint(meta, p) ==
  CASE meta[p.bucket] = EMPTY -> "empty"
    [] meta[p.bucket] = TOMBSTONE -> "tombstone"
    [] meta[p.bucket] = full_entry(p.hash) -> "possible_hit"
    [] OTHER -> "not_match"
\* Probes on until one of the given results; "spins" when it never comes.
ProbeUntil(meta, start, results) ==
  LET step(s, i) ==
        LET p == [s.p EXCEPT !.bucket = (@ + s.p.step) % NumBuckets, !.step = @ + 1]
        IN  IF s.result \in results THEN s ELSE [p |-> p, result |-> Hint(meta, p)]
      stop(s) == IF s.result \in results THEN s ELSE [s EXCEPT !.result = "spins"]
  IN  stop(Run(step, [p |-> start, result |-> "none"], [i \in 1..PROBE_PERIOD |-> i]))

\* PageLoader::probe: tombstones are passed over.
probe(meta, load) == ProbeUntil(meta, load, {"possible_hit", "empty"})
\* PageLoad::try_complete: the label tells a misprobe.
try_complete(data, load) == data[load.bucket].id = load.id

allocate_bucket(meta, id) == ProbeUntil(meta, ProbeSequence(id), {"tombstone", "empty"})
----------------------------------------------------------------------------
\* The bucket a page has before the sync, -1 when it has none.
HeldBucket(info, cells) ==
  CASE info.t = "known" -> info.b
    [] info.t = "dependent" /\ info.cell \in DOMAIN cells -> cells[info.cell]
    [] OTHER -> -1

\* One dirty page of prepare_sync.  s is [table, cells, wal, cache, ok].
PrepareClear(s, d, b) ==
  IF b = -1 THEN [s EXCEPT !.ok = FALSE]
  ELSE [s EXCEPT !.table.meta[b] = TOMBSTONE, !.table.occupied = @ - 1,
                 !.wal = Append(@, [t |-> "clear", bucket |-> b]),
                 !.cache = [x \in DOMAIN @ \ {d.id} |-> @[x]]]
PrepareWrite(s, d, b, fresh) ==
  [s EXCEPT !.table.meta[b] = IF fresh THEN full_entry(PageHash(d.id)) ELSE @,
            !.table.occupied = @ + (IF fresh THEN 1 ELSE 0),
            !.table.data[b] = [id |-> d.id, page |-> d.page],
            !.cells = IF fresh /\ d.bucket.t = "dependent" THEN (d.bucket.cell :> b) @@ @ ELSE @,
            !.wal = Append(@, [t |-> "update", id |-> d.id, diff |-> d.diff,
                               nodes |-> [i \in d.diff.changed |-> d.page.nodes[i]],
                               elided |-> d.page.elided, bucket |-> b]),
            !.cache = (d.id :> [page |-> d.page, bucket |-> b]) @@ @]
PreparePage(s, d) ==
  LET write(b, found) ==
        IF b # -1 THEN PrepareWrite(s, d, b, FALSE)
        ELSE IF found.result = "spins" THEN [s EXCEPT !.ok = FALSE]
        ELSE PrepareWrite(s, d, found.p.bucket, TRUE)
  IN  IF ~s.ok THEN s
      ELSE IF d.diff.cleared THEN PrepareClear(s, d, HeldBucket(d.bucket, s.cells))
      ELSE write(HeldBucket(d.bucket, s.cells), allocate_bucket(s.table.meta, d.id))
prepare_sync(table, cells, cache, changes) ==
  Run(PreparePage,
           [table |-> table, cells |-> cells, cache |-> cache, wal |-> <<>>, ok |-> TRUE], changes)
----------------------------------------------------------------------------
(***************************************************************************)
(* recover: the log is replayed over a table in which any of the pages of  *)
(* the interrupted sync may or may not have been written.                  *)
(***************************************************************************)
Replay(table, e) ==
  IF e.t = "clear" THEN [table EXCEPT !.meta[e.bucket] = TOMBSTONE]
  ELSE [table EXCEPT
         !.meta[e.bucket] = full_entry(PageHash(e.id)),
         !.data[e.bucket] = [id |-> e.id,
                             page |-> [nodes |-> [i \in NodeIndices |->
                                                   IF i \in DOMAIN e.nodes THEN e.nodes[i]
                                                   ELSE table.data[e.bucket].page.nodes[i]],
                                       elided |-> e.elided]]]
recover(table, wal) ==
  LET done(t) == [t EXCEPT !.occupied = full_count(t.meta)]
  IN  done(Run(Replay, table, wal))
=============================================================================
