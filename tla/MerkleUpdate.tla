---------------------------- MODULE MerkleUpdate ----------------------------
(***************************************************************************)
(* A session's update of the trie: the warm-up worker, the update workers  *)
(* that each own a shard of the pages, the root page updated by the last   *)
(* one to finish, the joining of their outputs into a new root, updated    *)
(* pages and a witness, and the commit of the pages to the hash table.     *)
(* Worker 0 is the warm-up worker, workers 1..NumWorkers update.           *)
(*                                                                         *)
(* A turn of a worker's loop runs under busy: what it shares with other    *)
(* workers within a turn (pages of the caches, the list of pending         *)
(* operations under its lock) commutes with their turns.                   *)
(***************************************************************************)
EXTENDS Seek, PathProofs

CONSTANTS NumWorkers,      \* commit_concurrency: workers and cache shards
          Scenarios,       \* [keys, sessions, overlay, cached] to start from
          PAGE_LIMIT,      \* pages a shard of the cache keeps
          LEAF_ITEMS,      \* values per leaf of the beatree
          BRANCH_LEAVES    \* leaves per branch of the beatree

VARIABLES todo,            \* the scenario's sessions still to run
          into_overlay,    \* whether sessions end in overlays
          layers,          \* the overlays not committed yet, oldest first
          values,          \* what the database holds for the session
          root,            \* the root the session started from
          phase,           \* of the session
          read_write,      \* its sorted operations
          warm,            \* the warm-up's [pages, paths]
          wk,              \* the workers
          busy,            \* the worker in the middle of a turn, -1 for none
          pending,         \* operations left for the root page
          passes,          \* write passes not consumed yet
          channel,         \* finished workers, in order
          result           \* of join

session == <<todo, into_overlay, layers, values, root, read_write>>
store == <<beatree, leaf_cache, table, cache, overlay, cells>>
update == <<warm, wk, busy, pending, passes, channel, result, phase>>
vars == <<session, store, update>>
----------------------------------------------------------------------------
(***************************************************************************)
(* Shards of the root page's children, and the regions of pages.           *)
(***************************************************************************)
\* shard_regions: the first and last child of the root page of a shard.
part == NUM_CHILDREN \div NumWorkers
remainder == NUM_CHILDREN % NumWorkers
ShardStart(i) == IF i >= remainder THEN part * i + remainder ELSE part * i + i
ShardCount(i) == IF i >= remainder THEN part ELSE part + 1
shard_regions(i) == [first |-> ShardStart(i), last |-> ShardStart(i) + ShardCount(i) - 1]
shard_index_for(first_ancestor) ==
  IF (part + 1) * remainder > first_ancestor THEN first_ancestor \div (part + 1)
  ELSE (first_ancestor - (part + 1) * remainder) \div part + remainder
contains_exclusive(region, id) ==
  id # ROOT_PAGE_ID /\ id[1] \in region.first..region.last
exclusive_min(region) == <<region.first>>
exclusive_max(region) == max_descendant(<<region.last>>)

\* binary_search_by_key over the operations: how many keys come before.
SearchKey(rw, key) == Cardinality({i \in DOMAIN rw : Before(rw[i][1], key)})
RangeStart(w) == SearchKey(read_write, min_key_path(exclusive_min(shard_regions(w - 1))))
RangeEnd(w) == SearchKey(read_write, max_key_path(exclusive_max(shard_regions(w - 1))))
----------------------------------------------------------------------------
(***************************************************************************)
(* The store a scenario starts from: a first session into an empty one.    *)
(***************************************************************************)
Apply(kv, changes) ==
  [k \in {x \in DOMAIN kv : x \notin DOMAIN changes} \cup {x \in DOMAIN changes : changes[x] # NoValue} |->
    IF k \in DOMAIN changes THEN changes[k] ELSE kv[k]]
SortedItems(kv) ==
  LET keys == SelectSeq(KeySeq, LAMBDA k : k \in DOMAIN kv)
  IN  [i \in DOMAIN keys |-> <<keys[i], kv[keys[i]]>>]
\* A beatree with full leaves and branches; separators as short as they can be.
Chunks(s, n) == [i \in 1..((Len(s) + n - 1) \div n) |-> SubSeq(s, (i - 1) * n + 1, Min({i * n, Len(s)}))]
Layout(items) ==
  LET leaves == Chunks(items, LEAF_ITEMS)
      prefix(i) == shared_bits(Last(leaves[i - 1])[1], leaves[i][1][1]) + 1
      separator(i) == IF i = 1 THEN FilledWith(<<>>, 0) ELSE FilledWith(Take(leaves[i][1][1], prefix(i)), 0)
  IN  [index |-> Chunks([i \in DOMAIN leaves |-> <<separator(i), i>>], BRANCH_LEAVES), leaves |-> leaves]

FirstWalk(items) ==
  conclude(advance_and_replace(NewWalker(TERMINATOR, <<>>, FALSE, Junk), <<>>, NewPosition, items))
FirstSync(walked) == prepare_sync(EmptyTable, <<>>, <<>>, walked.out)

NewWorker(ps) ==
  [pc |-> "off", then |-> "off", seeker |-> NewSeeker, pages |-> ps, warmed |-> <<>>,
   start |-> 0, end |-> 0, pushes |-> 0, skips |-> 0,
   walker |-> NewWalker(TERMINATOR, <<>>, FALSE, Junk), witness |-> <<>>, out |-> <<>>,
   root |-> <<>>, cmds |-> <<>>, ok |-> TRUE]
Idle == NewWorker([map |-> <<>>, warm |-> <<>>])
NoResult == [root |-> <<>>, pages |-> <<>>, paths |-> <<>>, reads |-> <<>>, writes |-> <<>>]

Init ==
  \E sc \in Scenarios :
    LET items == SortedItems([k \in sc.keys |-> "old"])
        walked == FirstWalk(items)
        synced == FirstSync(walked)
        all == [x \in DOMAIN synced.cache |-> synced.cache[x]]
    IN  /\ todo = sc.sessions
        /\ into_overlay = sc.overlay
        /\ layers = <<>>
        /\ values = [k \in sc.keys |-> "old"]
        /\ root = walked.root
        /\ phase = "idle"
        /\ read_write = <<>>
        /\ beatree = Layout(items)
        /\ leaf_cache = {}
        /\ table = synced.table
        /\ cache = [x \in DOMAIN all \cap {ROOT_PAGE_ID} |-> all[x]]
        /\ overlay = [values |-> <<>>, pages |-> <<>>]
        /\ cells = <<>>
        /\ warm = [pages |-> <<>>, paths |-> <<>>]
        /\ wk = [w \in 0..NumWorkers |-> Idle]
        /\ busy = -1 /\ pending = <<>> /\ passes = 0 /\ channel = <<>> /\ result = NoResult
----------------------------------------------------------------------------
(***************************************************************************)
(* What every worker does: submit_all, the continuing of requests whose    *)
(* page is at hand, and the receipt of a page.                             *)
(***************************************************************************)
Seeker(w) == wk[w].seeker
\* The turn goes on at pc, or it is over.
TurnOver == "take"
SetWorker(w, r) ==
  /\ wk' = [wk EXCEPT ![w] = r]
  /\ busy' = IF r.pc = TurnOver THEN -1 ELSE w
Mid(w, pc) == wk[w].pc = pc /\ wk[w].ok /\ busy \in {-1, w}

SubmitLoads(w) ==
  /\ Mid(w, "submit") /\ has_room(Seeker(w)) /\ Seeker(w).idle_loads # <<>>
  /\ LET set(n) == SetWorker(w, [wk[w] EXCEPT !.seeker = n.s, !.ok = n.ok])
     IN  set(submit_idle_page_loads(Seeker(w)))
  /\ UNCHANGED <<session, store, warm, pending, passes, channel, result, phase>>
SubmitRequest(w) ==
  /\ Mid(w, "submit") /\ has_room(Seeker(w)) /\ Seeker(w).idle_loads = <<>> /\ Seeker(w).idle # <<>>
  /\ LET set(n) == SetWorker(w, [wk[w] EXCEPT
                      !.seeker = n.s, !.ok = n.ok, !.pc = IF n.s.jobs = <<>> THEN "submit" ELSE "job",
                      !.pages.map = IF n.s.jobs = <<>> THEN @ ELSE Memoized(wk[w].pages, n.s.jobs[1].q)])
     IN  set(SubmitFirst(Seeker(w), wk[w].pages))
  /\ UNCHANGED <<session, store, warm, pending, passes, channel, result, phase>>
\* submit_all returns.
Submitted(w) ==
  /\ Mid(w, "submit") /\ (has_room(Seeker(w)) => Seeker(w).idle_loads = <<>> /\ Seeker(w).idle = <<>>)
  /\ SetWorker(w, [wk[w] EXCEPT !.pc = wk[w].then])
  /\ UNCHANGED <<session, store, warm, pending, passes, channel, result, phase>>

Continue(w) ==
  /\ Mid(w, "job")
  /\ LET again == Head(Seeker(w).jobs).again
         set(n, s) == SetWorker(w, [wk[w] EXCEPT
                        !.seeker = s, !.pages.map = n.map, !.ok = n.ok,
                        !.pc = IF again THEN "submit" ELSE IF s.jobs # <<>> THEN "job" ELSE wk[w].then])
         done(n) == set(n, JobDone(Seeker(w), n.r))
     IN  done(DoJob(Seeker(w), wk[w].pages))
  /\ UNCHANGED <<session, store, warm, pending, passes, channel, result, phase>>

\* handle_completion of a seeker: the load of q came back from the disk.
Received(w, q, then) ==
  LET b == Seeker(w).loads[q].bucket
      id == q.id
      read == IF id \in DOMAIN cache THEN cache[id].page ELSE table.data[b].page
      s == Arrived(Seeker(w), q, IF q.t = "leaf" THEN <<>> ELSE <<read>>)
      map == (id :> [page |-> read, origin |-> Persisted(Known(b))]) @@ wk[w].pages.map
      woken == [wk[w] EXCEPT !.seeker = s, !.then = then, !.pc = IF s.jobs = <<>> THEN then ELSE "job"]
  IN  CASE Misprobe(Seeker(w), q) ->
             /\ SetWorker(w, [wk[w] EXCEPT !.seeker = Idled(@, q), !.pc = then])
             /\ UNCHANGED <<cache, leaf_cache>>
        [] q.t = "merkle" /\ ~Misprobe(Seeker(w), q) ->
             /\ SetWorker(w, [woken EXCEPT !.pages.map = map])
             /\ cache' = IF id \in DOMAIN cache THEN cache ELSE (id :> [page |-> read, bucket |-> b]) @@ cache
             /\ UNCHANGED leaf_cache
        [] q.t = "leaf" ->
             /\ SetWorker(w, woken)
             /\ leaf_cache' = leaf_cache \cup {id[1]}
             /\ UNCHANGED cache
Receive(w, q, then) ==
  /\ Received(w, q, then)
  /\ UNCHANGED <<session, beatree, table, overlay, cells, warm, pending, passes, channel, result, phase>>

\* Seeker::push
Pushed(w, key) ==
  LET put(n) == [wk[w] EXCEPT !.seeker = PushRequest(@, n.r), !.ok = n.ok]
  IN  put(NewRequest(root, key))
----------------------------------------------------------------------------
(***************************************************************************)
(* The warm-up worker.                                                     *)
(***************************************************************************)
BeginSession ==
  /\ phase = "idle" /\ todo # <<>>
  /\ phase' = "warm_up"
  /\ read_write' = Head(todo).ops
  /\ wk' = [wk EXCEPT ![0] = [Idle EXCEPT !.pc = TurnOver, !.cmds = Head(todo).warm]]
  /\ warm' = [pages |-> <<>>, paths |-> <<>>]
  /\ result' = NoResult
  /\ UNCHANGED <<store, todo, into_overlay, layers, values, root, busy, pending, passes, channel>>

WarmTake ==
  /\ Mid(0, TurnOver) /\ FrontCompleted(Seeker(0))
  /\ warm' = [warm EXCEPT !.paths = (Head(Seeker(0).requests).key :> Head(Seeker(0).requests)) @@ @]
  /\ SetWorker(0, [wk[0] EXCEPT !.seeker = TakeFront(@)])
  /\ UNCHANGED <<session, store, pending, passes, channel, result, phase>>
WarmSubmit ==
  /\ Mid(0, TurnOver) /\ ~FrontCompleted(Seeker(0))
  /\ Seeker(0).idle # <<>> \/ Seeker(0).idle_loads # <<>> \/ LiveLoads(Seeker(0)) # {} \/ phase = "warm_up"
  /\ SetWorker(0, [wk[0] EXCEPT !.pc = "submit", !.then = "select"])
  /\ UNCHANGED <<session, store, warm, pending, passes, channel, result, phase>>
\* A command to warm a key, the word to finish, or a page, in any order.
WarmCommand ==
  /\ Mid(0, "select") /\ phase = "warm_up" /\ has_room(Seeker(0)) /\ wk[0].cmds # <<>>
  /\ LET set(n) == SetWorker(0, [n EXCEPT !.cmds = Tail(@), !.pc = TurnOver])
     IN  set(Pushed(0, Head(wk[0].cmds)))
  /\ UNCHANGED <<session, store, warm, pending, passes, channel, result, phase>>
WarmFinish ==
  /\ Mid(0, "select") /\ phase = "warm_up"
  /\ phase' = "draining"
  /\ SetWorker(0, [wk[0] EXCEPT !.pc = TurnOver])
  /\ UNCHANGED <<session, store, warm, pending, passes, channel, result>>
WarmReceive ==
  /\ Mid(0, "select") /\ \E q \in LiveLoads(Seeker(0)) : Receive(0, q, TurnOver)
\* Told to finish, it goes on until every request is answered.
WarmDrain ==
  /\ Mid(0, "select") /\ phase = "draining" /\ LiveLoads(Seeker(0)) = {}
  /\ SetWorker(0, [wk[0] EXCEPT !.pc = TurnOver])
  /\ UNCHANGED <<session, store, warm, pending, passes, channel, result, phase>>
\* update_and_prove: the warm-up is over, the workers start.
StartWorkers ==
  /\ phase = "draining" /\ wk[0].pc = TurnOver /\ Seeker(0).requests = <<>>
  /\ phase' = "update"
  /\ warm' = [warm EXCEPT !.pages = wk[0].pages.map]
  /\ passes' = NumWorkers
  /\ wk' = [w \in 0..NumWorkers |->
             IF w = 0 THEN Idle
             ELSE [NewWorker([map |-> <<>>, warm |-> wk[0].pages.map]) EXCEPT
                    !.pc = TurnOver, !.start = RangeStart(w), !.end = RangeEnd(w),
                    !.walker = NewWalker(root, <<ROOT_PAGE_ID>>, FALSE, Junk)]]
  /\ UNCHANGED <<session, store, busy, pending, channel, result>>
----------------------------------------------------------------------------
(***************************************************************************)
(* The update workers.                                                     *)
(***************************************************************************)
RW(from, to) == SubSeq(read_write, from + 1, to)
is_write(op) == op.t # "read"
is_read(op) == op.t # "write"
subtrie_ops(rw) ==
  LET writes == SelectSeq(rw, LAMBDA x : is_write(x[2]))
  IN  [i \in DOMAIN writes |-> <<writes[i][1], writes[i][2].v>>]
\* Where the batch of operations under a position ends.
BatchEnd(pos, start) ==
  Min({i \in start..Len(read_write) : i = Len(read_write) \/ ~subtrie_contains(pos, read_write[i + 1][1])})

\* The path of a terminal that was sought, as the witness records it.
Witnessed(seek, siblings, batch) ==
  [path |-> seek.pos, siblings |-> siblings, terminal |-> seek.terminal, batch |-> batch]
ActualSiblings(seek, walker) ==
  Run(LAMBDA s, x : [s EXCEPT ![x[2]] = x[1]], seek.siblings, walker.siblings)
Advanced(wkr, seek, from, to) ==
  LET ops == subtrie_ops(RW(from, to))
      put(v) == [wkr EXCEPT !.walker = v, !.ok = v.ok,
                            !.witness = Append(@, Witnessed(seek, ActualSiblings(seek, v), to - from))]
  IN  put(IF ops = <<>> THEN advance(wkr.walker, seek.pos)
          ELSE advance_and_replace(wkr.walker, View(wkr.pages), seek.pos, leaf_ops_spliced(seek.terminal, ops)))
\* handle_completion of a range updater for the batch that ends at end:
\* the worker and what is left for the root page.
ours(w, seek) ==
  LET start == wk[w].start
  IN  start # RangeStart(w) \/ RangeStart(w) = 0 \/ ~subtrie_contains(seek.pos, read_write[start][1])
HandleCompletion(w, wkr, seek, end) ==
  LET start == wkr.start
      shared == seek.page = <<>> \/ ~contains_exclusive(shard_regions(w - 1), seek.page[1])
  IN  IF ~ours(w, seek) THEN [wkr |-> wkr, pending |-> <<>>]
      ELSE IF shared
      THEN [wkr |-> [wkr EXCEPT !.witness = Append(@, Witnessed(seek, seek.siblings, end - start))],
            pending |-> <<[pos |-> seek.pos, t |-> "subtrie", from |-> start, to |-> end, node |-> seek.terminal]>>]
      ELSE [wkr |-> Advanced(wkr, seek, start, end), pending |-> <<>>]
\* Fault: keys covered by the batch are not skipped.
CountedAll(wkr, start, end) ==
  [wkr EXCEPT !.pushes = Max({0, wkr.pushes - (end - start)}), !.start = end]
\* The counts of keys to skip and of keys pushed, after a batch.
Counted(wkr, start, end) ==
  [wkr EXCEPT !.skips = Min({wkr.pushes, end - start}) - 1,
              !.pushes = Max({0, wkr.pushes - (end - start)}), !.start = end]

WarmedFirst(r) ==
  r.warmed # <<>> /\ (r.seeker.requests # <<>> => Before(r.warmed[1].key, Head(r.seeker.requests).key))
HasWork(w) == wk[w].start < wk[w].end \/ Seeker(w).requests # <<>>
\* A turn without any of these would change nothing.
CanMove(w) ==
  \/ WarmedFirst(wk[w]) \/ FrontCompleted(Seeker(w)) \/ LiveLoads(Seeker(w)) # {}
  \/ has_room(Seeker(w)) /\ (\/ Seeker(w).idle # <<>> \/ Seeker(w).idle_loads # <<>>
                            \/ wk[w].start + wk[w].pushes < wk[w].end)

\* The turn takes the next terminal, if there is one.
Take1(w) == IF WarmedFirst(wk[w]) THEN [wk[w] EXCEPT !.warmed = Tail(@)]
            ELSE [wk[w] EXCEPT !.seeker = TakeFront(@)]
TakeNothing(w) ==
  /\ Mid(w, TurnOver) /\ busy = -1 /\ HasWork(w) /\ CanMove(w)
  /\ ~WarmedFirst(wk[w]) /\ ~FrontCompleted(Seeker(w))
  /\ SetWorker(w, [wk[w] EXCEPT !.pc = "submit", !.then = "wait"])
  /\ UNCHANGED <<session, store, warm, pending, passes, channel, result, phase>>
SkipCompletion(w) ==
  /\ Mid(w, TurnOver) /\ busy = -1 /\ HasWork(w)
  /\ WarmedFirst(wk[w]) \/ FrontCompleted(Seeker(w))
  /\ wk[w].skips > 0
  /\ SetWorker(w, [Take1(w) EXCEPT !.skips = @ - 1, !.pc = "submit", !.then = "wait"])
  /\ UNCHANGED <<session, store, warm, pending, passes, channel, result, phase>>
TakeCompletion(w) ==
  /\ Mid(w, TurnOver) /\ busy = -1 /\ HasWork(w)
  /\ WarmedFirst(wk[w]) \/ FrontCompleted(Seeker(w))
  /\ wk[w].skips = 0
  /\ LET seek == IF WarmedFirst(wk[w]) THEN wk[w].warmed[1] ELSE Head(Seeker(w).requests)
         end == BatchEnd(seek.pos, wk[w].start)
         put(n) == /\ SetWorker(w, [Counted(n.wkr, wk[w].start, end) EXCEPT !.pc = "submit", !.then = "wait"])
                   /\ pending' = pending \o n.pending
     IN  put(HandleCompletion(w, Take1(w), seek, end))
  /\ UNCHANGED <<session, store, warm, passes, channel, result, phase>>

\* No room and loads under way: the turn ends with the next page.
WaitPage(w) ==
  /\ Mid(w, "wait") /\ ~has_room(Seeker(w)) /\ has_live_requests(Seeker(w))
  /\ \E q \in LiveLoads(Seeker(w)) : Receive(w, q, TurnOver)
GoOn(w) ==
  /\ Mid(w, "wait") /\ (has_room(Seeker(w)) \/ ~has_live_requests(Seeker(w)))
  /\ SetWorker(w, [wk[w] EXCEPT !.pc = "push"])
  /\ UNCHANGED <<session, store, warm, pending, passes, channel, result, phase>>

NextPush(w) == read_write[wk[w].start + wk[w].pushes + 1][1]
CanPush(w) == has_room(Seeker(w)) /\ wk[w].start + wk[w].pushes < wk[w].end
PushWarm(w) ==
  /\ Mid(w, "push") /\ CanPush(w) /\ NextPush(w) \in DOMAIN warm.paths
  /\ SetWorker(w, [wk[w] EXCEPT !.pushes = @ + 1, !.warmed = Append(@, warm.paths[NextPush(w)])])
  /\ UNCHANGED <<session, store, warm, pending, passes, channel, result, phase>>
PushSeek(w) ==
  /\ Mid(w, "push") /\ CanPush(w) /\ NextPush(w) \notin DOMAIN warm.paths
  /\ LET set(n) == SetWorker(w, [n EXCEPT !.pushes = @ + 1, !.pc = "submit", !.then = "push"])
     IN  set(Pushed(w, NextPush(w)))
  /\ UNCHANGED <<session, store, warm, pending, passes, channel, result, phase>>
TryReceive(w) ==
  /\ Mid(w, "push") /\ ~CanPush(w)
  /\ \/ \E q \in LiveLoads(Seeker(w)) : Receive(w, q, TurnOver)
     \/ /\ SetWorker(w, [wk[w] EXCEPT !.pc = TurnOver])
        /\ UNCHANGED <<session, store, warm, pending, passes, channel, result, phase>>

\* The worker's range is done: what it has for the root page is handed over
\* and its write pass consumed.  The last one updates the root page.
Conclude(w) ==
  /\ phase = "update" /\ Mid(w, TurnOver) /\ busy = -1 /\ ~HasWork(w)
  /\ LET put(v) ==
           /\ wk' = [wk EXCEPT ![w].pc = IF passes = 1 THEN "root" ELSE "send",
                               ![w].out = v.out, ![w].ok = v.ok, ![w].walker = v]
           /\ pending' = pending \o [i \in DOMAIN v.roots |->
                [pos |-> v.roots[i][1], t |-> "node", from |-> 0, to |-> 0, node |-> v.roots[i][2]]]
     IN  put(conclude(wk[w].walker))
  /\ passes' = passes - 1
  /\ UNCHANGED <<session, store, warm, busy, channel, result, phase>>

\* take_root_pending: by path, from left to right.
Rank(ops, i) == Cardinality({j \in DOMAIN ops :
  Before(path(ops[j].pos), path(ops[i].pos)) \/ (path(ops[j].pos) = path(ops[i].pos) /\ j < i)})
take_root_pending ==
  [n \in DOMAIN pending |-> pending[CHOOSE i \in DOMAIN pending : Rank(pending, i) = n - 1]]
RootStep(ps, v, op) ==
  IF op.t = "node" THEN advance_and_place_node(v, ps, op.pos, op.node)
  ELSE advance_and_replace(v, ps, op.pos, leaf_ops_spliced(op.node, subtrie_ops(RW(op.from, op.to))))
UpdateRoot(w) ==
  /\ Mid(w, "root") /\ busy = -1
  /\ LET ps == View(wk[w].pages)
         with == IF InMemory(ROOT_PAGE_ID) THEN (ROOT_PAGE_ID :> get_in_memory_page(ROOT_PAGE_ID)) @@ ps ELSE ps
         put(v) == wk' = [wk EXCEPT ![w].pc = "send", ![w].ok = v.ok, ![w].root = <<v.root>>, ![w].out = @ \o v.out]
     IN  put(conclude(Run(LAMBDA v, op : RootStep(with, v, op),
                               NewWalker(root, <<>>, FALSE, Junk), take_root_pending)))
  /\ pending' = <<>>
  /\ UNCHANGED <<session, store, warm, busy, passes, channel, result, phase>>
Send(w) ==
  /\ Mid(w, "send") /\ busy = -1
  /\ wk' = [wk EXCEPT ![w].pc = "off"]
  /\ channel' = Append(channel, w)
  /\ UNCHANGED <<session, store, warm, busy, pending, passes, result, phase>>
----------------------------------------------------------------------------
(***************************************************************************)
(* UpdateHandle::join, and what becomes of the outcome: it is committed,   *)
(* or kept as an overlay that is committed later.                          *)
(***************************************************************************)
Concat(seqs) == Run(LAMBDA a, b : a \o b, <<>>, seqs)
\* The operations of a path: those after the batches of the paths before it,
\* in the order in which the workers finished.
BatchOf(paths, n) ==
  LET from == Run(LAMBDA a, i : a + paths[i].batch, 0, [i \in 1..(n - 1) |-> i])
  IN  RW(from, from + paths[n].batch)
\* What the path's terminal says of a key.
LeafValue(p, key) == IF is_leaf(p.terminal) /\ p.terminal.key_path = key THEN p.terminal.value ELSE NoValue
WitnessedOp(key, value, n) == [key |-> key, value |-> value, path_index |-> n]
ReadsOf(paths, n) ==
  LET ops == SelectSeq(BatchOf(paths, n), LAMBDA x : is_read(x[2]))
  IN  [i \in DOMAIN ops |-> WitnessedOp(ops[i][1], LeafValue(paths[n], ops[i][1]), n)]
\* Fault: the index of the path is not advanced.
WritesOfFirst(paths, n) ==
  LET ops == subtrie_ops(BatchOf(paths, n))
  IN  [i \in DOMAIN ops |-> WitnessedOp(ops[i][1], ops[i][2], 1)]
WritesOf(paths, n) ==
  LET ops == subtrie_ops(BatchOf(paths, n))
  IN  [i \in DOMAIN ops |-> WitnessedOp(ops[i][1], ops[i][2], n)]
Join ==
  /\ phase = "update" /\ Len(channel) = NumWorkers
  /\ LET of(f(_)) == Concat([i \in DOMAIN channel |-> f(wk[channel[i]])])
         paths == of(LAMBDA r : r.witness)
     IN  result' = [root |-> of(LAMBDA r : r.root), pages |-> of(LAMBDA r : r.out), paths |-> paths,
                    reads |-> Concat([n \in DOMAIN paths |-> ReadsOf(paths, n)]),
                    writes |-> Concat([n \in DOMAIN paths |-> WritesOf(paths, n)])]
  /\ phase' = "joined"
  /\ channel' = <<>>
  /\ wk' = [w \in 0..NumWorkers |-> Idle]
  /\ UNCHANGED <<session, store, warm, busy, pending, passes>>

Changes(rw) ==
  LET writes == {i \in DOMAIN rw : is_write(rw[i][2])}
  IN  [k \in {rw[i][1] : i \in writes} |-> rw[CHOOSE i \in writes : rw[i][1] = k][2].v]
NewValues == Apply(values, Changes(read_write))
\* PageCache::evict: of every shard the least recently used pages go,
\* whichever they are.
Evicted(c) ==
  LET rest == DOMAIN c \ {ROOT_PAGE_ID}
      InShard(ids, i) == Cardinality({id \in ids : shard_index_for(id[1]) = i})
      kept == {k \in SUBSET rest : \A i \in 0..(NumWorkers - 1) :
                 InShard(k, i) = Min({PAGE_LIMIT, InShard(rest, i)})}
  IN  {[x \in k \cup (DOMAIN c \cap {ROOT_PAGE_ID}) |-> c[x]] : k \in kept}
\* The database after a commit of pages and values.
Commit(pages, kv) ==
  LET put(n) == /\ table' = n.table /\ cells' = n.cells /\ cache' \in Evicted(n.cache) /\ n.ok
  IN  /\ put(prepare_sync(table, cells, cache, pages))
      /\ beatree' = Layout(SortedItems(kv))
      /\ leaf_cache' = {}
EndSession ==
  /\ values' = NewValues /\ root' = result.root[1] /\ todo' = Tail(todo)
  /\ phase' = "idle" /\ read_write' = <<>> /\ result' = NoResult
  /\ warm' = [pages |-> <<>>, paths |-> <<>>]
CommitSession ==
  /\ phase = "joined" /\ ~into_overlay
  /\ Commit(result.pages, NewValues)
  /\ EndSession
  /\ UNCHANGED <<into_overlay, layers, overlay, wk, busy, pending, passes, channel>>

\* into_frozen_iter for an overlay: fresh pages get a cell for their bucket.
Frozen(n, d) == [d EXCEPT !.bucket = IF @ = Fresh THEN Dependent(<<n, d.id>>) ELSE @]
FrozenPages == [i \in DOMAIN result.pages |-> Frozen(Len(todo), result.pages[i])]
\* The live overlay over layers: the newest layer with a page or value wins.
Merged(ls) ==
  [values |-> Run(LAMBDA f, l : l.values @@ f, <<>>, ls),
   pages |-> Run(LAMBDA f, l :
               [x \in {l.pages[i].id : i \in DOMAIN l.pages} |->
                 l.pages[CHOOSE i \in DOMAIN l.pages : l.pages[i].id = x]] @@ f, <<>>, ls)]
IntoOverlay ==
  /\ phase = "joined" /\ into_overlay
  /\ layers' = Append(layers, [pages |-> FrozenPages, values |-> Changes(read_write), after |-> NewValues])
  /\ overlay' = Merged(layers')
  /\ EndSession
  /\ UNCHANGED <<beatree, leaf_cache, table, cache, cells, into_overlay, wk, busy, pending, passes, channel>>
\* The oldest overlay is committed.
CommitOverlay ==
  /\ phase = "idle" /\ layers # <<>>
  /\ Commit(layers[1].pages, layers[1].after)
  /\ layers' = Tail(layers)
  /\ overlay' = Merged(Tail(layers))
  /\ UNCHANGED <<todo, into_overlay, values, root, read_write, update>>

Done == phase = "idle" /\ todo = <<>> /\ layers = <<>> /\ UNCHANGED vars

Next ==
  \/ BeginSession \/ WarmTake \/ WarmSubmit \/ WarmCommand \/ WarmFinish \/ WarmReceive \/ WarmDrain
  \/ StartWorkers
  \/ \E w \in 0..NumWorkers : SubmitLoads(w) \/ SubmitRequest(w) \/ Submitted(w) \/ Continue(w)
  \/ \E w \in 1..NumWorkers :
       \/ TakeNothing(w) \/ SkipCompletion(w) \/ TakeCompletion(w) \/ WaitPage(w) \/ GoOn(w)
       \/ PushWarm(w) \/ PushSeek(w) \/ TryReceive(w)
       \/ Conclude(w) \/ UpdateRoot(w) \/ Send(w)
  \/ Join \/ CommitSession \/ IntoOverlay \/ CommitOverlay
  \/ Done
Spec == Init /\ [][Next]_vars
----------------------------------------------------------------------------
(***************************************************************************)
(* What the table holds, as a reader finds it: pages by probing, nodes     *)
(* below internal nodes only, elided pages not at all.                     *)
(***************************************************************************)
\* The page of id, in a singleton, or <<>>.
Find1(t, id) ==
  LET next(s, i) ==
        LET n == probe(t.meta, s.p)
        IN  IF s.result # "possible_hit" \/ try_complete(t.data, s.p) THEN s ELSE n
      end(s) == IF s.result = "possible_hit" /\ try_complete(t.data, s.p) THEN <<t.data[s.p.bucket].page>> ELSE <<>>
  IN  end(Run(next, probe(t.meta, ProbeSequence(id)), [i \in 1..NumBuckets |-> i]))
PrefixAt(id, i) ==
  PageBits(id) \o (CHOOSE b \in UNION {[1..d -> {0, 1}] : d \in 1..DEPTH} : node_index(b) = i)
PageIdsUpTo == UNION {[1..n -> 0..MAX_CHILD_INDEX] : n \in 0..MAX_PAGE_DEPTH}
\* The pages a trie needs: those below an internal node.
Needed(kv) ==
  {id \in PageIdsUpTo : Cardinality({k \in DOMAIN kv : IsPrefix(PageBits(id), k)}) > 1}
HoldsPage(kv, id, page) ==
  \A i \in NodeIndices :
    is_internal(TrieNode(kv, Front(PrefixAt(id, i)))) => page.nodes[i] = TrieNode(kv, PrefixAt(id, i))
Elided(found, id) == \E n \in 0..(Len(id) - 1) : found[Take(id, n)] # <<>> /\ id[n + 1] \in found[Take(id, n)][1].elided
Holds(t, kv) ==
  LET ids == Needed(kv)
      check(found) ==
        /\ \A id \in ids : IF Elided(found, id) THEN found[id] = <<>>
                           ELSE found[id] # <<>> /\ HoldsPage(kv, id, found[id][1])
        /\ t.occupied = Cardinality({id \in ids : found[id] # <<>>})
        /\ t.occupied = full_count(t.meta)
  IN  check([id \in ids |-> Find1(t, id)])
----------------------------------------------------------------------------
(***************************************************************************)
(* The witness as its verifier uses it.                                    *)
(***************************************************************************)
PathProof(p) == [terminal |-> Terminal(p.terminal, p.path), siblings |-> p.siblings]
VerifiedPath(p) == verify_path(PathProof(p), path(p.path), root)
\* The operations of the witness that name path n.
Naming(ops, n) == SelectSeq(ops, LAMBDA o : o.path_index = n)
\* The path updates that a verifier makes of the witness: in the order of the
\* paths, with the writes that name each.
Updates ==
  LET all == [n \in DOMAIN result.paths |->
               LET writes == Naming(result.writes, n)
               IN  [inner |-> VerifiedPath(result.paths[n]),
                    ops |-> [i \in DOMAIN writes |-> <<writes[i].key, writes[i].value>>]]]
  IN  SelectSeq(all, LAMBDA u : u.ops # <<>>)
ReadConfirmed(r) ==
  LET v == VerifiedPath(result.paths[r.path_index])
  IN  IF r.value = NoValue THEN confirm_nonexistence(v, r.key) ELSE confirm_value(v, r.key, r.value)
\* The workers that have paths finished from left to right.
PathsInOrder ==
  \A i \in 2..Len(result.paths) : Before(path(result.paths[i - 1].path), path(result.paths[i].path))
SortedPaths ==
  [n \in DOMAIN result.paths |->
    result.paths[CHOOSE i \in DOMAIN result.paths :
      Cardinality({j \in DOMAIN result.paths :
                     Before(path(result.paths[j].path), path(result.paths[i].path))}) = n - 1]]
\* What a proof should confirm of a key, and what the old trie has for it.
ProvesKey(confirm(_, _), none(_), k) ==
  IF k \in DOMAIN values THEN confirm(k, values[k]) ELSE none(k)
\* Extend pushes the siblings of a terminal's own in the wrong order: with two
\* of them multi_verify_update is not right.
OneSiblingEach(multi) == \A i \in DOMAIN multi.inner : multi.inner[i].unique[2] - multi.inner[i].unique[1] < 2
----------------------------------------------------------------------------
\* No worker runs into an assertion, an unwrap or an unreachable branch.
NoPanic == \A w \in 0..NumWorkers : wk[w].ok

\* A completed seek has found the terminal of its key in the trie of the
\* session's values, with the siblings on the way, whatever pages were
\* cached, elided and rebuilt, in an overlay or late; and the pages on the
\* way are in the page set for the walker.
SeekFindsTerminal ==
  \A w \in 0..NumWorkers : \A i \in DOMAIN Seeker(w).requests :
    LET r == Seeker(w).requests[i]
        bits == Take(r.key, TerminalDepth(values, r.key))
    IN  r.state = "completed" =>
          /\ path(r.pos) = bits
          /\ r.terminal = TrieNode(values, bits)
          /\ r.siblings = [d \in DOMAIN bits |-> TrieNode(values, path(sibling(from_bitslice(Take(bits, d)))))]
          /\ bits # <<>> => \A n \in 0..Len(page_id(r.pos)) : Take(page_id(r.pos), n) \in DOMAIN View(wk[w].pages)

\* Join yields one root: that of the trie of the values after the session,
\* whatever the workers' pages, caches, overlays and order were.
RootIsTrieRoot == phase = "joined" => result.root = <<TrieRoot(NewValues)>>

\* Between sessions the hash table holds the trie of the committed values:
\* probing finds every page that no page above elides, a page's nodes are
\* those of the trie wherever its junk can be told from them, and no bucket
\* is lost to a page that the trie has no more.
PagesHoldTheTrie == phase = "idle" /\ layers = <<>> => Holds(table, values)

\* A crash in the middle of writing a sync's pages to the hash table, of a
\* session or of an overlay: from whichever of them reached it, the redo log
\* (changed nodes only) restores the trie.
RedoRestores ==
  LET torn(n, bs, ms) ==
        [table EXCEPT !.meta = [b \in Buckets |-> IF b \in ms THEN n.table.meta[b] ELSE @[b]],
                      !.data = [b \in Buckets |-> IF b \in bs THEN n.table.data[b] ELSE @[b]]]
      changed(n) == {b \in Buckets : table.data[b] # n.table.data[b]}
      check(n, kv) == \A bs \in SUBSET changed(n), ms \in {{}, Buckets} :
                        Holds(recover(torn(n, bs, ms), n.wal), kv)
  IN  /\ phase = "joined" /\ ~into_overlay => check(prepare_sync(table, cells, cache, result.pages), NewValues)
      /\ phase = "idle" /\ layers # <<>> =>
           check(prepare_sync(table, cells, cache, layers[1].pages), layers[1].after)

\* Whatever two of the keys are staged as, changed or deleted, in the newer map,
\* the older one or both, a read transaction's iterator over a range of the
\* committed beatree yields, in order, exactly the keys with a value there, with
\* the value that a lookup of the key answers.
IteratorAgreesWithLookup ==
  phase = "idle" /\ layers = <<>> =>
    LET maybe(k) == {<<>>, << <<k, NoValue>> >>, << <<k, "staged">> >>}
        staged == {a \o b : a \in maybe(KeySeq[2]), b \in maybe(KeySeq[4])}
        of(p, s, k) == lookup(p, s, beatree.index, beatree.leaves, k)
        reference(p, s, start, end) ==
          SelectSeq([i \in DOMAIN KeySeq |-> <<KeySeq[i], of(p, s, KeySeq[i])>>],
                    LAMBDA x : NotBefore(x[1], start) /\ Under(x[1], end) /\ x[2] # NoValue)
        check(n, items) == n.out = "end" /\ n.items = items
    IN  \A p \in staged, s \in staged, start \in {KeySeq[1], KeySeq[3]}, end \in {<<>>, <<KeySeq[4]>>} :
          check(Iterated(p, s, beatree.index, beatree.leaves, start, end), reference(p, s, start, end))

\* The witness of a session, used as the repository's test of it does
\* (witness_check.rs): every path verifies against the old root, and exactly
\* one proves what the old trie has for a key of the session.  When the workers
\* finished from left to right, every read is confirmed by the path whose index
\* it carries, with its value in the old trie, and the updates made of the paths
\* and of the writes that name them turn the old root into the session's.  When
\* they did not, join pairs paths with the operations of others: nothing is
\* claimed of the indices then (see the README).
WitnessVerifies ==
  phase = "joined" =>
    /\ \A i \in DOMAIN result.paths : VerifiedPath(result.paths[i]).ok
    /\ \A j \in DOMAIN read_write :
         Cardinality({i \in DOMAIN result.paths :
           LET v == VerifiedPath(result.paths[i])
           IN  ProvesKey(LAMBDA k, x : confirm_value(v, k, x), LAMBDA k : confirm_nonexistence(v, k),
                         read_write[j][1])}) = 1
    /\ PathsInOrder =>
         /\ \A i \in DOMAIN result.reads :
              LET r == result.reads[i]
              IN  ReadConfirmed(r) /\ r.value = (IF r.key \in DOMAIN values THEN values[r.key] ELSE NoValue)
         /\ verify_update(root, Updates) = [ok |-> TRUE, root |-> result.root[1]]

\* The multi-proof that a prover makes of the witness's paths, sorted as
\* from_path_proofs asks, verifies against the old root and confirms what the
\* old trie has for every key of the session.  Updating through it gives the
\* session's root if every terminal has at most one sibling of its own; the
\* code is wrong for terminals with more (see the README).
MultiProofVerifies ==
  phase = "joined" /\ result.paths # <<>> =>
    LET check(multi) ==
          /\ multi.ok
          /\ \A j \in DOMAIN read_write :
               ProvesKey(LAMBDA k, v : multi_confirm_value(multi, k, v),
                         LAMBDA k : multi_confirm_nonexistence(multi, k), read_write[j][1])
          /\ OneSiblingEach(multi) =>
               multi_verify_update(multi, subtrie_ops(read_write)) = [ok |-> TRUE, root |-> result.root[1]]
    IN  check(verify_multi(from_path_proofs([i \in DOMAIN SortedPaths |-> PathProof(SortedPaths[i])]), root))

\* Every write of the witness lies under the path that it names.  The code does
\* not keep this when the workers finish out of order (see the README).
WitnessedOpsInScope ==
  phase = "joined" =>
    \A i \in DOMAIN result.writes :
      subtrie_contains(result.paths[result.writes[i].path_index].path, result.writes[i].key)
\* Updating through the multi-proof gives the session's root, as verify_update
\* says.  The code does not keep this (see the README).
MultiProofUpdates ==
  phase = "joined" /\ result.paths # <<>> =>
    multi_verify_update(verify_multi(from_path_proofs([i \in DOMAIN SortedPaths |-> PathProof(SortedPaths[i])]), root),
                        subtrie_ops(read_write)) = [ok |-> TRUE, root |-> result.root[1]]
=============================================================================
