-------------------------------- MODULE Seek --------------------------------
(***************************************************************************)
(* Seeking the terminals of keys.  A seeker keeps a queue of requests,     *)
(* answered in order, and multiplexes their page loads.  A page set is     *)
(* [map, warm]: the pages of this worker and those of the warm-up.  The    *)
(* operators that work for one request answer [r, map, ok], ok FALSE when  *)
(* the code panics.                                                        *)
(***************************************************************************)
EXTENDS HashTable, BeatreeRead

CONSTANTS KeySeq,          \* every key, in order
          MAX_INFLIGHT,    \* page loads a seeker may wait for
          Junk             \* what a fresh page holds

VARIABLES beatree,         \* [index, leaves]: the values on disk
          leaf_cache,      \* page numbers of the cached leaves
          table,           \* bitbox's hash table
          cache,           \* the page cache: page id -> [page, bucket]
          overlay,         \* the live overlay: [values, pages]
          cells            \* buckets filled in for the pages of overlays

View(ps) == ps.map @@ ps.warm
\* get_in_memory_page, for a page that is in memory.
InMemory(id) == id \in DOMAIN overlay.pages \/ id \in DOMAIN cache
OverlayBucket(info) ==
  IF info.t = "dependent" /\ info.cell \in DOMAIN cells THEN Known(cells[info.cell]) ELSE info
\* Fault: the page cache is asked before the overlay.
get_in_memory_page_cached(id) ==
  IF id \in DOMAIN cache THEN [page |-> cache[id].page, origin |-> Persisted(Known(cache[id].bucket))]
  ELSE [page |-> overlay.pages[id].page, origin |-> Persisted(OverlayBucket(overlay.pages[id].bucket))]
get_in_memory_page(id) ==
  IF id \in DOMAIN overlay.pages
  THEN [page |-> overlay.pages[id].page, origin |-> Persisted(OverlayBucket(overlay.pages[id].bucket))]
  ELSE [page |-> cache[id].page, origin |-> Persisted(Known(cache[id].bucket))]

\* The bounds of the keys below a position: [start, end), end <<>> for none.
range_bounds(pos) ==
  LET start == pos.path
      zeros == {d \in 1..pos.depth : start[d] = 0}
      last == Max(zeros)
  IN  IF pos.depth = 0 THEN [start |-> NewPosition.path, end |-> <<>>]
      ELSE [start |-> start,
            end |-> IF zeros = {} THEN <<>>
                    ELSE <<[d \in 1..KeyBits |-> IF d < last THEN start[d] ELSE IF d = last THEN 1
                                                 ELSE IF d <= pos.depth THEN 0 ELSE start[d]]>>]
\* LiveOverlay::value_iter
value_iter(range) ==
  LET within(k) == k \in DOMAIN overlay.values /\ NotBefore(k, range.start) /\ Under(k, range.end)
      keys == SelectSeq(KeySeq, within)
  IN  [i \in DOMAIN keys |-> <<keys[i], overlay.values[keys[i]]>>]
----------------------------------------------------------------------------
NoFetch == <<>>
Step(r, map, ok) == [r |-> r, map |-> map, ok |-> ok]
Completed(r, terminal) == [r EXCEPT !.state = "completed", !.terminal = terminal, !.fetch = NoFetch]
BeginFetch(r, state, range, page) ==
  LET it == NewIterator(<<>>, <<>>, beatree.index, range.start, range.end)
  IN  [r EXCEPT !.state = state,
                !.fetch = <<[it |-> it, needed |-> needed_leaves(beatree.index, it.leaf, range.end),
                             range |-> range, page |-> page, items |-> <<>>]>>]

\* The iterator's run after it got the leaf pn (<<pn>>), or without one.
RunFetch(f, pn) ==
  LET it == IF pn = <<>> THEN f.it
            ELSE [f.it EXCEPT !.leaf = provide_leaf(beatree.index, beatree.leaves, @, pn[1], f.range.end)]
  IN  it
continue_leaf_fetch(r, map, pn) ==
  LET f == r.fetch[1]
      end(n) == CASE n.items # <<>> -> Step(Completed(r, hash_leaf(n.items[1][1], n.items[1][2])), map, TRUE)
                  [] n.items = <<>> /\ n.out = "blocked" -> Step([r EXCEPT !.fetch[1].it = n.it], map, TRUE)
                  [] OTHER -> Step(r, map, FALSE)
  IN  end(Drain(beatree.index, beatree.leaves, RunFetch(f, pn), f.range.end, 1))
begin_leaf_fetch(r, map) ==
  LET range == range_bounds(r.pos)
      live == SelectSeq(value_iter(range), LAMBDA x : x[2] # NoValue)
  IN  IF live # <<>> THEN Step(Completed(r, hash_leaf(live[1][1], live[1][2])), map, TRUE)
      ELSE continue_leaf_fetch(BeginFetch(r, "fetching_leaf", range, <<>>), map, <<>>)

\* The values of the beatree overridden by those of the overlay.  s is
\* [idx, out, ok]: how far the former were taken, and what was collected.
Override(collected, s, change) ==
  LET key == change[1]
      idx == s.idx + Cardinality({i \in (s.idx + 1)..Len(collected) : Before(collected[i][1], key)})
      here == idx < Len(collected) /\ collected[idx + 1][1] = key
      out == s.out \o SubSeq(collected, s.idx + 1, idx)
  IN  IF change[2] = NoValue THEN [idx |-> idx, out |-> out, ok |-> s.ok /\ here]
      ELSE [idx |-> IF here THEN idx + 1 ELSE idx, out |-> Append(out, change), ok |-> s.ok]
Overridden(collected, changes) ==
  LET rest(s) == [out |-> s.out \o Drop(collected, s.idx), ok |-> s.ok]
  IN  IF collected = <<>>
      THEN [out |-> changes, ok |-> \A i \in DOMAIN changes : changes[i][2] # NoValue]
      ELSE rest(Run(LAMBDA s, c : Override(collected, s, c), [idx |-> 0, out |-> <<>>, ok |-> TRUE], changes))

Rebuild(r, map, warm, f, items) ==
  LET id == r.page[1]
      built == Overridden(items, value_iter(f.range))
      done(n) == Step([r EXCEPT !.state = "seeking", !.fetch = NoFetch], n.pages @@ map, built.ok /\ n.ok)
  IN  IF child_page_id(id, child_page_index(r.pos)) \in DOMAIN map
      THEN Step([r EXCEPT !.state = "seeking", !.fetch = NoFetch], map, built.ok)
      ELSE done(reconstruct_pages(f.page, id, r.pos, map @@ warm, built.out, Junk))
continue_leaves_fetch(r, map, warm, pn) ==
  LET f == r.fetch[1]
      end(n) == IF n.out = "blocked"
                THEN Step([r EXCEPT !.fetch[1].it = n.it, !.fetch[1].items = @ \o n.items], map, TRUE)
                ELSE Rebuild(r, map, warm, f, f.items \o n.items)
  IN  end(Drain(beatree.index, beatree.leaves, RunFetch(f, pn), f.range.end, 0))
----------------------------------------------------------------------------
\* SeekRequest::new
NewRequest(root, key) ==
  LET r == [key |-> key, pos |-> NewPosition, page |-> <<>>, siblings |-> <<>>,
            state |-> "seeking", fetch |-> NoFetch, terminal |-> TERMINATOR]
  IN  CASE is_terminator(root) -> Step(Completed(r, TERMINATOR), <<>>, TRUE)
        [] is_leaf(root) -> begin_leaf_fetch(r, <<>>)
        [] OTHER -> Step(r, <<>>, TRUE)

\* One bit further down in a page; s is [pos, siblings, node].
Descend(page, key, s) ==
  LET pos == down(s.pos, key[s.pos.depth + 1])
  IN  IF ~is_internal(s.node) THEN s
      ELSE [pos |-> pos, siblings |-> Append(s.siblings, page.nodes[sibling_index(pos.node_index)]),
            node |-> page.nodes[pos.node_index]]
\* continue_seek, with any fetch it begins.
continue_seek(r, map, warm, id, page) ==
  LET start == [pos |-> r.pos, siblings |-> r.siblings, node |-> hash_internal(TERMINATOR, TERMINATOR)]
      bits == Min({DEPTH, KeyBits - r.pos.depth})
      at(s) ==
        LET here == [r EXCEPT !.pos = s.pos, !.siblings = s.siblings, !.page = <<id>>]
            child == child_page_index(s.pos)
        IN  CASE is_leaf(s.node) -> begin_leaf_fetch(here, map)
              [] is_terminator(s.node) -> Step(Completed(here, TERMINATOR), map, TRUE)
              [] OTHER ->
                   IF child \notin page.elided \/ child_page_id(id, child) \in DOMAIN map
                   THEN Step(here, map, TRUE)
                   ELSE continue_leaves_fetch(BeginFetch(here, "fetching_leaves", range_bounds(s.pos), page),
                                              map, warm, <<>>)
  IN  at(Run(LAMBDA s, i : Descend(page, r.key, s), start, [i \in 1..bits |-> i]))
----------------------------------------------------------------------------
(***************************************************************************)
(* The seeker.  A page load is known by its query; waiters gives the       *)
(* requests that wait for it, loads its probe sequence.                    *)
(***************************************************************************)
MerklePage(id) == [t |-> "merkle", id |-> id]
LeafPage(pn) == [t |-> "leaf", id |-> <<pn>>]

NewSeeker == [processed |-> 0, requests |-> <<>>, waiters |-> <<>>, loads |-> <<>>,
              idle |-> <<>>, idle_loads |-> <<>>, jobs |-> <<>>]
has_room(s) == Cardinality(DOMAIN s.waiters) < MAX_INFLIGHT
has_live_requests(s) == Len(s.idle_loads) < Cardinality(DOMAIN s.loads)
LiveLoads(s) == DOMAIN s.loads \ ToSet(s.idle_loads)
FrontCompleted(s) == s.requests # <<>> /\ Head(s.requests).state = "completed"
Request(s, i) == s.requests[i - s.processed + 1]

\* The query a request makes next: <<>> for none.
next_query(r) ==
  CASE r.state = "seeking" ->
         <<MerklePage(IF r.page = <<>> THEN ROOT_PAGE_ID ELSE child_page_id(r.page[1], child_page_index(r.pos)))>>
    [] r.state = "completed" -> <<>>
    [] OTHER -> IF r.fetch[1].needed = <<>> THEN <<>> ELSE <<LeafPage(Head(r.fetch[1].needed))>>
Asked(r) == IF r.state \in {"seeking", "completed"} THEN r ELSE [r EXCEPT !.fetch[1].needed = Tail(@)]

TakeFront(s) == [s EXCEPT !.requests = Tail(@), !.processed = @ + 1]
PushRequest(s, r) ==
  [s EXCEPT !.requests = Append(@, r), !.idle = Append(@, s.processed + Len(s.requests))]

\* submit_idle_page_load: [s, ok], ok FALSE when the page is not in the table.
Resubmit(a, q) ==
  LET sent(n) == [s |-> [a.s EXCEPT !.loads[q] = n.p], ok |-> a.ok /\ n.result = "possible_hit"]
  IN  IF q.t = "leaf" THEN a ELSE sent(probe(table.meta, a.s.loads[q]))
submit_idle_page_loads(s) ==
  Run(Resubmit, [s |-> [s EXCEPT !.idle_loads = <<>>], ok |-> TRUE], s.idle_loads)

\* What continues request i: the page of query q, <<>> for a leaf.
Job(i, q, page, again) == [i |-> i, q |-> q, page |-> page, again |-> again]
\* A request waits for a page: with others, or behind a load of its own.
Await(s, i, q) ==
  IF q \in DOMAIN s.waiters THEN [s |-> [s EXCEPT !.waiters[q] = Append(@, i)], ok |-> TRUE]
  ELSE Resubmit([s |-> [s EXCEPT !.waiters = (q :> <<i>>) @@ @, !.loads = (q :> ProbeSequence(q.id)) @@ @],
                 ok |-> TRUE], q)
\* The page of id at hand: the page set's before any other in memory.
AtHand(ps, q) ==
  IF q.t = "leaf" THEN <<>>
  ELSE <<IF q.id \in DOMAIN View(ps) THEN View(ps)[q.id].page ELSE get_in_memory_page(q.id).page>>
\* The first idle request of submit_idle_key_path_requests, up to its next
\* page: the page is at hand (a job continues it) or it waits.
SubmitFirst(s, ps) ==
  LET i == Head(s.idle)
      rest == [s EXCEPT !.idle = Tail(@)]
      r == Request(s, i)
      asked == [rest EXCEPT !.requests[i - s.processed + 1] = Asked(r)]
      ask(q) == IF (q.t = "merkle" /\ (q.id \in DOMAIN View(ps) \/ InMemory(q.id)))
                   \/ (q.t = "leaf" /\ q \notin DOMAIN s.waiters /\ q.id[1] \in leaf_cache)
                THEN [s |-> [asked EXCEPT !.jobs = <<Job(i, q, AtHand(ps, q), TRUE)>>], ok |-> TRUE]
                ELSE Await(asked, i, q)
  IN  IF i < s.processed \/ next_query(r) = <<>> THEN [s |-> rest, ok |-> TRUE]
      ELSE ask(next_query(r)[1])
\* The page map after the query of a job: a page of the overlay or the cache
\* replaces the page set's own, though the job goes on with the latter.
Memoized(ps, q) ==
  IF q.t = "merkle" /\ InMemory(q.id) THEN (q.id :> get_in_memory_page(q.id)) @@ ps.map
  ELSE ps.map

\* A load came back: the requests that waited for it become jobs.
Arrived(s, q, page) ==
  LET waiting == SelectSeq(s.waiters[q], LAMBDA i : i >= s.processed)
  IN  [s EXCEPT !.waiters = [x \in DOMAIN @ \ {q} |-> @[x]],
                !.loads = [x \in DOMAIN @ \ {q} |-> @[x]],
                !.jobs = [n \in DOMAIN waiting |-> Job(waiting[n], q, page, FALSE)]]
Misprobe(s, q) == q.t = "merkle" /\ ~try_complete(table.data, s.loads[q])
Idled(s, q) == [s EXCEPT !.idle_loads = Append(@, q)]

\* The first job done, its request now r.
JobDone(s, r) ==
  LET j == Head(s.jobs)
      t == [s EXCEPT !.jobs = Tail(@), !.requests[j.i - s.processed + 1] = r]
  IN  IF j.again THEN [t EXCEPT !.idle = <<j.i>> \o @]
      ELSE IF r.state # "completed" THEN [t EXCEPT !.idle = Append(@, j.i)] ELSE t
DoJob(s, ps) ==
  LET j == Head(s.jobs)
      r == Request(s, j.i)
  IN  CASE j.q.t = "merkle" -> continue_seek(r, ps.map, ps.warm, j.q.id, j.page[1])
        [] r.state = "fetching_leaf" -> continue_leaf_fetch(r, ps.map, j.q.id)
        [] OTHER -> continue_leaves_fetch(r, ps.map, ps.warm, j.q.id)
=============================================================================
