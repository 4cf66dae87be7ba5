--------------------------- MODULE BeatreeUpdate ---------------------------
(***************************************************************************)
(* ops::update: a sync applies a changeset to the beatree.  The leaf stage *)
(* splits the changeset among workers, each of which owns a range of       *)
(* leaves; a worker whose last leaf becomes too small takes leaves from    *)
(* its right neighbour over channels (the extend-range protocol).  The     *)
(* branch stage does the same with the branches, whose changes are the     *)
(* leaves the first stage made.  Nodes are never changed in place: every   *)
(* new node has a new page.                                                *)
(***************************************************************************)
EXTENDS LeafUpdate, BranchUpdate

CONSTANTS
  Workers,     \* 1..n: the commit workers
  Large,       \* the values that do not fit in a leaf
  Changesets,  \* for each sync, the changesets it may get: sequences of [k, new]
  MaxFails     \* bound: page allocations that fail

ASSUME UpdateAssumption ==
  /\ Workers = 1..Cardinality(Workers) /\ MaxFails \in Nat
  /\ \A n \in DOMAIN Changesets : \A cs \in Changesets[n] : cs # <<>>

MaxSyncs == Len(Changesets)

VARIABLES
  stage,    \* "idle", "leaf", "branch" or "failed"
  syncs,    \* syncs started
  fails,    \* allocations that have failed
  kv,       \* what has been committed: key -> set of at most one value
  ln,       \* the leaf file: page -> leaf
  ovf,      \* the leaf file's overflow pages: page -> value
  bbn,      \* the branch file: the pages written
  freed,    \* the pages freed by the last sync: [ln, bbn]
  index,    \* the branch index: separator -> [node, pn]
  chg,      \* the changeset of the stage
  out,      \* the output of the stage so far: sequence of [k, new]
  w,        \* the workers of the stage
  chan,     \* worker -> the worker whose request is in its channel, or 0
  resp      \* worker -> set of at most one response on its way
files == <<ln, ovf, bbn, freed, index>>
vars == <<stage, syncs, fails, kv, files, chg, out, w, chan, resp>>

\* Every page allocated has a name of its own.
PageName(kind, i, n) == ((syncs * 3 + kind) * 4 + i) * 32 + n
AllKeys == [n \in 1..2^KeyBits |-> n - 1]
SortedKeys(S) == SelectSeq(AllKeys, LAMBDA k : k \in S)
TheOnly(S) == CHOOSE x \in S : TRUE

(***************************************************************************)
(* Lookups in the index.                                                   *)
(***************************************************************************)
IndexLookup(key) == {s \in DOMAIN index : s <= key /\ \A t \in DOMAIN index : t <= key => t <= s}
NextKey(key) == LET next == {s \in DOMAIN index : s > key} IN IF next = {} THEN None ELSE Min(next)

IndexedBranch(key) ==
  {[sep |-> s, cutoff |-> NextKey(key), pn |-> index[s].pn, node |-> index[s].node] :
     s \in IndexLookup(key)}
\* indexed_leaf: separator, next separator and page of the leaf that covers a key.
LeafAt(b, i, next) ==
  [sep |-> BranchKey(b, i), pn |-> b.pns[i + 1],
   cutoff |-> IF i + 1 < BranchN(b) THEN BranchKey(b, i + 1) ELSE next]
IndexedLeaf(key) ==
  UNION {{LeafAt(index[s].node, i, NextKey(key)) : i \in search_branch(index[s].node, key)} :
           s \in IndexLookup(key)}

\* lookup: the leaf, the cell and, for an overflow cell, the overflow page.
\* A value n that fits in a leaf has n bytes.
ValueBytes(n) == [i \in 1..n |-> n]
CellValue(c) ==
  IF c.o THEN {ovf[p] : p \in {c.v[1]} \cap DOMAIN ovf} ELSE {n \in {Len(c.v)} : c.v = ValueBytes(n)}
Lookup(key) ==
  UNION {UNION {CellValue(c) : c \in LeafGet(ln[l.pn], key)} :
           l \in {l \in IndexedLeaf(key) : l.pn \in DOMAIN ln}}
----------------------------------------------------------------------------
(***************************************************************************)
(* NodesTracker: inner maps a separator to the page deleted there, the     *)
(* node inserted there and the next separator; pend is a node taken from   *)
(* the right worker; extra are pages allocated and given up again.         *)
(***************************************************************************)
NewTracker == [inner |-> <<>>, pend |-> {}, extra |-> <<>>]
Entry(tr, key) ==
  IF key \in DOMAIN tr.inner THEN tr.inner[key] ELSE [del |-> None, ins |-> {}, next |-> None]
WithEntry(tr, key, e) == [tr EXCEPT !.inner = (key :> e) @@ @]
TrackDelete(tr, key, pn, next) ==
  WithEntry(tr, key, [Entry(tr, key) EXCEPT !.del = pn, !.next = next])
TrackInsert(tr, key, node, next, pn) ==
  WithEntry(tr, key, [Entry(tr, key) EXCEPT !.ins = {[node |-> node, pn |-> pn]}, !.next = next])
\* Fault: the page of a node taken from the right worker is not given up.
TrackPendingKept(tr, key, e) ==
  [tr EXCEPT !.pend = {[sep |-> key, node |-> TheOnly(e.ins).node, cutoff |-> e.next]}]
\* set_pending_base, for the last entry of a response.
TrackPending(tr, key, e) ==
  LET got == TheOnly(e.ins)
  IN  [tr EXCEPT !.pend = {[sep |-> key, node |-> got.node, cutoff |-> e.next]},
                 !.extra = Append(@, got.pn)]

(***************************************************************************)
(* The two stages differ in their nodes and updaters.                      *)
(***************************************************************************)
NodeOf(st, key) == IF st = "leaf" THEN IndexedLeaf(key) ELSE IndexedBranch(key)
ReadNode(st, x) == IF st = "leaf" THEN ln[x.pn] ELSE x.node
ResetBase(st, u, node, sep, cutoff) ==
  IF st = "leaf" THEN LeafResetBase(u, node, sep, cutoff) ELSE BranchResetBase(u, node, cutoff)
InScope(u, key) == IF stage = "leaf" THEN LeafInScope(u, key) ELSE BranchInScope(u, key)
Ingest(u, c) == IF stage = "leaf" THEN LeafIngest(u, c.k, c.new) ELSE BranchIngest(u, c.k, c.new)
Digest(u) == IF stage = "leaf" THEN LeafDigest(u) ELSE BranchDigest(u)

(***************************************************************************)
(* prepare_workers: find the node of the pivot change and start the next   *)
(* worker at that node; the leaf stage starts none at the last leaf.       *)
(***************************************************************************)
NewWorker(st, low, from, to) ==
  [pc |-> "work", low |-> low, high |-> None, left |-> low # None, right |-> 0, req |-> 0,
   at |-> from, to |-> to, key |-> None, u |-> IF st = "leaf" THEN NewLeafUpdater ELSE NewBranchUpdater,
   tr |-> NewTracker, prep |-> <<>>, wrote |-> <<>>, bad |-> FALSE]
RECURSIVE PrepareWorkers(_, _, _, _, _)
\* The first ops of the rest stay with the last worker, the others go to a new one.
NextWorker(st, cs, done, remaining, ws, pivot, sep) ==
  LET ops == Cardinality({j \in 1..pivot : cs[done + j].k < sep})
  IN  IF ops = 0 THEN PrepareWorkers(st, cs, done + pivot, remaining, ws)
      ELSE PrepareWorkers(st, cs, done + ops, remaining - 1,
             Append([ws EXCEPT ![Len(ws)] = [@ EXCEPT !.high = sep, !.right = Len(ws) + 1, !.to = done + ops]],
                    NewWorker(st, sep, done + ops + 1, Len(cs))))
PrepareWorkers(st, cs, done, remaining, ws) ==
  LET pivot == (Len(cs) - done) \div (remaining + 1)
      split(node) == IF node = {} THEN ws
                     ELSE NextWorker(st, cs, done, remaining, ws, pivot, TheOnly(node).sep)
  IN  IF remaining = 0 \/ pivot = 0 THEN ws
      ELSE split({x \in NodeOf(st, cs[done + pivot + 1].k) : st = "branch" \/ x.cutoff # None})

\* preload_and_prepare: the leaves that the keys of a worker fall in.
PreparedLeaves(cs, v) ==
  LET step(acc, c) == IF acc # <<>> /\ ~Above(c.k, acc[Len(acc)].cutoff) THEN acc
                      ELSE acc \o SetToSeq(IndexedLeaf(c.k))
  IN  FoldLeft(step, <<>>, SubSeq(cs, v.at, v.to))
----------------------------------------------------------------------------
(***************************************************************************)
(* Steps of one worker v, without its channels.                            *)
(***************************************************************************)
ResetTo(st, v, x) ==
  [v EXCEPT !.bad = @ \/ Entry(v.tr, x.sep).del # None,
            !.tr = TrackDelete(@, x.sep, x.pn, x.cutoff),
            !.u = ResetBase(st, @, ReadNode(st, x), x.sep, x.cutoff)]
FreshReset(st, v, key) ==
  LET from(found) == IF found = {} THEN v ELSE ResetTo(st, v, TheOnly(found))
  IN  IF v.prep # <<>> /\ v.prep[1].sep <= key
      THEN ResetTo(st, [v EXCEPT !.prep = Tail(@)], v.prep[1])
      ELSE from(NodeOf(st, key))
\* The base after the range was extended: the node received, or the node after
\* the last change, or none.
ExtendedReset(st, v, key) ==
  LET after(next) == IF next = None THEN [v EXCEPT !.u.cutoff = None]
                     ELSE FreshReset(st, v, IF next > key THEN next ELSE key)
      pending(p) == [v EXCEPT !.tr.pend = {}, !.u = ResetBase(st, @, p.node, p.sep, p.cutoff)]
      seps == DOMAIN v.tr.inner
  IN  IF v.prep # <<>> THEN [v EXCEPT !.bad = TRUE]
      ELSE IF v.tr.pend # {} THEN pending(TheOnly(v.tr.pend))
      ELSE after(IF seps = {} THEN None ELSE v.tr.inner[Max(seps)].next)

\* Ingest the changes in scope.
InScopeUpTo(v) ==
  CHOOSE j \in (v.at - 1)..v.to :
    /\ \A i \in v.at..j : InScope(v.u, chg[i].k)
    /\ j < v.to => ~InScope(v.u, chg[j + 1].k)
Ingested(v) ==
  LET upto(j) == [v EXCEPT !.at = j + 1, !.u = FoldLeft(Ingest, @, SubSeq(chg, v.at, j))]
  IN  upto(InScopeUpTo(v))
\* handle_new_leaf and handle_new_branch: allocate a page, write and track it.
Handled(i, v, new) ==
  LET kind == IF stage = "leaf" THEN 0 ELSE 1
      put(acc, x) ==
        LET pn == PageName(kind, i, Cardinality(DOMAIN acc.wrote))
        IN  [acc EXCEPT !.wrote = (pn :> x.node) @@ @,
                        !.tr = TrackInsert(@, x.sep, x.node, x.cutoff, pn)]
  IN  FoldLeft(put, v, new)
\* Go on at key, in the own range or in that of the right worker.
Onward(v, key) ==
  IF Above(key, v.high) THEN [v EXCEPT !.pc = "request", !.key = key]
  ELSE [FreshReset(stage, v, key) EXCEPT !.pc = "work"]
----------------------------------------------------------------------------
(***************************************************************************)
(* The extend-range protocol.                                              *)
(***************************************************************************)
Alive(i) == w[i].pc \notin {"done", "joined", "failed", "panicked"}
\* Fault: a worker that is done keeps its sender.
DisconnectedNever(i) == \A j \in DOMAIN w : w[j].right # i
\* No sender of worker i's channel is left.
Disconnected(i) ==
  \A j \in DOMAIN w : (Alive(j) => w[j].right # i) /\ \A r \in resp[j] : r.right # i

\* The changes that can be handed to the left worker: up to a new node, or up
\* to a gap before the next change.  count: how many; sep: where the scan is.
RECURSIVE Scan(_, _, _)
Scan(inner, count, sep) ==
  LET key == Min(DOMAIN inner)
      e == inner[key]
  IN  IF DOMAIN inner = {} THEN [count |-> count, node |-> FALSE, gap |-> FALSE, high |-> None, sep |-> sep]
      ELSE IF sep # None /\ sep < key
      THEN [count |-> count, node |-> FALSE, gap |-> TRUE, high |-> key, sep |-> sep]
      ELSE IF e.ins # {}
      THEN [count |-> count + 1, node |-> TRUE, gap |-> FALSE, high |-> e.next, sep |-> sep]
      ELSE Scan([k \in DOMAIN inner \ {key} |-> inner[k]], count + 1, e.next)

\* Fault: the range that was given away is still the worker's own.
GiveTwice(v, s, high, over, given) ==
  [v |-> [v EXCEPT !.req = 0, !.left = ~over, !.right = IF over THEN 0 ELSE @,
                   !.tr.inner = [k \in DOMAIN @ \ given |-> @[k]]],
   out |-> {[changed |-> [k \in given |-> v.tr.inner[k]], high |-> high,
             over |-> over, right |-> IF over THEN v.right ELSE 0]}]
\* try_answer_left_neighbor, with a request: what v becomes, and the response,
\* for a scan s.  over: the range of v is exhausted.
Give(v, s, high, over, given) ==
  [v |-> [v EXCEPT !.low = high, !.req = 0, !.left = ~over, !.right = IF over THEN 0 ELSE @,
                   !.tr.inner = [k \in DOMAIN @ \ given |-> @[k]]],
   out |-> {[changed |-> [k \in given |-> v.tr.inner[k]], high |-> high,
             over |-> over, right |-> IF over THEN v.right ELSE 0]}]
FirstKeys(S, n) == {k \in S : Cardinality({j \in S : j < k}) < n}
TryAnswer(v, finished) ==
  LET keys(s) == FirstKeys(DOMAIN v.tr.inner, s.count)
      answer(s) ==
        IF s.node \/ s.gap THEN Give(v, s, s.high, FALSE, keys(s))
        ELSE IF finished
        THEN Give(v, s, v.high, ~(s.sep # None /\ ~Above(s.sep, v.high)), keys(s))
        ELSE [v |-> v, out |-> {}]
  IN  answer(Scan(v.tr.inner, 0, v.low))

\* Worker i looks for a request q and answers it; then it goes on as v.
Heard(i, q) == [w[i] EXCEPT !.req = q, !.left = @ /\ (q # 0 \/ ~Disconnected(i))]
Answered(v, finished) ==
  IF v.left /\ v.req # 0 THEN TryAnswer(v, finished) ELSE [v |-> v, out |-> {}]
Pending(i) == IF w[i].req # 0 THEN w[i].req ELSE chan[i]
Reply(i, v, response) ==
  /\ w' = [w EXCEPT ![i] = v]
  /\ chan' = [chan EXCEPT ![i] = 0]
  /\ resp' = IF response = {} THEN resp ELSE [resp EXCEPT ![Pending(i)] = response]
----------------------------------------------------------------------------
Working == stage \in {"leaf", "branch"}
Panicked(v) == IF v.bad \/ (stage = "branch" /\ v.u.bad) THEN [v EXCEPT !.pc = "panicked"] ELSE v

\* run_worker: ingest what is in scope, digest, and go on to the next node.  When
\* allocate fails the worker returns, which drops its ends of the channels.
After(v, d) ==
  IF d.merge # None THEN Onward(v, d.merge)
  ELSE [v EXCEPT !.pc = IF v.at <= v.to THEN "answer" ELSE "drain"]
Digested(i, v, d) ==
  \/ /\ w' = [w EXCEPT ![i] = Panicked(After(Handled(i, [v EXCEPT !.u = d.u], d.new), d))]
     /\ UNCHANGED fails
  \/ /\ d.new # <<>> /\ fails < MaxFails
     /\ w' = [w EXCEPT ![i].pc = "failed", ![i].right = 0]
     /\ fails' = fails + 1
DigestOf(i, v) == Digested(i, v, Digest(v.u))
\* Work concerns nothing but the worker's own record, so the workers may as well
\* do it one after the other.
Turn(i) == \A j \in 1..(i - 1) : w[j].pc # "work"
Work(i) ==
  /\ Working /\ w[i].pc = "work" /\ Turn(i)
  /\ DigestOf(i, Ingested(w[i]))
  /\ UNCHANGED <<stage, syncs, kv, files, chg, out, chan, resp>>
\* After a digest that needs no merge the worker looks for a request.
AnswerWith(i, a) == Reply(i, Panicked(Onward(a.v, chg[a.v.at].k)), a.out)
Answer(i) ==
  /\ Working /\ w[i].pc = "answer"
  /\ AnswerWith(i, Answered(Heard(i, Pending(i)), FALSE))
  /\ UNCHANGED <<stage, syncs, fails, kv, files, chg, out>>
\* request_range_extension
SendRequest(i) ==
  LET right == w[i].right
  IN  /\ Working /\ w[i].pc = "request"
      /\ IF right # 0 /\ Alive(right)
         THEN w' = [w EXCEPT ![i].pc = "wait"] /\ chan' = [chan EXCEPT ![right] = i]
         ELSE w' = [w EXCEPT ![i].pc = "panicked"] /\ UNCHANGED chan
      /\ UNCHANGED <<stage, syncs, fails, kv, files, chg, out, resp>>
Received(v, r, last) ==
  LET got == [v EXCEPT !.high = r.high, !.right = IF r.over THEN r.right ELSE @]
  IN  IF last # None /\ r.changed[last].ins # {}
      THEN [got EXCEPT !.tr = [TrackPending(@, last, r.changed[last]) EXCEPT
                                 !.inner = [r.changed EXCEPT ![last].ins = {}] @@ @]]
      ELSE [got EXCEPT !.tr.inner = r.changed @@ @]
AfterResponse(v, r) ==
  IF r.over /\ r.right # 0 THEN [v EXCEPT !.pc = "request"]
  ELSE Panicked([ExtendedReset(stage, v, v.key) EXCEPT !.pc = "work"])
Receive(i) ==
  /\ Working /\ w[i].pc = "wait"
  /\ \E r \in resp[i] :
       w' = [w EXCEPT ![i] = AfterResponse(Received(@, r, Max(DOMAIN r.changed \cup {None})), r)]
  /\ resp' = [resp EXCEPT ![i] = {}]
  /\ UNCHANGED <<stage, syncs, fails, kv, files, chg, out, chan>>
\* recv fails when the right worker has dropped the request.
ReceiveFails(i) ==
  /\ Working /\ w[i].pc = "wait" /\ resp[i] = {} /\ ~Alive(w[i].right)
  /\ w' = [w EXCEPT ![i].pc = "panicked"]
  /\ UNCHANGED <<stage, syncs, fails, kv, files, chg, out, chan, resp>>
\* The workload is done: answer the left worker until it is done too.
DrainWith(i, a) == Reply(i, [a.v EXCEPT !.pc = IF a.v.left THEN "drain" ELSE "done"], a.out)
\* Fault: a worker whose workload is done does not wait for its left neighbour.
DrainAtOnce(i) ==
  /\ Working /\ w[i].pc = "drain"
  /\ w' = [w EXCEPT ![i].pc = "done"]
  /\ UNCHANGED <<stage, syncs, fails, kv, files, chg, out, chan, resp>>
Drain(i) ==
  /\ Working /\ w[i].pc = "drain"
  /\ w[i].left => Pending(i) # 0 \/ Disconnected(i)
  /\ DrainWith(i, Answered(Heard(i, Pending(i)), TRUE))
  /\ UNCHANGED <<stage, syncs, fails, kv, files, chg, out>>
----------------------------------------------------------------------------
(***************************************************************************)
(* The stages.                                                             *)
(***************************************************************************)
Spawned(st, cs) ==
  LET started(v) == FreshReset(st, [v EXCEPT !.prep = IF st = "leaf" THEN PreparedLeaves(cs, v)
                                                      ELSE <<>>], cs[v.at].k)
      all(ws) == [i \in 1..Len(ws) |-> started(ws[i])]
  IN  all(PrepareWorkers(st, cs, 0, Cardinality(Workers) - 1, <<NewWorker(st, None, 1, Len(cs))>>))
Start(st, cs) ==
  /\ stage' = st /\ chg' = cs /\ out' = <<>> /\ w' = Spawned(st, cs)
  /\ chan' = [i \in Workers |-> 0] /\ resp' = [i \in Workers |-> {}]
AtRest == w' = <<>> /\ chan' = [i \in Workers |-> 0] /\ resp' = [i \in Workers |-> {}] /\ chg' = <<>> /\ out' = <<>>
Without(f, S) == [x \in DOMAIN f \ S |-> f[x]]

\* A sync of a changeset; the pages the last one freed may be used again.
\* Values too large for a leaf are written to overflow pages first.
StartSync(cs) ==
  LET big == {j \in DOMAIN cs : \E v \in cs[j].new : v \in Large}
      cell(j, v) == IF j \in big THEN [v |-> <<PageName(2, 0, j)>>, o |-> TRUE]
                    ELSE [v |-> ValueBytes(v), o |-> FALSE]
      gone == Range(freed.ln)
  IN  /\ syncs' = syncs + 1
      /\ kv' = [k \in Key |-> IF \E j \in DOMAIN cs : cs[j].k = k
                              THEN (CHOOSE c \in Range(cs) : c.k = k).new ELSE kv[k]]
      /\ Start("leaf", [j \in DOMAIN cs |->
                          [k |-> cs[j].k, new |-> {cell(j, v) : v \in cs[j].new}]])
      /\ ln' = Without(ln, gone)
      /\ ovf' = [p \in {PageName(2, 0, j) : j \in big} |->
                   TheOnly((CHOOSE c \in {cs[j] : j \in {j \in big : p = PageName(2, 0, j)}} : TRUE).new)]
                @@ Without(ovf, gone)
      /\ bbn' = bbn \ Range(freed.bbn)
      /\ freed' = [ln |-> <<>>, bbn |-> <<>>]
      /\ UNCHANGED <<fails, index>>

\* What worker v changed, in the order of the separators.
NewPage(e) == IF e.ins = {} THEN None ELSE TheOnly(e.ins).pn
ChangesOf(v) ==
  LET change(seps) == [n \in DOMAIN seps |-> [k |-> seps[n], new |-> NewPage(v.tr.inner[seps[n]])]]
  IN  change(SortedKeys(DOMAIN v.tr.inner))
FreedBy(v) ==
  LET pages(seps) == [n \in DOMAIN seps |-> v.tr.inner[seps[n]].del]
  IN  pages(SortedKeys({k \in DOMAIN v.tr.inner : v.tr.inner[k].del # None})) \o v.tr.extra
OverflowFreedBy(v) == [j \in DOMAIN v.u.deleted |-> v.u.deleted[j][1]]

\* enforce_first_leaf_separator: the leaf that becomes the first one gets the
\* separator 0.  A candidate is a leaf of the old tree that may be the first.
NextLeaf(sep) == Max({l.cutoff : l \in IndexedLeaf(sep)} \cup {None})
RECURSIVE FirstCandidate(_, _, _)
FirstCandidate(cs, candidate, idx) ==
  IF idx <= Len(cs) /\ candidate # None /\ cs[idx] = [k |-> candidate, new |-> None]
  THEN FirstCandidate(cs, NextLeaf(candidate), idx + 1)
  ELSE [sep |-> candidate, idx |-> idx]
WithFirst(cs, c) ==
  LET first(pn, rest) == <<[k |-> 0, new |-> pn]>> \o SubSeq(cs, 2, c.idx - 1) \o rest
      gone == <<[k |-> c.sep, new |-> None]>>
  IN  IF c.idx <= Len(cs) /\ cs[c.idx].new # None /\ (c.sep = None \/ c.sep >= cs[c.idx].k)
      THEN first(cs[c.idx].new, (IF c.sep = cs[c.idx].k THEN gone ELSE <<>>)
                                  \o SubSeq(cs, c.idx + 1, Len(cs)))
      ELSE IF c.sep # None
      THEN first(TheOnly(IndexedLeaf(c.sep)).pn, gone \o SubSeq(cs, c.idx, Len(cs)))
      ELSE cs
\* Fault: only the deleted separator itself is looked at, not the one that follows.
FirstIfInserted(cs) ==
  IF Len(cs) > 1 /\ Head(cs) = [k |-> 0, new |-> None] /\ cs[2].new # None
  THEN <<[k |-> 0, new |-> cs[2].new]>> \o SubSeq(cs, 3, Len(cs)) ELSE cs
enforce_first_leaf_separator(cs) ==
  IF cs # <<>> /\ Head(cs) = [k |-> 0, new |-> None]
  THEN WithFirst(cs, FirstCandidate(cs, NextLeaf(0), 2)) ELSE cs

\* apply_worker_changes and apply_bbn_changes, in the order in which the results
\* of the workers come in.
JoinLeafWorker(i) ==
  /\ stage = "leaf" /\ w[i].pc = "done"
  /\ w' = [w EXCEPT ![i].pc = "joined"]
  /\ out' = out \o ChangesOf(w[i])
  /\ ln' = w[i].wrote @@ ln
  /\ freed' = [freed EXCEPT !.ln = @ \o OverflowFreedBy(w[i]) \o FreedBy(w[i])]
  /\ UNCHANGED <<stage, syncs, fails, kv, ovf, bbn, index, chg, chan, resp>>
Indexed(inner) ==
  LET new == {k \in DOMAIN inner : inner[k].ins # {}}
  IN  [k \in (DOMAIN index \ DOMAIN inner) \cup new |->
         IF k \in new THEN TheOnly(inner[k].ins) ELSE index[k]]
JoinBranchWorker(i) ==
  /\ stage = "branch" /\ w[i].pc = "done"
  /\ w' = [w EXCEPT ![i].pc = "joined"]
  /\ index' = Indexed(w[i].tr.inner)
  /\ bbn' = bbn \cup DOMAIN w[i].wrote
  /\ freed' = [freed EXCEPT !.bbn = @ \o FreedBy(w[i])]
  /\ UNCHANGED <<stage, syncs, fails, kv, ln, ovf, chg, out, chan, resp>>
Joined == \A i \in DOMAIN w : w[i].pc = "joined"
\* The sort is stable: changes of one separator stay in the order they came in.
SortedChanges ==
  FlattenSeq([n \in 1..2^KeyBits |-> SelectSeq(out, LAMBDA c : c.k = n - 1)])
\* The end of the leaf stage: the leaves that changed are the changes of the
\* branch stage.
BranchStage(cs) ==
  \/ cs = <<>> /\ stage' = "idle" /\ AtRest
  \/ cs # <<>> /\ Start("branch", cs)
LeavesDone ==
  /\ stage = "leaf" /\ Joined
  /\ BranchStage(enforce_first_leaf_separator(SortedChanges))
  /\ UNCHANGED <<syncs, fails, kv, files>>
\* The end of the branch stage and of the update.
BranchesDone ==
  /\ stage = "branch" /\ Joined
  /\ stage' = "idle" /\ AtRest
  /\ UNCHANGED <<syncs, fails, kv, files>>
\* join_task returns the error of a worker or resumes its panic.
JoinFails ==
  /\ Working /\ \E i \in DOMAIN w : w[i].pc \in {"failed", "panicked"}
  /\ stage' = "failed" /\ AtRest
  /\ UNCHANGED <<syncs, fails, kv, files>>

Init ==
  /\ stage = "idle" /\ syncs = 0 /\ fails = 0 /\ kv = [k \in Key |-> {}]
  /\ ln = <<>> /\ ovf = <<>> /\ bbn = {} /\ freed = [ln |-> <<>>, bbn |-> <<>>] /\ index = <<>>
  /\ chg = <<>> /\ out = <<>> /\ w = <<>>
  /\ chan = [i \in Workers |-> 0] /\ resp = [i \in Workers |-> {}]
WorkerStep(i) ==
  Work(i) \/ Answer(i) \/ SendRequest(i) \/ Receive(i) \/ ReceiveFails(i) \/ Drain(i)
Stop == (stage = "failed" \/ (stage = "idle" /\ syncs = MaxSyncs)) /\ UNCHANGED vars
Next ==
  \/ stage = "idle" /\ syncs < MaxSyncs /\ \E cs \in Changesets[syncs + 1] : StartSync(cs)
  \/ \E i \in DOMAIN w : WorkerStep(i) \/ JoinLeafWorker(i) \/ JoinBranchWorker(i)
  \/ LeavesDone \/ BranchesDone \/ JoinFails \/ Stop
Spec == Init /\ [][Next]_vars
----------------------------------------------------------------------------
Idle == stage = "idle"
BranchItems(b) == [i \in 1..BranchN(b) |-> [sep |-> BranchKey(b, i - 1), pn |-> b.pns[i]]]
Leaves ==
  LET items(seps) == FlattenSeq([n \in DOMAIN seps |-> BranchItems(index[seps[n]].node)])
  IN  items(SortedKeys(DOMAIN index))

\* A lookup in the tree finds, for every key, what the syncs have committed, in
\* whatever order the workers are run and joined.
TreeIsMap == Idle => \A k \in Key : Lookup(k) = kv[k]

\* After a sync the nodes fit in their pages, all but the last of each kind are
\* at least half full, the separators of all leaves increase from 0 and every
\* key lies between the separator of its leaf and that of the next one.
LeafFits(l, leaf, next) ==
  LET size == leaf_body_size(LeafN(leaf), ValuesSize(leaf, 0, LeafN(leaf)))
  IN  /\ size <= LeafBody /\ (next # None => size >= LEAF_MERGE_THRESHOLD)
      /\ \A i \in 0..(LeafN(leaf) - 1) : LeafKey(leaf, i) >= l.sep /\ ~Above(LeafKey(leaf, i), next)
LeavesFit(leaves) ==
  /\ leaves # <<>> => leaves[1].sep = 0
  /\ \A n \in 1..(Len(leaves) - 1) : leaves[n].sep < leaves[n + 1].sep
  /\ \A n \in DOMAIN leaves :
       leaves[n].pn \in DOMAIN ln =>
         LeafFits(leaves[n], ln[leaves[n].pn], IF n < Len(leaves) THEN leaves[n + 1].sep ELSE None)
WellFormed ==
  Idle =>
    /\ \A s \in DOMAIN index :
         /\ BranchKey(index[s].node, 0) = s
         /\ NodeBytes(index[s].node) <= BranchBody
         /\ NextKey(s) # None => NodeBytes(index[s].node) >= BRANCH_MERGE_THRESHOLD
    /\ LeavesFit(Leaves)

\* A page written is either part of the new tree or freed, and freed only once.
LeafPages == {l.pn : l \in Range(Leaves)}
OverflowCells ==
  UNION {{ln[p].bytes[c.off] : c \in {c \in Range(ln[p].ptrs) : c.o}} : p \in LeafPages \cap DOMAIN ln}
Split(pages, used, gone) ==
  used \cap Range(gone) = {} /\ used \cup Range(gone) = pages /\ Cardinality(Range(gone)) = Len(gone)
PagesConserved ==
  Idle => /\ Split(bbn, {index[s].pn : s \in DOMAIN index}, freed.bbn)
          /\ Split(DOMAIN ln, LeafPages,
                   SelectSeq(freed.ln, LAMBDA p : p \notin DOMAIN ovf))
\* The same of the overflow pages.
OverflowConserved ==
  Idle => Split(DOMAIN ovf, OverflowCells, SelectSeq(freed.ln, LAMBDA p : p \in DOMAIN ovf))

\* The range of a worker ends where that of its right neighbour starts, unless
\* a response that moves the border is on its way.
NeighboursAgree ==
  \A i \in DOMAIN w :
    Alive(i) /\ w[i].right # 0 /\ Alive(w[i].right) /\ resp[i] = {} => w[i].high = w[w[i].right].low
\* An update fails only after a page could not be allocated.
OnlyIoFails == stage = "failed" => fails > 0
\* The workers never all wait for each other, also when one of them has failed:
\* one can go on, or all have been joined.
CanGoOn(i) ==
  \/ w[i].pc \in {"work", "answer", "request", "done", "failed", "panicked"}
  \/ w[i].pc = "wait" /\ (resp[i] # {} \/ ~Alive(w[i].right))
  \/ w[i].pc = "drain" /\ (~w[i].left \/ Pending(i) # 0 \/ Disconnected(i))
NoStandstill == Working => Joined \/ \E i \in DOMAIN w : CanGoOn(i)
=============================================================================
