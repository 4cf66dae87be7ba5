------------------------------ MODULE FreeList ------------------------------
(***************************************************************************)
(* The embedded free list of a beatree store file (`ln` or `bbn`) and the  *)
(* syncs that consume and rewrite it.  The list is a stack of page numbers *)
(* cut into portions, each kept in a page of the file itself; a sync takes *)
(* pages from the head, then pushes the pages it frees and rewrites the    *)
(* portions it touched to new places, so that the list and the nodes of    *)
(* the last manifest stay readable until the next manifest is durable.     *)
(*                                                                         *)
(* A node page is abstracted to the number of the sync that wrote it.      *)
(***************************************************************************)
EXTENDS Naturals, Sequences, FiniteSets, SequencesExt

CONSTANTS
  MaxPns,   \* MAX_PNS_PER_PAGE
  GrowBy,   \* GROW_STORE_BY_PAGES
  MaxSync,  \* bound: syncs
  Allocs,   \* bound: how many pages a sync may allocate
  Frees,    \* bound: how many nodes of earlier syncs it may free
  MaxPn     \* bound: page numbers

ASSUME FreeListAssumption ==
  /\ MaxPns \in Nat \ {0, 1} /\ GrowBy \in Nat \ {0}
  /\ MaxSync \in Nat /\ MaxPn \in Nat /\ Allocs \subseteq Nat /\ Frees \subseteq Nat

VARIABLES
  list,     \* StoreSync::free_list
  bump,     \* StoreSync::bump
  max_bump, \* StoreSync::max_bump
  flen,     \* [now, durable]: length of the file in pages
  live,     \* the nodes in use: page number -> sync that wrote it
  disk,     \* contents of the pages
  pending,  \* page writes of the running sync that are not done yet
  phase,    \* "idle", "sync" or "panic"
  manifest, \* what the manifest says: head, bump; and, as history, list and nodes
  seqn      \* syncs so far

vars == <<list, bump, max_bump, flen, live, disk, pending, phase, manifest, seqn>>

FREELIST_EMPTY == 0
----------------------------------------------------------------------------
(***************************************************************************)
(* The list in memory.  The head is the last portion.                      *)
(***************************************************************************)
Portion(pn, pns) == [pn |-> pn, pns |-> pns]

\* len_and_fragmented
Len2(portions) ==
  LET n == Len(portions) IN
  IF n = 0 THEN [len |-> 0, fragmented |-> FALSE]
  ELSE LET head == Len(portions[n].pns) IN
    IF n > 1 /\ head = 1
    THEN LET penultimate == Len(portions[n - 1].pns) IN
         [len |-> (n - 2) * MaxPns + penultimate + 1,
          fragmented |-> penultimate # MaxPns]
    ELSE [len |-> (n - 1) * MaxPns + head, fragmented |-> FALSE]

\* A list without pops since the last commit.
Clean(portions) ==
  [portions |-> portions, pop |-> FALSE, released |-> <<>>,
   len |-> Len2(portions).len, fragmented |-> Len2(portions).fragmented]

\* The head keeps only these items; an empty head is removed, its page released.
HeadShrunk(l, kept) ==
  [l EXCEPT
    !.pop = TRUE,
    !.portions = IF kept = <<>> THEN Front(@)
                 ELSE Append(Front(@), Portion(Last(@).pn, kept)),
    !.released = IF kept = <<>> THEN Append(@, Last(l.portions).pn) ELSE @]

\* FreeList::pop, for a list with at least one portion.
Pop(l) ==
  LET pns == Last(l.portions).pns IN
  [pn |-> Last(pns), list |-> HeadShrunk(l, Front(pns))]

\* FreeList::discard
RECURSIVE Discard(_, _)
Discard(l, n) ==
  IF n = 0 \/ l.portions = <<>> THEN [list |-> l, discarded |-> 0]
  ELSE
    LET pns == Last(l.portions).pns
        cut == IF n < Len(pns) THEN n ELSE Len(pns)
        d   == Discard(HeadShrunk(l, SubSeq(pns, 1, Len(pns) - cut)), n - cut)
    IN [list |-> d.list, discarded |-> d.discarded + cut]

\* The page of the head is replaced.
HeadMoved(l, pn) ==
  [l EXCEPT !.portions = Append(Front(@), Portion(pn, Last(@).pns))]

(***************************************************************************)
(* FreeList::preallocate takes from the list, or from the bump, the pages  *)
(* the rewritten portions will go to, and schedules the pages they leave   *)
(* for pushing.  It works on p: the list, what is to be pushed, the bump,  *)
(* the new pages, whether the head is a portion no one has touched yet,    *)
(* and the number i of items that the pages at hand can take.              *)
(***************************************************************************)
HeadRoom(l) == MaxPns - Len(Last(l.portions).pns)

\* Fault: the head is rewritten in the page it occupies.
FirstPageInPlace(l, push, b) ==
  [list |-> l, push |-> push, bump |-> b, new |-> <<>>, full |-> l.portions = <<>>,
   i |-> IF l.portions = <<>> THEN 0 ELSE HeadRoom(l)]

FirstPage(l, push, b) ==
  LET p == [list |-> l, push |-> push, bump |-> b, new |-> <<>>, full |-> TRUE, i |-> 0]
  IN IF l.portions = <<>> THEN p
     ELSE
       LET popped == Pop(l)
           q == popped.list
           released == Len(q.released) > 0
           m == IF released THEN [q EXCEPT !.released = Front(@)] ELSE q
           moves == q.portions # <<>> /\ (released => HeadRoom(q) = 1)
       IN IF moves
          THEN [p EXCEPT
                 !.list = HeadMoved(m, popped.pn),
                 !.push = Append(@, Last(q.portions).pn)
                          \o (IF released THEN <<Last(q.released)>> ELSE <<>>),
                 !.full = FALSE,
                 !.i = HeadRoom(q)]
          ELSE [p EXCEPT
                 !.list = m,
                 !.push = Append(@, Last(q.released)),
                 !.new = <<popped.pn>>,
                 !.i = MaxPns]

\* One round of the loop of preallocate.
MorePages(p) ==
  IF p.list.portions = <<>>
  THEN [p EXCEPT !.new = Append(@, p.bump), !.bump = @ + 1, !.i = @ + MaxPns]
  ELSE IF p.full
  THEN LET head == Last(p.list.portions) IN
       [p EXCEPT
         !.list.portions = Append(Front(@), Portion(Last(head.pns), Front(head.pns))),
         !.push = Append(@, head.pn),
         !.full = FALSE,
         !.i = @ + 1]
  ELSE LET popped == Pop(p.list)
           q == popped.list
           released == Len(q.released) > 0
       IN [p EXCEPT
            !.list = IF released THEN [q EXCEPT !.released = Front(@)] ELSE q,
            !.new = Append(@, popped.pn)
                    \o (IF released THEN <<Last(q.released)>> ELSE <<>>),
            !.full = released,
            !.i = @ + 1 + MaxPns]

\* Fault: the last page is not counted.
RECURSIVE FillShort(_)
FillShort(p) == IF p.i + 1 < Len(p.push) THEN FillShort(MorePages(p)) ELSE p

RECURSIVE Fill(_)
Fill(p) == IF p.i < Len(p.push) THEN Fill(MorePages(p)) ELSE p

Preallocate(l, push, b) == Fill(FirstPage(l, push, b))

(***************************************************************************)
(* FreeList::push_and_encode.  `pages` are the pages to write; `ok` is     *)
(* whether no unwrap or assertion of the code fails.                       *)
(***************************************************************************)
EncodeHead(portions) ==
  IF portions = <<>> THEN {}
  ELSE LET n == Len(portions) IN
       {[pn |-> portions[n].pn,
         page |-> [prev |-> IF n = 1 THEN FREELIST_EMPTY ELSE portions[n - 1].pn,
                   pns  |-> portions[n].pns]]}

RECURSIVE PushAndEncode(_, _, _, _)
PushAndEncode(portions, push, new, pages) ==
  IF push = <<>>
  THEN [portions |-> portions, ok |-> new = <<>>,
        pages |-> pages \cup EncodeHead(portions)]
  ELSE
    LET room == IF portions = <<>> THEN 0 ELSE MaxPns - Len(Last(portions).pns)
        fragmentation == room = 1 /\ new # <<>> /\ Len(push) = 1
        next == IF room = 0 \/ fragmentation
                THEN Append(portions, Portion(Head(new), <<>>)) ELSE portions
    IN IF (room = 0 \/ fragmentation) /\ new = <<>>
       THEN [portions |-> portions, ok |-> FALSE, pages |-> pages]
       ELSE PushAndEncode(
              Append(Front(next), [Last(next) EXCEPT !.pns = Append(@, Head(push))]),
              Tail(push),
              IF next = portions THEN new ELSE Tail(new),
              IF next = portions THEN pages ELSE pages \cup EncodeHead(portions))

\* Fault: the pages of the portions that discard emptied are not pushed.
CommitForgets(l, push, b) ==
  IF ~l.pop /\ push = <<>>
  THEN [list |-> l, bump |-> b, pages |-> {}, ok |-> TRUE]
  ELSE LET p == Preallocate([l EXCEPT !.released = <<>>], push, b)
           e == PushAndEncode(p.list.portions, p.push, p.new, {})
       IN [list |-> [Clean(e.portions) EXCEPT !.released = p.list.released],
           bump |-> p.bump, pages |-> e.pages, ok |-> e.ok]

\* FreeList::commit
Commit(l, push, b) ==
  IF ~l.pop /\ push = <<>>
  THEN [list |-> l, bump |-> b, pages |-> {}, ok |-> TRUE]
  ELSE LET p == Preallocate([l EXCEPT !.released = <<>>], push \o l.released, b)
           e == PushAndEncode(p.list.portions, p.push, p.new, {})
       IN [list |-> [Clean(e.portions) EXCEPT !.released = p.list.released],
           bump |-> p.bump, pages |-> e.pages, ok |-> e.ok]

\* Fault: the items of the fragmented portion are counted from the other end.
NthPopReversed(l, k) ==
  LET P == l.portions
      n == Len(P)
      head == Len(P[n].pns)
      Full(m) == P[n - 1 - (m \div MaxPns)].pns[MaxPns - (m % MaxPns)]
  IN IF l.fragmented
     THEN IF k = 0 THEN P[n].pns[1]
          ELSE IF k < MaxPns THEN P[n - 1].pns[k]
          ELSE Full(k)
     ELSE IF k < head THEN P[n].pns[head - k]
          ELSE Full(k - head)

\* CleanFreeList::get_nth_pop, for k < l.len
GetNthPop(l, k) ==
  LET P == l.portions
      n == Len(P)
      head == Len(P[n].pns)
      Full(m) == P[n - 1 - (m \div MaxPns)].pns[MaxPns - (m % MaxPns)]
  IN IF l.fragmented
     THEN IF k = 0 THEN P[n].pns[1]
          ELSE IF k < MaxPns THEN P[n - 1].pns[MaxPns - k]
          ELSE Full(k)
     ELSE IF k < head THEN P[n].pns[head - k]
          ELSE Full(k - head)

\* FreeList::read, from the head page
RECURSIVE Read(_, _)
Read(d, head) ==
  IF head = FREELIST_EMPTY THEN <<>>
  ELSE Append(Read(d, d[head].prev), Portion(head, d[head].pns))
----------------------------------------------------------------------------
(***************************************************************************)
(* The store.                                                              *)
(***************************************************************************)
NextMultiple(x) == ((x + GrowBy - 1) \div GrowBy) * GrowBy

\* Fault: the length is rounded down.
GrowShort(pn) == (pn \div GrowBy) * GrowBy

\* grow: the new length of the file, which holds page pn
Grow(pn) == NextMultiple(pn + GrowBy - 1)

\* The page that SyncAllocator::allocate returns for the k-th allocation.
Allocated(k) ==
  IF k >= list.len THEN bump + (k - list.len) ELSE GetNthPop(list, k)

\* allocate extends the file when the page is beyond its end.
RECURSIVE Extended(_, _)
Extended(len, pns) ==
  IF pns = <<>> THEN len
  ELSE Extended(IF Head(pns) < len THEN len ELSE Grow(Head(pns)), Tail(pns))

\* The nodes of earlier syncs in the order of their pages.
Nodes ==
  [i \in 1..Cardinality(DOMAIN live) |->
     CHOOSE pn \in DOMAIN live : Cardinality({q \in DOMAIN live : q < pn}) = i - 1]

Init ==
  /\ list = Clean(<<>>)
  /\ bump = 1 /\ max_bump = 1
  /\ flen = [now |-> 1, durable |-> 1]
  /\ live = <<>>
  /\ disk = [pn \in 1..MaxPn |-> 0]
  /\ pending = {}
  /\ phase = "idle"
  /\ manifest = [head |-> FREELIST_EMPTY, bump |-> 1, portions |-> <<>>, live |-> <<>>]
  /\ seqn = 0

(***************************************************************************)
(* A sync allocates n pages, frees k nodes of earlier syncs and returns j  *)
(* of the pages it allocated, then SyncFinisher::finish updates the list.  *)
(* No decision depends on which nodes are freed: the first k stand for any.*)
(***************************************************************************)
Sync(n, k, j) ==
  /\ phase = "idle" /\ seqn < MaxSync
  /\ k <= Len(Nodes) /\ j <= n
  /\ LET pns   == [i \in 1..n |-> Allocated(i - 1)]
         freed == SubSeq(Nodes, 1, k) \o SubSeq(pns, n - j + 1, n)
         len   == Extended(max_bump, SelectSeq(pns, LAMBDA pn : pn >= bump))
         d     == Discard(list, n)
         c     == Commit(d.list, freed, bump + (n - d.discarded))
         grown == IF c.bump > len THEN Grow(c.bump) ELSE len
     IN /\ c.bump <= MaxPn
        /\ list' = c.list
        /\ bump' = c.bump
        /\ max_bump' = grown
        /\ flen' = [flen EXCEPT !.now = IF grown = max_bump THEN @ ELSE grown]
        /\ pending' = {[pn |-> pns[i], page |-> seqn + 1] : i \in 1..n} \cup c.pages
        /\ live' = [pn \in (DOMAIN live \cup ToSet(pns)) \ ToSet(freed) |->
                      IF pn \in DOMAIN live THEN live[pn] ELSE seqn + 1]
        /\ phase' = IF c.ok THEN "sync" ELSE "panic"
  /\ UNCHANGED <<disk, manifest, seqn>>

\* The writes are issued in any order.  A crash in the middle leaves some of
\* them; as long as ManifestIntact holds with all of them done, it holds with
\* any part of them, and none of these pages is read before the switch.
WritePages ==
  /\ pending # {}
  /\ disk' = [pn \in DOMAIN disk |->
                IF \E w \in pending : w.pn = pn
                THEN (CHOOSE w \in pending : w.pn = pn).page ELSE disk[pn]]
  /\ pending' = {}
  /\ UNCHANGED <<list, bump, max_bump, flen, live, phase, manifest, seqn>>

\* The pages a manifest leads to.  What the others contain is forgotten: they
\* are written before anything leads to them.
Kept(d, portions, nodes) ==
  [pn \in DOMAIN d |->
     IF pn \in DOMAIN nodes \/ \E i \in DOMAIN portions : portions[i].pn = pn
     THEN d[pn] ELSE 0]

\* All pages are written, the file is fsynced, then the manifest is switched.
SwitchManifest ==
  /\ phase = "sync" /\ pending = {}
  /\ flen' = [flen EXCEPT !.durable = flen.now]
  /\ manifest' = [head |-> IF list.portions = <<>> THEN FREELIST_EMPTY
                           ELSE Last(list.portions).pn,
                  bump |-> bump, portions |-> list.portions, live |-> live]
  /\ phase' = "idle"
  /\ seqn' = seqn + 1
  /\ disk' = Kept(disk, list.portions, live)
  /\ UNCHANGED <<list, bump, max_bump, live, pending>>

\* A crash, and Store::open: what was written of the running sync may be on
\* disk or not, and so may the new length of the file.
Crash ==
  /\ phase # "panic"
  /\ \E len \in {flen.now, flen.durable} :
       flen' = [now |-> len, durable |-> len] /\ max_bump' = len
  /\ list' = Clean(Read(disk, manifest.head))
  /\ disk' = Kept(disk, list'.portions, manifest.live)
  /\ bump' = manifest.bump
  /\ live' = manifest.live
  /\ pending' = {}
  /\ phase' = "idle"
  /\ UNCHANGED <<manifest, seqn>>

Next ==
  \/ \E n \in Allocs, k \in Frees, j \in 0..1 : Sync(n, k, j)
  \/ WritePages \/ SwitchManifest \/ Crash

Spec == Init /\ [][Next]_vars
----------------------------------------------------------------------------
Tracked(portions) ==
  UNION {{portions[i].pn} \cup ToSet(portions[i].pns) : i \in DOMAIN portions}

Items(portions) == FlattenSeq([i \in DOMAIN portions |-> portions[i].pns])

\* Between syncs every page below the bump is exactly one of: a node in use, a
\* free page in the list, a page that holds a portion of the list.  Nothing
\* leaks and nothing is handed out twice.
Conservation ==
  phase = "idle" =>
    /\ DOMAIN live \cup Tracked(list.portions) = 1..(bump - 1)
    /\ DOMAIN live \cap Tracked(list.portions) = {}
    /\ Len(Items(list.portions)) + Len(list.portions) + Cardinality(DOMAIN live) = bump - 1

\* The k-th page that get_nth_pop computes from the cached length and the
\* fragmentation flag is the page the k-th pop would return.
NthPopIsPop ==
  phase = "idle" =>
    /\ list.len = Len(Items(list.portions))
    /\ \A k \in 0..(list.len - 1) :
         GetNthPop(list, k) = Items(list.portions)[list.len - k]

\* Until the next manifest is durable, the free list and the nodes of the last
\* one are intact, whatever part of the running sync has been written.
ManifestIntact ==
  /\ Read(disk, manifest.head) = manifest.portions
  /\ \A pn \in DOMAIN manifest.live : disk[pn] = manifest.live[pn]

\* None of the assertions and unwraps in push_and_encode fails: preallocate has
\* counted exactly the pages that are needed.
ExactPreallocation == phase # "panic"

\* Every page a sync writes, and every page number that FreeList::read checks
\* against the length of the file, lies inside the file.
InsideFile ==
  /\ \A w \in pending : w.pn < flen.now
  /\ \A pn \in Tracked(manifest.portions) : pn < flen.durable
=============================================================================
