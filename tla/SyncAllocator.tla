--------------------------- MODULE SyncAllocator ---------------------------
(***************************************************************************)
(* SyncAllocator::allocate, called by several workers of a sync at once.   *)
(* A worker draws an index from an atomic counter; indices past the free   *)
(* list become pages past the bump.  Most calls only compare the page with *)
(* an atomic copy of the file length; the others take a lock and, if the   *)
(* page is still outside, extend the file.                                 *)
(***************************************************************************)
EXTENDS Naturals, FiniteSets

CONSTANTS
  Workers,
  NONE,      \* no worker
  FreeLen,   \* length of the (clean) free list
  Bump,      \* StoreSync::bump
  FileLen,   \* StoreSync::max_bump when the sync starts
  GrowBy,    \* GROW_STORE_BY_PAGES
  MaxAlloc   \* bound: allocations

ASSUME AllocatorAssumption ==
  /\ {FreeLen, Bump, FileLen, GrowBy, MaxAlloc} \subseteq Nat /\ GrowBy > 1
  /\ Bump <= FileLen /\ NONE \notin Workers

VARIABLES
  allocations, \* the counter
  max_bump,    \* SyncAllocatorInner::max_bump, the atomic copy
  seen,        \* what each worker last saw of it: loads are relaxed
  set_len,     \* the length guarded by set_len_lock
  holder,      \* the worker that holds set_len_lock
  file_len,    \* length of the file
  pc, index,   \* per worker: where it is in allocate, the index it has drawn
  result       \* indices whose pages have been handed out
vars == <<allocations, max_bump, seen, set_len, holder, file_len, pc, index, result>>

Beyond(k) == k >= FreeLen
PageOf(k) == Bump + (k - FreeLen)

\* Fault: a page on a chunk boundary is not covered.
GrownShort(pn) == ((pn + GrowBy - 1) \div GrowBy) * GrowBy
\* grow
Grown(pn) == ((pn + 2 * GrowBy - 2) \div GrowBy) * GrowBy

Init ==
  /\ allocations = 0
  /\ max_bump = FileLen /\ seen = [w \in Workers |-> FileLen]
  /\ set_len = FileLen /\ file_len = FileLen
  /\ holder = NONE
  /\ pc = [w \in Workers |-> "idle"] /\ index = [w \in Workers |-> 0]
  /\ result = {}

Goto(w, l) == pc' = [pc EXCEPT ![w] = l]

Return(w) ==
  /\ result' = result \cup {index[w]}
  /\ Goto(w, "idle")

\* Fault: the counter is read and written in two steps.
FetchAddTorn(w) ==
  /\ pc[w] = "idle" /\ allocations < MaxAlloc
  /\ index' = [index EXCEPT ![w] = allocations]
  /\ \E a \in {allocations, allocations + 1} : allocations' = a
  /\ Goto(w, "load")
  /\ UNCHANGED <<max_bump, seen, set_len, holder, file_len, result>>

FetchAdd(w) ==
  /\ pc[w] = "idle" /\ allocations < MaxAlloc
  /\ index' = [index EXCEPT ![w] = allocations]
  /\ allocations' = allocations + 1
  /\ Goto(w, "load")
  /\ UNCHANGED <<max_bump, seen, set_len, holder, file_len, result>>

\* A page of the free list needs no check; a page past the bump is compared
\* with a value of max_bump no older than the one seen last.
FastPath(w) ==
  /\ pc[w] = "load"
  /\ IF Beyond(index[w])
     THEN \E v \in {seen[w], max_bump} :
            /\ seen' = [seen EXCEPT ![w] = v]
            /\ IF PageOf(index[w]) < v THEN Return(w)
               ELSE Goto(w, "lock") /\ UNCHANGED result
     ELSE Return(w) /\ UNCHANGED seen
  /\ UNCHANGED <<allocations, max_bump, set_len, holder, file_len, index>>

Lock(w) ==
  /\ pc[w] = "lock" /\ holder = NONE
  /\ holder' = w
  /\ seen' = [seen EXCEPT ![w] = max_bump]
  /\ Goto(w, "locked")
  /\ UNCHANGED <<allocations, max_bump, set_len, file_len, index, result>>

LostRace(w) ==
  /\ pc[w] = "locked" /\ PageOf(index[w]) < set_len
  /\ holder' = NONE
  /\ Return(w)
  /\ UNCHANGED <<allocations, max_bump, seen, set_len, file_len, index>>

\* Fault: the file is extended without checking the length again.
GrowUnchecked(w) ==
  /\ pc[w] = "locked"
  /\ file_len' = Grown(PageOf(index[w])) /\ set_len' = Grown(PageOf(index[w]))
  /\ Goto(w, "publish")
  /\ UNCHANGED <<allocations, max_bump, seen, holder, index, result>>

Grow(w) ==
  /\ pc[w] = "locked" /\ PageOf(index[w]) >= set_len
  /\ file_len' = Grown(PageOf(index[w])) /\ set_len' = Grown(PageOf(index[w]))
  /\ Goto(w, "publish")
  /\ UNCHANGED <<allocations, max_bump, seen, holder, index, result>>

\* set_len fails: the call returns the error and the sync will fail.
GrowError(w) ==
  /\ pc[w] = "locked" /\ PageOf(index[w]) >= set_len
  /\ holder' = NONE
  /\ Goto(w, "failed")
  /\ UNCHANGED <<allocations, max_bump, seen, set_len, file_len, index, result>>

Publish(w) ==
  /\ pc[w] = "publish"
  /\ max_bump' = set_len
  /\ holder' = NONE
  /\ Return(w)
  /\ UNCHANGED <<allocations, seen, set_len, file_len, index>>

Work(w) ==
  FetchAdd(w) \/ FastPath(w) \/ Lock(w) \/ LostRace(w) \/ Grow(w) \/ GrowError(w)
  \/ Publish(w)

Next == \E w \in Workers : Work(w)

Spec == Init /\ [][Next]_vars
----------------------------------------------------------------------------
\* A page that allocate has returned is inside the file, also when another
\* worker extended it and whichever copy of the length was looked at; and the
\* length handed to the finisher is the length of the file.
InsideFile ==
  /\ \A k \in result : Beyond(k) => PageOf(k) < file_len
  /\ set_len = file_len /\ max_bump <= set_len

\* No index, and so no page, is drawn twice; every index drawn is accounted
\* for: returned, in some worker's hands, or lost with a failed call.
DrawnOnce ==
  /\ result \cup {index[w] : w \in {v \in Workers : pc[v] # "idle"}}
       = 0..(allocations - 1)
  /\ \A v, w \in Workers : v # w /\ pc[v] # "idle" /\ pc[w] # "idle" => index[v] # index[w]
  /\ \A w \in Workers : pc[w] # "idle" => index[w] \notin result

\* The file is never cut short under pages that were handed out.
NeverShrinks == [][file_len' >= file_len]_vars
=============================================================================
