------------------------ MODULE SyncAllocatorProofs ------------------------
(***************************************************************************)
(* Proofs about SyncAllocator, for any number of workers and any lengths.  *)
(***************************************************************************)
EXTENDS SyncAllocator, TLAPS

TypeOK ==
  /\ allocations \in Nat /\ max_bump \in Nat /\ set_len \in Nat /\ file_len \in Nat
  /\ seen \in [Workers -> Nat]
  /\ holder \in Workers \cup {NONE}
  /\ pc \in [Workers -> {"idle", "load", "lock", "locked", "publish", "failed"}]
  /\ index \in [Workers -> Nat]
  /\ result \in SUBSET Nat

Locked(w) == pc[w] \in {"locked", "publish"}

LockInv == \A w \in Workers : Locked(w) => holder = w
LengthInv ==
  /\ set_len = file_len /\ max_bump <= set_len
  /\ \A w \in Workers : seen[w] <= max_bump
\* The pages returned, and that of a worker about to return, are inside the file.
PageInv ==
  /\ \A k \in result : Beyond(k) => PageOf(k) < file_len
  /\ \A w \in Workers : pc[w] = "lock" \/ Locked(w) => Beyond(index[w])
  /\ \A w \in Workers : pc[w] = "publish" => PageOf(index[w]) < file_len

IInv == TypeOK /\ LockInv /\ LengthInv /\ PageInv

\* Rounding up to a chunk goes past the page, also past the first of a chunk.
LEMMA GrownCovers ==
  ASSUME NEW pn \in Nat
  PROVE  Grown(pn) \in Nat /\ Grown(pn) > pn
<1>1. GrowBy \in Nat /\ GrowBy > 1
  BY AllocatorAssumption DEF AllocatorAssumption
<1> DEFINE a == pn + 2 * GrowBy - 2
<1>2. a \in Nat
  BY <1>1
<1>3. a = GrowBy * (a \div GrowBy) + (a % GrowBy) /\ a % GrowBy \in 0..(GrowBy - 1) /\ a \div GrowBy \in Nat
  BY <1>1, <1>2, SMT
<1> HIDE DEF a
<1>4. (a \div GrowBy) * GrowBy \in Nat /\ (a \div GrowBy) * GrowBy >= a - (GrowBy - 1)
  BY <1>1, <1>2, <1>3, SMT
<1> QED BY <1>1, <1>4 DEF a, Grown

\* Each step of a worker keeps the invariant: the relaxed loads are never ahead
\* of the file, and only the holder of the lock changes its length.
LEMMA WorkStep ==
  ASSUME NEW w \in Workers, IInv, Work(w)
  PROVE  IInv' /\ file_len' >= file_len
<1> USE AllocatorAssumption DEF AllocatorAssumption
<1>0. TypeOK /\ LockInv /\ LengthInv /\ PageInv
  BY DEF IInv
<1>1. CASE FetchAdd(w)
  <2>1. TypeOK'
    BY <1>0, <1>1 DEF TypeOK, FetchAdd, Goto
  <2>2. LockInv'
    BY <1>0, <1>1 DEF TypeOK, LockInv, Locked, FetchAdd, Goto
  <2>3. LengthInv' /\ file_len' >= file_len
    BY <1>0, <1>1 DEF TypeOK, LengthInv, FetchAdd
  <2>4. PageInv'
    BY <1>0, <1>1 DEF TypeOK, PageInv, Locked, FetchAdd, Goto, Beyond, PageOf
  <2> QED BY <2>1, <2>2, <2>3, <2>4 DEF IInv
<1>2. CASE FastPath(w)
  <2>0. PICK v \in Nat : /\ v <= max_bump
                        /\ seen' = [seen EXCEPT ![w] = v]
                        /\ \/ Return(w) /\ (Beyond(index[w]) => PageOf(index[w]) < v)
                           \/ Goto(w, "lock") /\ UNCHANGED result /\ Beyond(index[w])
    <3>1. CASE Beyond(index[w])
      BY <1>0, <1>2, <3>1 DEF TypeOK, LengthInv, FastPath
    <3>2. CASE ~Beyond(index[w])
      <4>1. seen[w] \in Nat /\ seen[w] <= max_bump /\ seen' = [seen EXCEPT ![w] = seen[w]] /\ Return(w)
        BY <1>0, <1>2, <3>2 DEF TypeOK, LengthInv, FastPath
      <4> QED BY <3>2, <4>1
    <3> QED BY <3>1, <3>2
  <2>a. pc[w] = "load" /\ UNCHANGED <<allocations, max_bump, set_len, holder, file_len, index>>
    BY <1>2 DEF FastPath
  <2>b. pc' = [pc EXCEPT ![w] = "idle"] \/ pc' = [pc EXCEPT ![w] = "lock"]
    BY <2>0 DEF Return, Goto
  <2>c. result' \in {result, result \cup {index[w]}}
    BY <2>0 DEF Return
  <2>1. TypeOK'
    BY <1>0, <2>0, <2>a, <2>b, <2>c DEF TypeOK
  <2>2. LockInv'
    BY <1>0, <2>a, <2>b DEF TypeOK, LockInv, Locked
  <2>3. LengthInv' /\ file_len' >= file_len
    BY <1>0, <2>0, <2>a DEF TypeOK, LengthInv
  <2>4. PageInv'
    <3>1. CASE Return(w) /\ (Beyond(index[w]) => PageOf(index[w]) < v)
      BY <1>0, <2>0, <2>a, <3>1 DEF TypeOK, LengthInv, PageInv, Locked, Return, Goto, Beyond, PageOf
    <3>2. CASE Goto(w, "lock") /\ UNCHANGED result /\ Beyond(index[w])
      BY <1>0, <2>a, <3>2 DEF TypeOK, PageInv, Locked, Goto, Beyond, PageOf
    <3> QED BY <2>0, <3>1, <3>2
  <2> QED BY <2>1, <2>2, <2>3, <2>4 DEF IInv
<1>3. CASE Lock(w)
  <2>1. TypeOK'
    BY <1>0, <1>3 DEF TypeOK, Lock, Goto
  <2>2. LockInv'
    BY <1>0, <1>3 DEF TypeOK, LockInv, Locked, Lock, Goto
  <2>3. LengthInv' /\ file_len' >= file_len
    BY <1>0, <1>3 DEF TypeOK, LengthInv, Lock
  <2>4. PageInv'
    BY <1>0, <1>3 DEF TypeOK, PageInv, Locked, Lock, Goto, Beyond, PageOf
  <2> QED BY <2>1, <2>2, <2>3, <2>4 DEF IInv
<1>4. CASE LostRace(w)
  <2>1. TypeOK'
    BY <1>0, <1>4 DEF TypeOK, LostRace, Return, Goto
  <2>2. LockInv'
    BY <1>0, <1>4 DEF TypeOK, LockInv, Locked, LostRace, Return, Goto
  <2>3. LengthInv' /\ file_len' >= file_len
    BY <1>0, <1>4 DEF TypeOK, LengthInv, LostRace
  <2>4. PageInv'
    BY <1>0, <1>4 DEF TypeOK, LengthInv, PageInv, Locked, LostRace, Return, Goto, Beyond, PageOf
  <2> QED BY <2>1, <2>2, <2>3, <2>4 DEF IInv
<1>5. CASE Grow(w)
  <2> DEFINE pn == PageOf(index[w])
  <2>0. pn \in Nat /\ pn >= file_len
    <3>1. Beyond(index[w]) /\ index[w] \in Nat /\ pn >= file_len
      BY <1>0, <1>5 DEF TypeOK, LengthInv, PageInv, Locked, Grow
    <3> QED BY <3>1 DEF Beyond, PageOf
  <2>a. Grown(pn) \in Nat /\ Grown(pn) > pn
    BY <2>0, GrownCovers
  <2>b. file_len' = Grown(pn) /\ set_len' = Grown(pn)
    BY <1>5 DEF Grow
  <2> HIDE DEF pn
  <2>1. TypeOK'
    BY <1>0, <1>5, <2>a, <2>b DEF TypeOK, Grow, Goto
  <2>2. LockInv'
    BY <1>0, <1>5 DEF TypeOK, LockInv, Locked, Grow, Goto
  <2>3. LengthInv' /\ file_len' >= file_len
    BY <1>0, <1>5, <2>0, <2>a, <2>b DEF TypeOK, LengthInv, Grow
  <2>4. PageInv'
    <3>1. \A k \in result' : Beyond(k) => PageOf(k) < file_len'
      <4>1. result' = result /\ file_len \in Nat /\ file_len' \in Nat /\ result \subseteq Nat
        BY <1>0, <1>5, <2>1 DEF TypeOK, Grow
      <4>2. \A k \in Nat : Beyond(k) => PageOf(k) \in Nat
        BY DEF Beyond, PageOf
      <4>3. \A k \in result : Beyond(k) => PageOf(k) < file_len
        BY <1>0 DEF PageInv
      <4> QED BY <2>3, <4>1, <4>2, <4>3
    <3>2. \A v \in Workers : pc'[v] = "publish" => v = w
      BY <1>0, <1>5 DEF TypeOK, LockInv, Locked, Grow, Goto
    <3>3. PageOf(index'[w]) < file_len'
      BY <1>5, <2>a, <2>b DEF Grow, pn
    <3>4. \A v \in Workers : pc'[v] = "lock" \/ pc'[v] \in {"locked", "publish"} => Beyond(index'[v])
      BY <1>0, <1>5 DEF TypeOK, PageInv, Locked, Grow, Goto
    <3> QED BY <3>1, <3>2, <3>3, <3>4 DEF PageInv, Locked, Beyond, PageOf
  <2> QED BY <2>1, <2>2, <2>3, <2>4 DEF IInv
<1>6. CASE GrowError(w)
  <2>1. TypeOK'
    BY <1>0, <1>6 DEF TypeOK, GrowError, Goto
  <2>2. LockInv'
    BY <1>0, <1>6 DEF TypeOK, LockInv, Locked, GrowError, Goto
  <2>3. LengthInv' /\ file_len' >= file_len
    BY <1>0, <1>6 DEF TypeOK, LengthInv, GrowError
  <2>4. PageInv'
    BY <1>0, <1>6 DEF TypeOK, PageInv, Locked, GrowError, Goto, Beyond, PageOf
  <2> QED BY <2>1, <2>2, <2>3, <2>4 DEF IInv
<1>7. CASE Publish(w)
  <2>1. TypeOK'
    BY <1>0, <1>7 DEF TypeOK, Publish, Return, Goto
  <2>2. LockInv'
    BY <1>0, <1>7 DEF TypeOK, LockInv, Locked, Publish, Return, Goto
  <2>3. LengthInv' /\ file_len' >= file_len
    BY <1>0, <1>7 DEF TypeOK, LengthInv, Publish
  <2>4. PageInv'
    BY <1>0, <1>7 DEF TypeOK, LengthInv, PageInv, Locked, Publish, Return, Goto, Beyond, PageOf
  <2> QED BY <2>1, <2>2, <2>3, <2>4 DEF IInv
<1> QED BY <1>1, <1>2, <1>3, <1>4, <1>5, <1>6, <1>7 DEF Work

\* The invariant of the lock, the lengths and the pages in hand.
THEOREM InductiveInvariant == Spec => []IInv
<1>1. Init => IInv
  BY AllocatorAssumption DEF AllocatorAssumption, Init, IInv, TypeOK, LockInv, LengthInv, PageInv, Locked, Beyond, PageOf
<1>2. IInv /\ [Next]_vars => IInv'
  <2> SUFFICES ASSUME IInv, [Next]_vars PROVE IInv'
    OBVIOUS
  <2>1. CASE Next
    BY <2>1, WorkStep DEF Next
  <2>2. CASE UNCHANGED vars
    BY <2>2 DEF vars, IInv, TypeOK, LockInv, LengthInv, PageInv, Locked, Beyond, PageOf
  <2> QED BY <2>1, <2>2
<1> QED BY <1>1, <1>2, PTL DEF Spec

\* Every page that allocate returns lies inside the file, for any number of
\* workers and whatever copy of the length they compared it with.
THEOREM PagesInsideFile == Spec => []InsideFile
<1>1. IInv => InsideFile
  BY DEF IInv, LengthInv, PageInv, InsideFile
<1> QED BY <1>1, InductiveInvariant, PTL

\* The file never gets shorter while workers allocate.
THEOREM FileNeverShrinks == Spec => NeverShrinks
<1>1. IInv /\ [Next]_vars => [file_len' >= file_len]_vars
  <2> SUFFICES ASSUME IInv, Next PROVE file_len' >= file_len
    OBVIOUS
  <2> QED BY WorkStep DEF Next
<1> QED BY <1>1, InductiveInvariant, PTL DEF Spec, NeverShrinks

\* Indices in the hands of a worker.
Active == {v \in Workers : pc[v] # "idle"}

\* A step draws the next index, returns one, or leaves all where they are.
LEMMA DrawStep ==
  ASSUME NEW w \in Workers, IInv, DrawnOnce, Work(w)
  PROVE  DrawnOnce'
<1>0. TypeOK
  BY DEF IInv
<1>1. CASE FetchAdd(w)
  <2>1. /\ w \notin Active /\ Active' = Active \cup {w} /\ result' = result
        /\ index' = [index EXCEPT ![w] = allocations] /\ allocations' = allocations + 1
    BY <1>0, <1>1 DEF TypeOK, FetchAdd, Goto, Active
  <2>2. {index'[v] : v \in Active'} = {index[v] : v \in Active} \cup {allocations}
    BY <1>0, <2>1 DEF TypeOK, Active
  <2>3. result \cup {index[v] : v \in Active} = 0..(allocations - 1)
    BY DEF DrawnOnce, Active
  <2>4. 0..(allocations' - 1) = 0..(allocations - 1) \cup {allocations} /\ allocations \notin 0..(allocations - 1)
    BY <1>0, <2>1 DEF TypeOK
  <2>5. \A v \in Active : index[v] # allocations
    BY <2>3, <2>4
  <2>6. allocations \notin result
    BY <2>3, <2>4
  <2>7. result' \cup {index'[v] : v \in Active'} = 0..(allocations' - 1)
    BY <2>1, <2>2, <2>3, <2>4
  <2>8. \A u, v \in Active' : u # v => index'[u] # index'[v]
    BY <1>0, <2>1, <2>5 DEF TypeOK, DrawnOnce, Active
  <2>9. \A v \in Active' : index'[v] \notin result'
    BY <1>0, <2>1, <2>6 DEF TypeOK, DrawnOnce, Active
  <2> QED BY <2>7, <2>8, <2>9 DEF DrawnOnce, Active
<1>2. CASE /\ pc[w] # "idle" /\ Return(w) /\ UNCHANGED <<index, allocations>>
  <2>1. w \in Active /\ Active' = Active \ {w} /\ result' = result \cup {index[w]}
    BY <1>0, <1>2 DEF TypeOK, Return, Goto, Active
  <2>2. result' \cup {index'[v] : v \in Active'} = result \cup {index[v] : v \in Active}
    BY <1>2, <2>1
  <2> QED BY <1>2, <2>1, <2>2 DEF DrawnOnce, Active
<1>3. CASE /\ pc[w] # "idle" /\ \E l \in {"lock", "locked", "publish", "failed"} : Goto(w, l)
           /\ UNCHANGED <<index, allocations, result>>
  <2>1. Active' = Active
    BY <1>0, <1>3 DEF TypeOK, Goto, Active
  <2> QED BY <1>3, <2>1 DEF DrawnOnce, Active
<1>4. CASE FastPath(w) \/ LostRace(w) \/ Publish(w)
  BY <1>2, <1>3, <1>4 DEF FastPath, LostRace, Publish
<1>5. CASE Lock(w) \/ Grow(w) \/ GrowError(w)
  BY <1>3, <1>5 DEF Lock, Grow, GrowError
<1> QED BY <1>1, <1>4, <1>5 DEF Work

\* However many workers draw from the counter at once, no page is handed out
\* twice and none is lost.
THEOREM NoPageTwice == Spec => []DrawnOnce
<1>1. Init => DrawnOnce
  BY DEF Init, DrawnOnce
<1>2. IInv /\ DrawnOnce /\ [Next]_vars => DrawnOnce'
  <2> SUFFICES ASSUME IInv, DrawnOnce, [Next]_vars PROVE DrawnOnce'
    OBVIOUS
  <2>1. CASE Next
    BY <2>1, DrawStep DEF Next
  <2>2. CASE UNCHANGED vars
    BY <2>2 DEF vars, DrawnOnce
  <2> QED BY <2>1, <2>2
<1> QED BY <1>1, <1>2, InductiveInvariant, PTL DEF Spec
=============================================================================
