---------------------------- MODULE AtomicStore ----------------------------
(***************************************************************************)
(* What `Store::commit` and `Store::open` promise: the store is a single   *)
(* value that commits replace as a whole.  A commit takes effect at one    *)
(* instant, before it is reported; an interrupted one takes effect         *)
(* entirely or not at all; an open store serves the value in effect.       *)
(***************************************************************************)
CONSTANTS State, Empty, NONE

VARIABLES
  db,    \* the value in effect
  next,  \* the value of the commit in progress, or NONE
  view   \* what the store serves when it is open and no commit runs, or NONE

vars == <<db, next, view>>

Init == db = Empty /\ next = NONE /\ view = Empty

Begin(s) == view # NONE /\ next' = s /\ view' = NONE /\ db' = db

TakeEffect == next # NONE /\ db' = next /\ next' = NONE /\ view' = view

\* The store opens, or a commit that has taken effect returns.
Serve == view = NONE /\ next = NONE /\ view' = db /\ UNCHANGED <<db, next>>

\* A crash, or a failed commit, which poisons the store.
Stop ==
  /\ view' = NONE /\ next' = NONE
  /\ db' \in {db} \cup ({next} \ {NONE})

Next == (\E s \in State : Begin(s)) \/ TakeEffect \/ Serve \/ Stop

Spec == Init /\ [][Next]_vars
=============================================================================
