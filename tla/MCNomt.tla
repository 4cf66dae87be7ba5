------------------------------- MODULE MCNomt -------------------------------
(* The database handle for TLC: two threads, two keys. *)
EXTENDS Nomt

Symmetry == Permutations(Threads) \cup Permutations(Keys)

Empty == [k \in Keys |-> Absent]
Full == [k \in Keys |-> CHOOSE v \in Values : TRUE]

Base == [rollback |-> TRUE, values |-> Empty, threads |-> 2, sessions |-> 2, overlays |-> 0, restarts |-> 0, faults |-> 0]

(* Two threads with overlays. *)
Overlays == [Base EXCEPT !.sessions = 3, !.overlays = 2]

(* Two threads and no rollback log: enough sessions for a root to come back. *)
NoRollback == [Base EXCEPT !.rollback = FALSE, !.sessions = 4, !.overlays = 1]

(* One thread that commits and rolls back values that fill two pages of the  *)
(* log, until it is pruned; a crash in it, and one in the recovery.          *)
Recovery == [Base EXCEPT !.values = Full, !.threads = 1, !.sessions = 4, !.restarts = 2]

(* An error in an append or a sync, and crashes. *)
Faults == [Base EXCEPT !.sessions = 2, !.restarts = 2, !.overlays = 1, !.faults = 1]

AllScenarios == {Overlays, NoRollback, Recovery, Faults}

(* Two sessions that begin while the other commits. *)
TwoSessions == {Base}

(* Commits until the log is pruned, and rollbacks. *)
Rollbacks == {[Base EXCEPT !.threads = 1, !.sessions = 4, !.restarts = 1]}

=============================================================================
