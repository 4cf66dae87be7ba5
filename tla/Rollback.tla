------------------------------ MODULE Rollback ------------------------------
(***************************************************************************)
(* The rollback log, nomt/src/rollback: reverse deltas (partial functions  *)
(* from keys to the values they had before a commit), kept in memory as    *)
(* [log |-> Seq([id, delta]), pending |-> the new end of a truncated log,  *)
(* as a sequence of at most one id] and on disk in a segmented log.        *)
(***************************************************************************)
EXTENDS SegLog

CONSTANTS Absent,                \* the value of a key that is not stored
          MAX_ROLLBACK_LOG_LEN   \* Options::max_rollback_log_len

(* With 0 every commit would prune beyond the end of the log. *)
ASSUME LogLenAssumption == MAX_ROLLBACK_LOG_LEN \in Nat \ {0}

NewInMemory == [log |-> <<>>, pending |-> <<>>]

NoChanges == << >>

(* d applied over f: the entries of d win. *)
Over(d, f) == [k \in DOMAIN d \cup DOMAIN f |-> IF k \in DOMAIN d THEN d[k] ELSE f[k]]

-----------------------------------------------------------------------------
(* Building a delta. `actuals` maps the keys of a session to                 *)
(* [op, prior, value]; `tentative` holds the priors preserved ahead of time, *)
(* and loaded[k] is the value the store had when the session began.          *)

IsWrite(a) == a.op \in {"Write", "ReadThenWrite"}

Writes(actuals) ==
    [k \in {k \in DOMAIN actuals : IsWrite(actuals[k])} |-> actuals[k].value]

finalize(actuals, tentative, loaded) ==
    [k \in {k \in DOMAIN actuals : IsWrite(actuals[k])} |->
        IF actuals[k].op = "ReadThenWrite" THEN actuals[k].prior
        ELSE IF k \in DOMAIN tentative THEN tentative[k] ELSE loaded[k]]

-----------------------------------------------------------------------------
(* The payload of a record: the keys to erase, and those to reinstate. *)

encode(delta) ==
    [erase |-> {k \in DOMAIN delta : delta[k] = Absent},
     reinstate |-> [k \in {k \in DOMAIN delta : delta[k] # Absent} |-> delta[k]]]

(* Its length in pages: each value to reinstate fills one. *)
EncodedLen(delta) == 1 + Cardinality(DOMAIN encode(delta).reinstate)

decode(payload) == [k \in payload.erase |-> Absent] @@ payload.reinstate

-----------------------------------------------------------------------------
(* Operations on the log in memory. *)

push_recent(rb, id, delta) == [rb EXCEPT !.log = Append(@, [id |-> id, delta |-> delta])]

EnoughLogged(rb, n) == n <= Len(rb.log)

(* The newest n deltas, oldest first. *)
Newest(rb, n) == SubSeq(rb.log, Len(rb.log) - n + 1, Len(rb.log))

\* Fault: the newer delta wins.
TracebackNewest(rb, n) == FoldLeft(LAMBDA acc, e : Over(e.delta, acc), NoChanges, Newest(rb, n))

(* What truncate returns: the values to write, the older delta winning. *)
Traceback(rb, n) == FoldRight(LAMBDA e, acc : Over(e.delta, acc), Newest(rb, n), NoChanges)

Truncated(rb, n) ==
    [log |-> SubSeq(rb.log, 1, Len(rb.log) - n), pending |-> <<Newest(rb, n)[1].id - 1>>]

TooLong(rb) == Len(rb.log) > MAX_ROLLBACK_LOG_LEN

Least(a, b) == IF a < b THEN a ELSE b

\* Fault: the manifest keeps the end of a truncated log.
writeout_startKeepsEnd(rb, sl) ==
    [start |-> sl.start, end |-> sl.end,
     new_start |-> IF rb.pending = <<>> /\ TooLong(rb) THEN <<Head(rb.log).id + 1>> ELSE <<>>,
     new_end |-> rb.pending]

\* Fault: the log is pruned up to its newest delta.
writeout_startNewest(rb, sl) ==
    [start |-> IF rb.pending = <<>> THEN sl.start ELSE Least(sl.start, rb.pending[1]),
     end |-> IF rb.pending = <<>> THEN sl.end ELSE rb.pending[1],
     new_start |-> IF rb.pending = <<>> /\ TooLong(rb) THEN <<Last(rb.log).id + 1>> ELSE <<>>,
     new_end |-> rb.pending]

(* The live range for the manifest and what is to be pruned once it is written. *)
writeout_start(rb, sl) ==
    IF rb.pending # <<>>
    THEN [start |-> Least(sl.start, rb.pending[1]), end |-> rb.pending[1],
          new_start |-> <<>>, new_end |-> rb.pending]
    ELSE [start |-> sl.start, end |-> sl.end,
          new_start |-> IF TooLong(rb) THEN <<Head(rb.log).id + 1>> ELSE <<>>, new_end |-> <<>>]

(* The log in memory after an open whose scan passed these records to the callback. *)
ReadLog(records) ==
    [NewInMemory EXCEPT !.log = [i \in DOMAIN records |-> [id |-> records[i].id, delta |-> decode(records[i].payload)]]]

AfterWriteoutStart(rb) ==
    IF rb.pending # <<>> THEN [rb EXCEPT !.pending = <<>>]
    ELSE IF TooLong(rb) THEN [rb EXCEPT !.log = Tail(@)] ELSE rb

=============================================================================
