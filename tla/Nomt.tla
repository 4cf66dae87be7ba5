-------------------------------- MODULE Nomt --------------------------------
(***************************************************************************)
(* The database handle of nomt/src/lib.rs, with or without a rollback log: *)
(* threads that open sessions on the store or on overlays, finish them,    *)
(* turn them into overlays or commit them, and roll commits back; errors,  *)
(* crashes and the recovery of the rollback log.                           *)
(*                                                                         *)
(* The store's files are taken at the level at which the store modules     *)
(* describe them: the values the manifest leads to, and a manifest write   *)
(* that replaces them. A root stands for the values it commits to, so      *)
(* roots are equal iff the values are.                                     *)
(***************************************************************************)
EXTENDS Rollback, FiniteSets

CONSTANTS Threads, Keys, Values,
          Scenarios  \* databases, and bounds on what is done to them

(* A scenario: Options::rollback, the values in the store at first, and how  *)
(* many threads are in a session or a call at a time, sessions are begun,    *)
(* overlays made, crashes happen, and writes or fsyncs fail.                 *)
ASSUME NomtAssumption ==
    /\ Absent \notin Values
    /\ Scenarios \subseteq [rollback : BOOLEAN, values : [Keys -> Values \cup {Absent}], threads : Nat,
                             sessions : Nat, overlays : Nat, restarts : Nat, faults : Nat]

O == INSTANCE Overlay
B == INSTANCE BeatreeTree WITH Overwritten <- "overwritten"

VARIABLES conf,      \* the scenario
          root,      \* Shared::root
          marker,    \* Shared::last_commit_marker: an overlay, 0 for None
          tree,      \* the btree and what is staged over it
          poisoned,
          meta,      \* the manifest: the values it leads to, the live range of the log
          dir, sl, rb,
          ovs, held, \* the overlays made and those the application holds
          th,        \* the threads
          mode,      \* "up", "down", "opening" or "failed"
          scan,      \* what the recovery of the log found
          hist,      \* for each record, the values before its commit
          blind,     \* the overlays made by sessions that did not read their root
          events,    \* which of the events that the properties make exceptions for have happened
          count      \* how much of the bounds is used

vars == <<conf, root, marker, tree, poisoned, meta, dir, sl, rb, ovs, held, th, mode, scan, hist, blind, events, count>>

AllAbsent == [k \in Keys |-> Absent]
NoWriteout == [start |-> Nil, end |-> Nil, new_start |-> <<>>, new_end |-> <<>>]
NoTx == [B!read_transaction(B!open(AllAbsent)) EXCEPT !.index = NoChanges]

Idle == [pc |-> "idle", live |-> <<>>, prev |-> AllAbsent, tx |-> NoTx, tent |-> NoChanges, loads |-> {},
         writes |-> NoChanges, root |-> AllAbsent, delta |-> NoChanges, blind |-> FALSE, kind |-> "none", ov |-> 0,
         created |-> FALSE, wd |-> NoWriteout, swapped |-> TRUE, failed |-> FALSE]

(* A database that already holds values may be opened with rollback for the first time. *)
Init ==
    /\ conf \in Scenarios
    /\ root = conf.values /\ marker = 0 /\ tree = B!open(conf.values) /\ poisoned = FALSE
    /\ meta = [values |-> conf.values, start |-> Nil, end |-> Nil]
    /\ dir = EmptyDir /\ sl = EmptyLog /\ rb = NewInMemory
    /\ ovs = <<>> /\ held = {}
    /\ th = [t \in Threads |-> Idle]
    /\ mode = "up" /\ scan = [log |-> <<>>, nonlive |-> <<>>]
    /\ hist = <<>> /\ blind = {} /\ events = {}
    /\ count = [sessions |-> 0, restarts |-> 0, faults |-> 0]

Undrained == {"wait", "append", "sync_log", "sync", "drain"}
InCall == Undrained \cup {"meta", "prune"}
HasLock(t) == th[t].pc \in InCall \ {"wait"}
HasGuard(t) == th[t].pc = "live"
InBegin(t) == th[t].pc \in {"root", "lock"}
HasReadTx(t) == conf.rollback /\ (InBegin(t) \/ HasGuard(t))

(* What the store returns. *)
Stored == [k \in Keys |-> B!lookup(tree, k)]

(* Overlays that an Overlay, a session or a commit holds strongly. *)
Alive == held \cup UNION {Range(th[t].live) \cup {th[t].ov} : t \in Threads}

Go(t, pc) == th' = [th EXCEPT ![t].pc = pc]
Return(t) == th' = [th EXCEPT ![t] = Idle]

(* A thread that does nothing may begin something. *)
MayBegin(t) ==
    /\ mode = "up" /\ th[t].pc = "idle"
    /\ Cardinality({u \in Threads : th[u].pc # "idle"}) < conf.threads

shared == <<root, marker>>
log == <<dir, sl, rb, hist>>
past == <<blind, events>>
world == <<conf, mode, scan>>

-----------------------------------------------------------------------------
(* begin_session: with rollback, the delta builder takes a read transaction; *)
(* then the root is read, and the access guard is taken last.                *)

BeginDelta(t) ==
    /\ MayBegin(t) /\ count.sessions < conf.sessions
    /\ \E given \in {<<>>} \cup {<<o>> : o \in held} \cup {<<o, p>> : o \in held, p \in held} :
           /\ O!NewIsValid(ovs, Alive, given)
           /\ th' = [th EXCEPT ![t].pc = "root", ![t].live = O!LiveOverlay(ovs, given),
                                ![t].tx = IF conf.rollback THEN B!read_transaction(tree) ELSE NoTx]
    /\ count' = [count EXCEPT !.sessions = @ + 1]
    /\ UNCHANGED <<shared, tree, poisoned, meta, log, ovs, held, past, world>>

BeginRoot(t) ==
    /\ th[t].pc = "root"
    /\ th' = [th EXCEPT ![t].pc = "lock", ![t].prev = O!parent_root(ovs, th[t].live, root)]
    /\ UNCHANGED <<shared, tree, poisoned, meta, log, ovs, held, past, world, count>>

(* A reader waits for a writer that holds the lock or waits for it. *)
BeginLock(t) ==
    /\ th[t].pc = "lock"
    /\ \A u \in Threads : th[u].pc \notin InCall
    /\ Go(t, "live")
    /\ UNCHANGED <<shared, tree, poisoned, meta, log, ovs, held, past, world, count>>

(* Session::read: the overlay's change, or else the store's value. *)
read(t, k) ==
    IF O!HasValue(ovs, th[t].live, k) THEN O!value(ovs, th[t].live, k) ELSE B!lookup(tree, k)

(* The load worker's view: the same, as of the read transaction. *)
start_load(t, k) ==
    IF O!HasValue(ovs, th[t].live, k) THEN O!value(ovs, th[t].live, k) ELSE B!lookup_async(th[t].tx, k)

(* preserve_prior_value sends a lookup to the load worker. One per session. *)
PreservePrior(t) ==
    /\ conf.rollback /\ HasGuard(t) /\ th[t].loads = {} /\ th[t].tent = NoChanges
    /\ \E k \in Keys : th' = [th EXCEPT ![t].loads = {k}]
    /\ UNCHANGED <<shared, tree, poisoned, meta, log, ovs, held, past, world, count>>

LoadCompletes(t) ==
    /\ \E k \in th[t].loads :
           th' = [th EXCEPT ![t].loads = @ \ {k}, ![t].tent = Over([j \in {k} |-> start_load(t, k)], @)]
    /\ UNCHANGED <<shared, tree, poisoned, meta, log, ovs, held, past, world, count>>

(* The reads and writes a session may end with: one key, read or changed. *)
Actuals(t) ==
    {[j \in {k} |-> [op |-> op, prior |-> read(t, k), value |-> v]] :
        k \in Keys, op \in {"Read", "Write", "ReadThenWrite"}, v \in Values \cup {Absent}}

Useful(t, actuals) ==
    \A k \in DOMAIN actuals : IF actuals[k].op = "Read" THEN actuals[k].value = Absent
                              ELSE actuals[k].value # read(t, k)

(* What the session reads, and so what its trie update starts from. *)
Seen(t) == [k \in Keys |-> read(t, k)]

(* finish joins the load worker, completes the delta and computes the new root; *)
(* the guard and the read transaction go with the session.                      *)
Finish(t) ==
    /\ HasGuard(t) /\ th[t].loads = {}
    /\ \E actuals \in Actuals(t) :
        /\ Useful(t, actuals)
        /\ th' = [th EXCEPT ![t].pc = "finished",
                            ![t].delta = IF conf.rollback
                                         THEN finalize(actuals, th[t].tent, [k \in Keys |-> start_load(t, k)])
                                         ELSE NoChanges,
                            ![t].writes = Writes(actuals),
                            ![t].root = Over(Writes(actuals), Seen(t)),
                            ![t].blind = Seen(t) # th[t].prev,
                            ![t].tx = NoTx, ![t].tent = NoChanges]
    /\ UNCHANGED <<shared, tree, poisoned, meta, log, ovs, held, past, world, count>>

DropSession(t) ==
    /\ th[t].pc \in {"live", "finished"}
    /\ Return(t)
    /\ UNCHANGED <<shared, tree, poisoned, meta, log, ovs, held, past, world, count>>

into_overlay(t) ==
    /\ th[t].pc = "finished" /\ Len(ovs) < conf.overlays
    /\ ovs' = Append(ovs, O!finish(ovs, th[t].live, th[t].prev, th[t].root, th[t].writes, th[t].delta))
    /\ held' = held \cup {Len(ovs) + 1}
    /\ blind' = IF th[t].blind THEN blind \cup {Len(ovs) + 1} ELSE blind
    /\ Return(t)
    /\ UNCHANGED <<shared, tree, poisoned, meta, log, events, world, count>>

DropOverlay ==
    /\ mode = "up"
    /\ \E o \in held : held' = held \ {o}
    /\ UNCHANGED <<shared, tree, poisoned, meta, log, ovs, th, past, world, count>>

-----------------------------------------------------------------------------
(* Commits and rollbacks take the access lock for writing. *)

CallCommit(t) ==
    /\ th[t].pc = "finished"
    /\ th' = [th EXCEPT ![t].pc = "wait", ![t].kind = "session"]
    /\ UNCHANGED <<shared, tree, poisoned, meta, log, ovs, held, past, world, count>>

(* Overlay::commit compares the marker before it takes the lock. *)
CallCommitOverlay(t) ==
    /\ MayBegin(t)
    /\ \E o \in held :
           /\ held' = held \ {o}
           /\ IF O!parent_matches_marker(ovs[o], marker)
              THEN th' = [th EXCEPT ![t].pc = "wait", ![t].kind = "overlay", ![t].ov = o]
              ELSE UNCHANGED th
    /\ UNCHANGED <<shared, tree, poisoned, meta, log, ovs, past, world, count>>

CallRollback(t) ==
    /\ MayBegin(t) /\ conf.rollback
    /\ th' = [th EXCEPT ![t].pc = "wait", ![t].kind = "rollback"]
    /\ UNCHANGED <<shared, tree, poisoned, meta, log, ovs, held, past, world, count>>

\* Fault: a writer does not wait for sessions.
LockAnyway(t) == th[t].pc = "wait" /\ \A u \in Threads : ~HasLock(u)

(* The lock is taken by the same step that makes the checks under it. *)
Lock(t) == th[t].pc = "wait" /\ \A u \in Threads : ~HasLock(u) /\ ~HasGuard(u)

(* What a call no longer needs once its root is in place. *)
Passed(t, pc) == [th[t] EXCEPT !.pc = pc, !.prev = AllAbsent, !.root = AllAbsent, !.blind = FALSE]

(* With a rollback log the delta is appended to it before the store is touched. *)
AfterCheck == IF conf.rollback THEN "append" ELSE "sync"

Happens(event, cond) == events' = IF cond THEN events \cup {event} ELSE events

(* FinishedSession::commit. *)
CheckSession(t) ==
    /\ Lock(t) /\ th[t].kind = "session"
    /\ IF root = th[t].prev
       THEN /\ root' = th[t].root /\ marker' = 0
            /\ th' = [th EXCEPT ![t] = Passed(t, AfterCheck)]
            /\ Happens("stale", th[t].blind)
       ELSE /\ Return(t)
            /\ UNCHANGED <<shared, events>>
    /\ UNCHANGED <<tree, poisoned, meta, log, ovs, held, blind, world, count>>

\* Fault: only the marker, read before the lock was taken, says that the parent is committed.
CheckOverlayMarkerOnly(t) ==
    /\ Lock(t) /\ th[t].kind = "overlay"
    /\ ovs' = O!mark_committed(ovs, th[t].ov)
    /\ root' = ovs[th[t].ov].root /\ marker' = th[t].ov
    /\ th' = [th EXCEPT ![t].pc = AfterCheck, ![t].writes = ovs[th[t].ov].changes, ![t].delta = ovs[th[t].ov].delta]
    /\ Happens("stale", th[t].ov \in blind)
    /\ UNCHANGED <<tree, poisoned, meta, log, held, blind, world, count>>

(* Overlay::commit: the overlay is marked as committed before its root is checked. *)
CheckOverlay(t) ==
    /\ Lock(t) /\ th[t].kind = "overlay"
    /\ ovs' = O!mark_committed(ovs, th[t].ov)
    /\ LET o == ovs[th[t].ov] IN
       IF root = o.prev_root
       THEN /\ root' = o.root /\ marker' = th[t].ov
            /\ th' = [th EXCEPT ![t].pc = AfterCheck, ![t].writes = o.changes, ![t].delta = o.delta]
            /\ Happens("stale", th[t].ov \in blind)
       ELSE /\ Return(t)
            /\ UNCHANGED <<shared, events>>
    /\ UNCHANGED <<tree, poisoned, meta, log, held, blind, world, count>>

(* Nomt::rollback: a session without delta and guard writes what truncate      *)
(* returns. How many commits to roll back is decided here and not at the call. *)
CheckRollback(t) ==
    /\ Lock(t) /\ th[t].kind = "rollback"
    /\ \E n \in 1 .. MAX_ROLLBACK_LOG_LEN :
        /\ IF EnoughLogged(rb, n)
           THEN LET traceback == Traceback(rb, n) IN
                /\ rb' = Truncated(rb, n)
                /\ Happens("emptied", rb'.pending[1] # Nil /\ ~Holds(dir, rb'.pending[1]))
                /\ root' = Over(traceback, root) /\ marker' = 0
                /\ th' = [th EXCEPT ![t].pc = "sync", ![t].writes = traceback]
           ELSE /\ Return(t)
                /\ UNCHANGED <<shared, rb, events>>
    /\ UNCHANGED <<tree, poisoned, meta, dir, sl, hist, ovs, held, blind, world, count>>

(* Rollback::commit: the record is written and synced, then it joins the log. *)
AppendRecord(t) ==
    /\ th[t].pc = "append"
    /\ LET new == AppendWrites(sl, dir, encode(th[t].delta), EncodedLen(th[t].delta)) IN sl' = new.sl /\ dir' = new.dir
    /\ th' = [th EXCEPT ![t].pc = "sync_log", ![t].created = HeadFull(sl, dir)]
    /\ UNCHANGED <<shared, tree, poisoned, meta, rb, hist, ovs, held, past, world, count>>

SyncRecord(t) ==
    /\ th[t].pc = "sync_log"
    /\ dir' = Synced(dir, th[t].created) /\ sl' = Appended(sl)
    /\ rb' = push_recent(rb, next_id(sl), th[t].delta)
    /\ hist' = Over([i \in {next_id(sl)} |-> Stored], hist)
    /\ th' = [th EXCEPT ![t].pc = "sync", ![t].delta = NoChanges, ![t].created = FALSE]
    /\ UNCHANGED <<shared, tree, poisoned, meta, ovs, held, past, world, count>>

(* The append fails and the commit returns: at the creation of the segment,   *)
(* at the write, at the fsync of the file or at that of the directory. The    *)
(* root has moved already; the store is not touched and not poisoned.         *)
AppendFails(t) ==
    /\ count.faults < conf.faults
    /\ \/ th[t].pc = "append" /\ UNCHANGED <<sl, dir>>
       \/ th[t].pc = "append" /\ HeadFull(sl, dir) /\ sl' = create_segment(sl) /\ dir' = SegmentCreated(sl, dir)
       \/ th[t].pc = "sync_log" /\ UNCHANGED <<sl, dir>>
       \/ th[t].pc = "sync_log" /\ th[t].created /\ sl' = Appended(sl) /\ dir' = FileSynced(dir)
    /\ Happens("append", TRUE)
    /\ count' = [count EXCEPT !.faults = @ + 1]
    /\ Return(t)
    /\ UNCHANGED <<shared, tree, poisoned, meta, rb, hist, ovs, held, blind, world>>

(* Store::commit: the changes are staged and the live range of the log is fixed. *)
BeginSync(t) ==
    /\ th[t].pc = "sync"
    /\ IF poisoned
       THEN Return(t) /\ UNCHANGED <<rb, tree>>
       ELSE /\ th' = [th EXCEPT ![t].pc = "drain", ![t].writes = NoChanges, ![t].wd = writeout_start(rb, sl)]
            /\ rb' = AfterWriteoutStart(rb)
            /\ tree' = B!commit(tree, th[t].writes)
    /\ UNCHANGED <<shared, poisoned, meta, dir, sl, hist, ovs, held, past, world, count>>

block_until_zero == \A u \in Threads : ~HasReadTx(u)

(* The sync of the btree waits for the read transactions to end, then the  *)
(* staged changes move on and the update reuses free pages.                *)
prepare_sync(t) ==
    /\ th[t].pc = "drain" /\ block_until_zero
    /\ tree' = B!take_staged_changeset(tree)
    /\ th' = [u \in Threads |-> IF u = t THEN [th[t] EXCEPT !.pc = "meta"]
                                ELSE [th[u] EXCEPT !.tx = B!PagesReused(@)]]
    /\ UNCHANGED <<shared, poisoned, meta, log, ovs, held, past, world, count>>

WriteMeta(t) ==
    /\ th[t].pc = "meta"
    /\ meta' = [values |-> B!update(tree), start |-> th[t].wd.start, end |-> th[t].wd.end]
    /\ th' = [th EXCEPT ![t].pc = "prune", ![t].swapped = FALSE]
    /\ UNCHANGED <<shared, tree, poisoned, log, ovs, held, past, world, count>>

(* A failed write or sync before the manifest poisons the store. *)
SyncFails(t) ==
    /\ th[t].pc = "meta" /\ count.faults < conf.faults
    /\ poisoned' = TRUE
    /\ count' = [count EXCEPT !.faults = @ + 1]
    /\ Return(t)
    /\ UNCHANGED <<shared, tree, meta, log, ovs, held, past, world>>

(* The btree's post_meta, while a task of the rollback log prunes it. *)
finish_sync(t) ==
    /\ th[t].pc = "prune" /\ ~th[t].swapped
    /\ tree' = B!finish_sync(tree)
    /\ th' = [u \in Threads |-> IF u = t THEN [th[t] EXCEPT !.swapped = TRUE]
                                ELSE IF HasReadTx(u) THEN [th[u] EXCEPT !.tx = B!IndexReplaced(@)] ELSE th[u]]
    /\ UNCHANGED <<shared, poisoned, meta, log, ovs, held, past, world, count>>

(* writeout_end, one unlink per step. *)
PruneOldest(t) ==
    /\ th[t].pc = "prune" /\ th[t].wd.new_start # <<>>
    /\ LET start == th[t].wd.new_start[1] IN
       /\ sl' = PruneOldestStep(sl, start)
       /\ IF OldestGoes(sl, start)
          THEN dir' = UnlinkFirst(dir) /\ UNCHANGED th
          ELSE th' = [th EXCEPT ![t].wd.new_start = <<>>] /\ UNCHANGED dir
    /\ UNCHANGED <<shared, tree, poisoned, meta, rb, hist, ovs, held, past, world, count>>

PruneAll(t) ==
    /\ th[t].pc = "prune" /\ th[t].wd.new_end = <<Nil>>
    /\ sl' = remove_all_segments(sl)
    /\ IF sl.segs # <<>>
       THEN dir' = UnlinkFirst(dir) /\ UNCHANGED th
       ELSE th' = [th EXCEPT ![t].wd.new_end = <<>>] /\ UNCHANGED dir
    /\ UNCHANGED <<shared, tree, poisoned, meta, rb, hist, ovs, held, past, world, count>>

PruneRecent(t) ==
    /\ th[t].pc = "prune" /\ th[t].wd.new_end \notin {<<>>, <<Nil>>} /\ sl.segs # <<>>
    /\ LET end == th[t].wd.new_end[1] IN
       IF NewestGoes(sl, end)
       THEN /\ dir' = UnlinkLast(dir) /\ sl' = [sl EXCEPT !.segs = Front(@)]
            /\ UNCHANGED th
       ELSE IF scan_record_end(Last(dir.files), end) # 0
       THEN /\ dir' = truncate_head_segment(DirSynced(dir), end) /\ sl' = HeadTruncated(sl, end)
            /\ th' = [th EXCEPT ![t].wd.new_end = <<>>]
       ELSE /\ dir' = DirSynced(dir) /\ sl' = [sl EXCEPT !.head = FALSE]
            /\ th' = [th EXCEPT ![t].wd.new_end = <<>>, ![t].failed = TRUE]
    /\ UNCHANGED <<shared, tree, poisoned, meta, rb, hist, ovs, held, past, world, count>>

(* A failure to prune poisons the store as well. *)
SyncEnds(t) ==
    /\ th[t].pc = "prune" /\ th[t].swapped /\ th[t].wd.new_start = <<>>
    /\ th[t].wd.new_end = <<>> \/ (th[t].wd.new_end # <<Nil>> /\ sl.segs = <<>>)
    /\ poisoned' = (poisoned \/ th[t].failed)
    /\ Return(t)
    /\ UNCHANGED <<shared, tree, meta, log, ovs, held, past, world, count>>

-----------------------------------------------------------------------------
(* Crashes and recovery. *)

Crash ==
    /\ mode \in {"up", "opening"} /\ count.restarts < conf.restarts
    /\ dir' \in CrashImages(dir)
    /\ mode' = "down"
    /\ root' = meta.values /\ marker' = 0 /\ tree' = B!open(meta.values) /\ poisoned' = FALSE
    /\ sl' = EmptyLog /\ rb' = NewInMemory
    /\ ovs' = <<>> /\ held' = {} /\ blind' = {}
    /\ th' = [t \in Threads |-> Idle]
    /\ scan' = [log |-> <<>>, nonlive |-> <<>>]
    /\ count' = [count EXCEPT !.restarts = @ + 1]
    /\ UNCHANGED <<conf, meta, hist, events>>

(* Nomt::open: the root is read from the store, the log is scanned. *)
Open ==
    /\ mode = "down"
    /\ LET found == Scan(dir, meta.start, meta.end) IN
       /\ mode' = IF found.ok THEN "opening" ELSE "failed"
       /\ scan' = [log |-> found.log, nonlive |-> found.nonlive]
    /\ UNCHANGED <<conf, shared, tree, poisoned, meta, log, ovs, held, th, past, count>>

(* Segments go in the order of their numbers, also those past the live end. *)
remove_nonlive_segments ==
    /\ mode = "opening" /\ scan.nonlive # <<>>
    /\ dir' = remove_segment(dir, Head(scan.nonlive))
    /\ scan' = [scan EXCEPT !.nonlive = Tail(@)]
    /\ Happens("swept", Len(scan.nonlive) > 1 /\ Head(dir.files).id \notin Range(scan.nonlive))
    /\ UNCHANGED <<conf, shared, tree, poisoned, meta, sl, rb, hist, ovs, held, th, mode, blind, count>>

OpenEnds ==
    /\ mode = "opening" /\ scan.nonlive = <<>>
    /\ IF HeadFound(dir, meta.end)
       THEN /\ mode' = "up"
            /\ dir' = IF dir.files = <<>> THEN dir ELSE truncate_head_segment(dir, meta.end)
            /\ sl' = Recovered(dir', meta.start, meta.end)
            /\ rb' = ReadLog(scan.log)
            /\ scan' = [log |-> <<>>, nonlive |-> <<>>]
       ELSE /\ mode' = "failed"
            /\ UNCHANGED <<dir, sl, rb, scan>>
    /\ UNCHANGED <<conf, shared, tree, poisoned, meta, hist, ovs, held, th, past, count>>

SessionStep(t) == BeginRoot(t) \/ BeginLock(t) \/ LoadCompletes(t)
CommitStep(t) ==
    \/ CheckSession(t) \/ CheckOverlay(t) \/ CheckRollback(t)
    \/ AppendRecord(t) \/ SyncRecord(t) \/ BeginSync(t)
    \/ prepare_sync(t) \/ WriteMeta(t) \/ finish_sync(t) \/ PruneOldest(t) \/ PruneAll(t) \/ PruneRecent(t) \/ SyncEnds(t)
EndSession(t) == Finish(t) \/ DropSession(t)

Next ==
    \/ \E t \in Threads :
          \/ BeginDelta(t) \/ SessionStep(t) \/ PreservePrior(t) \/ EndSession(t) \/ into_overlay(t)
          \/ CallCommit(t) \/ CallCommitOverlay(t) \/ CallRollback(t) \/ CommitStep(t)
          \/ AppendFails(t) \/ SyncFails(t)
    \/ DropOverlay \/ Crash \/ Open \/ remove_nonlive_segments \/ OpenEnds

Spec == Init /\ [][Next]_vars

(* A thread in a call goes on, the access lock being fair to those who wait  *)
(* for it; an application ends its sessions.                                 *)
Fairness == \A t \in Threads : SF_vars(SessionStep(t)) /\ SF_vars(CommitStep(t)) /\ WF_vars(EndSession(t))

FairSpec == Spec /\ Fairness

-----------------------------------------------------------------------------
(* Properties. *)

Root == [Keys -> Values \cup {Absent}]
Changes == UNION {[D -> Values \cup {Absent}] : D \in SUBSET Keys}

(* Every variable has the type of the field it stands for. *)
TypeOK ==
    /\ root \in Root /\ tree.index \in Root /\ meta.values \in Root
    /\ marker \in 0 .. conf.overlays /\ poisoned \in BOOLEAN
    /\ meta.start \in Nat /\ meta.end \in Nat
    /\ \A i \in DOMAIN rb.log : rb.log[i].id \in Nat \ {0} /\ rb.log[i].delta \in Changes
    /\ \A i \in DOMAIN dir.files : dir.files[i].id \in Nat \ {0}
    /\ held \subseteq DOMAIN ovs /\ blind \subseteq DOMAIN ovs
    /\ events \subseteq {"append", "stale", "emptied", "swept"}
    /\ \A t \in Threads : /\ th[t].prev \in Root /\ th[t].root \in Root
                          /\ th[t].writes \in Changes /\ th[t].delta \in Changes
                          /\ th[t].loads \subseteq Keys

Quiet == mode = "up" /\ ~poisoned /\ \A t \in Threads : ~HasLock(t)

(* A commit has left the root and the store apart: its append to the log     *)
(* failed, or its session had not read the values of the root it was based   *)
(* on and the root was in place again when it committed.                     *)
Apart == events \cap {"append", "stale"} # {}

(* Between commits the values the store returns, those of its index and      *)
(* those the manifest leads to are the same, and the root that sessions      *)
(* start from is theirs: a commit of a session or of an overlay, or a        *)
(* rollback, brings all of them forward together. The root is excepted after *)
(* a failed append and after the commit of a session that did not read its   *)
(* root; the values are not.                                                 *)
RootMatchesStore ==
    Quiet => \A k \in Keys : /\ Stored[k] = meta.values[k] /\ tree.index[k] = meta.values[k]
                             /\ ~Apart => root[k] = Stored[k]

(* The overlays of a session lead from a state the store is in. *)
OnStore(live) ==
    /\ \E i \in DOMAIN live : Stored \in {ovs[live[i]].prev_root, ovs[live[i]].root}
    /\ Range(live) \cap blind = {}

(* A session with rollback reads, and its load worker preserves, the values  *)
(* of the root it is based on, whatever is committed while it begins; one on *)
(* overlays does so if some state that these lead through is the store's.    *)
(* Not covered: a session without overlays of a database without rollback,   *)
(* which may read its root before a commit and its values after it; overlays *)
(* left behind by other commits; a root that is apart from the store.        *)
SessionReadsItsRoot ==
    ~poisoned /\ ~Apart => \A t \in Threads :
        HasGuard(t) /\ (IF th[t].live = <<>> THEN conf.rollback ELSE OnStore(th[t].live)) =>
            \A k \in Keys : read(t, k) = th[t].prev[k] /\ (conf.rollback => start_load(t, k) = th[t].prev[k])

(* The log in memory leads back, delta by delta, through the states the     *)
(* store was in, and ends with the record the manifest ends with; also      *)
(* after a crash at any point of an append, a sync or a truncation, as long *)
(* as root and store are not apart.                                         *)
LogIsHistory ==
    Quiet /\ ~Apart =>
        /\ \A i \in DOMAIN rb.log :
               Over(Traceback(rb, Len(rb.log) - i + 1), Stored) = hist[rb.log[i].id]
        /\ \A i \in DOMAIN rb.log : rb.log[i].id = meta.end - Len(rb.log) + i

(* A rollback of n commits leads to the root before the first of them, as   *)
(* long as root and store are not apart.                                    *)
RollbackRestores ==
    [][\A t \in Threads :
          th[t].pc = "wait" /\ th[t].kind = "rollback" /\ th'[t].pc = "sync" /\ ~poisoned /\ ~Apart
              => root' = hist[rb'.pending[1] + 1]]_vars

(* Whatever a crash leaves of the segment files, the next open recovers,     *)
(* except after a failed append, after a rollback of all deltas of a pruned  *)
(* log, when a removal of segments past the live end was itself cut short,   *)
(* and when the file has zeros or a part of a header for the last record.    *)
OpenFailuresExplained ==
    mode = "failed" => events \cap {"append", "emptied", "swept"} # {} \/ Unreadable(dir)

(* The same, rollbacks not excepted: they may take back every delta logged. *)
OpensAfterRollbacks ==
    mode = "failed" => events \cap {"append", "swept"} # {} \/ Unreadable(dir)

(* The existence of a session prevents writes: what the store returns does  *)
(* not change while one is live.                                            *)
SessionsPreventWrites == [][Stored' # Stored /\ mode' = "up" => \A t \in Threads : ~HasGuard(t)]_vars

(* No assertion fails: the new start of the log lies in its live range      *)
(* whenever it is pruned, and no changes are still being synced when the    *)
(* next sync takes the staged ones.                                         *)
NoPanic ==
    \A t \in Threads :
        /\ th[t].pc = "prune" /\ th[t].wd.new_start # <<>> => ~PruneOldestPanics(sl, th[t].wd.new_start[1])
        /\ th[t].pc = "drain" => ~B!TakePanics(tree)

(* A call of begin_session returns once the commits before it have. *)
BeginReturns == \A t \in Threads : InBegin(t) ~> ~InBegin(t)

=============================================================================
