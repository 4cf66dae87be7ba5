------------------------------- MODULE SegLog -------------------------------
(***************************************************************************)
(* The segmented log of nomt/src/seglog: numbered segment files in the     *)
(* database directory, each holding consecutive records.                   *)
(*                                                                         *)
(* A directory is [files |-> Seq([id, recs]), gone |-> files unlinked      *)
(* since the directory was last synced, in order of unlinking,             *)
(* dirty |-> what of the newest file is not yet synced: its last "record", *)
(* the "segment" itself].                                                  *)
(* A record is [id, payload, size, whole], its size in pages; one that is  *)
(* not whole has an incomplete payload, and no header if its id is Nil.    *)
(* The SegmentedLog in memory is [start, end, segs |-> Seq([id, min,max]), *)
(* head |-> whether the last segment is open for appending].               *)
(***************************************************************************)
EXTENDS Naturals, Sequences, SequencesExt, TLC

CONSTANT MAX_SEGMENT_SIZE  \* pages at which a segment file is full

ASSUME SegmentAssumption == MAX_SEGMENT_SIZE \in Nat \ {0}

Nil == 0

EmptyDir == [files |-> <<>>, gone |-> <<>>, dirty |-> {}]
EmptyLog == [start |-> Nil, end |-> Nil, segs |-> <<>>, head |-> FALSE]

live_range(sl) == <<sl.start, sl.end>>

\* Fault: ids start with the id that stands for no segment.
gen_segment_idFromZero(sl) == IF sl.segs = <<>> THEN 0 ELSE Last(sl.segs).id + 1

gen_segment_id(sl) == IF sl.segs = <<>> THEN 1 ELSE Last(sl.segs).id + 1

next_id(sl) == sl.end + 1

file_size(file) == FoldLeft(LAMBDA size, rec : size + rec.size, 0, file.recs)

(* Whether an append creates a segment, whose directory entry it then syncs. *)
HeadFull(sl, dir) == sl.head => file_size(Last(dir.files)) >= MAX_SEGMENT_SIZE

-----------------------------------------------------------------------------
(* append: first the writes, then the syncs. *)

create_segment(sl) ==
    [sl EXCEPT !.segs = Append(@, [id |-> gen_segment_id(sl), min |-> next_id(sl), max |-> next_id(sl)]),
               !.head = TRUE]

SegmentCreated(sl, dir) ==
    [dir EXCEPT !.files = Append(@, [id |-> gen_segment_id(sl), recs |-> <<>>]), !.dirty = {"segment"}]

WriteRecord(dir, rec) ==
    LET n == Len(dir.files) IN [dir EXCEPT !.files[n].recs = Append(@, rec), !.dirty = @ \cup {"record"}]

(* The record is in the file; nothing of it is synced. *)
AppendWrites(sl, dir, payload, size) ==
    LET rec == [id |-> next_id(sl), payload |-> payload, size |-> size, whole |-> TRUE] IN
    IF HeadFull(sl, dir)
    THEN [sl |-> create_segment(sl), dir |-> WriteRecord(SegmentCreated(sl, dir), rec)]
    ELSE [sl |-> sl, dir |-> WriteRecord(dir, rec)]

FileSynced(dir) == [dir EXCEPT !.dirty = @ \ {"record"}]

DirSynced(dir) == [dir EXCEPT !.gone = <<>>, !.dirty = @ \ {"segment"}]

\* Fault: the directory is not synced after a segment was created.
SyncedFileOnly(dir, created) == FileSynced(dir)

Synced(dir, created) == IF created THEN DirSynced(FileSynced(dir)) ELSE FileSynced(dir)

(* The live range moves once the record is synced. *)
Appended(sl) ==
    LET n == Len(sl.segs)
        id == next_id(sl)
    IN [sl EXCEPT !.start = IF @ = Nil THEN id ELSE @,
                  !.end = id,
                  !.segs[n].min = IF @ = Nil THEN id ELSE @,
                  !.segs[n].max = id]

-----------------------------------------------------------------------------
(* Pruning. Every unlink is a step of its own. *)

UnlinkFirst(dir) ==
    [files |-> Tail(dir.files), gone |-> Append(dir.gone, Head(dir.files)),
     dirty |-> IF Len(dir.files) = 1 THEN {} ELSE dir.dirty]
UnlinkLast(dir) == [files |-> Front(dir.files), gone |-> Append(dir.gone, Last(dir.files)), dirty |-> {}]

PruneOldestPanics(sl, start) == sl.segs # <<>> /\ (start > sl.end \/ start < sl.start)

(* The oldest segment goes while it is not the head and ends before the new start. *)
OldestGoes(sl, start) == Len(sl.segs) > 1 /\ Head(sl.segs).max < start

PruneOldestStep(sl, start) ==
    IF OldestGoes(sl, start) THEN [sl EXCEPT !.start = start, !.segs = Tail(@)] ELSE [sl EXCEPT !.start = start]

(* prune_recent(nil) empties the log, oldest segment first. *)
remove_all_segments(sl) ==
    [start |-> Nil, end |-> Nil, head |-> FALSE, segs |-> IF sl.segs = <<>> THEN <<>> ELSE Tail(sl.segs)]

(* The segment that should hold the new end: the newest that starts at or below it. *)
SegmentOf(sl, end) ==
    LET below == {i \in 2 .. Len(sl.segs) : sl.segs[i].min <= end}
    IN IF below = {} THEN 1 ELSE CHOOSE i \in below : \A j \in below : j <= i

NewestGoes(sl, end) == Len(sl.segs) > SegmentOf(sl, end)

(* The position of record id in a file, 0 if it is not there. *)
scan_record_end(file, id) ==
    LET at == {i \in 1 .. Len(file.recs) : file.recs[i].id = id}
    IN IF at = {} THEN 0 ELSE CHOOSE i \in at : \A j \in at : i <= j

truncate_head_segment(dir, end) ==
    LET n == Len(dir.files) IN
    FileSynced([dir EXCEPT !.files[n].recs = SubSeq(@, 1, scan_record_end(dir.files[n], end))])

HeadTruncated(sl, end) ==
    LET n == Len(sl.segs) IN [sl EXCEPT !.segs[n].max = end, !.end = end, !.head = TRUE]

-----------------------------------------------------------------------------
(* Recovery. *)

(* What a crash can leave of a record: all of it, its header, nothing, or a  *)
(* file that has been extended but not written. The scan takes each page of  *)
(* zeros for a record with id Nil. It refuses the second of two, as it       *)
(* refuses a header that is cut short: two of them stand for this as well.   *)
Zeros(rec) == [rec EXCEPT !.id = Nil, !.size = 1, !.whole = FALSE]

RecordImages(rec) == {<<rec>>, <<[rec EXCEPT !.whole = FALSE]>>, <<>>, <<Zeros(rec)>>, <<Zeros(rec), Zeros(rec)>>}

(* What a crash can leave of the newest file. *)
HeadImages(dir) ==
    LET before == Front(dir.files)
        file == Last(dir.files)
        images == IF "record" \in dir.dirty
                  THEN {Append(before, [file EXCEPT !.recs = Front(@) \o r]) : r \in RecordImages(Last(file.recs))}
                  ELSE {dir.files}
    IN images \cup (IF "segment" \in dir.dirty THEN {before} ELSE {})

ById(files) == SortSeq(files, LAMBDA f, g : f.id < g.id)

(* Directory operations reach the disk in order: a crash undoes the last    *)
(* unlinks of `gone`, and a segment created after them is there only if     *)
(* none is undone.                                                          *)
CrashImages(dir) ==
    LET undone == {SubSeq(dir.gone, i, Len(dir.gone)) : i \in 1 .. Len(dir.gone)}
        without == IF "segment" \in dir.dirty THEN {Front(dir.files)} ELSE HeadImages(dir)
    IN {[EmptyDir EXCEPT !.files = f] : f \in HeadImages(dir)}
         \cup {[EmptyDir EXCEPT !.files = ById(f \o g)] : f \in without, g \in undone}

Records(dir) == FlattenSeq([i \in DOMAIN dir.files |->
                              [j \in DOMAIN dir.files[i].recs |-> [seg |-> i, rec |-> dir.files[i].recs[j]]]])

scan_root_dir(dir) ==
    \A i \in DOMAIN dir.files :
        /\ dir.files[i].id # 0
        /\ i > 1 => dir.files[i].id = dir.files[i - 1].id + 1

ScanOrdered(dir) ==
    \A i \in DOMAIN dir.files : \A j \in 2 .. Len(dir.files[i].recs) :
        dir.files[i].recs[j].id = dir.files[i].recs[j - 1].id + 1

(* The records passed to the callback: from the first at or above start_live *)
(* to the first of those at or above end_live.                               *)
LiveRecords(dir, start, end) ==
    LET all == Records(dir)
        ins == {p \in DOMAIN all : all[p].rec.id >= start}
        enter == CHOOSE p \in ins : \A q \in ins : p <= q
        outs == {p \in DOMAIN all : p >= enter /\ all[p].rec.id >= end}
        exit == CHOOSE p \in outs : \A q \in outs : p <= q
    IN IF start = Nil \/ ins = {} THEN <<>>
       ELSE IF outs = {} THEN <<>> ELSE SubSeq(all, enter, exit)

(* open: the scan. Without a live range nothing is read and every segment goes. *)
Scan(dir, start, end) ==
    LET live == LiveRecords(dir, start, end) IN
    [ok |-> /\ (start = Nil) <=> (end = Nil)
            /\ scan_root_dir(dir)
            /\ start # Nil => /\ ScanOrdered(dir)
                              /\ live # <<>>
                              /\ \A i \in DOMAIN live : live[i].rec.whole,
     log |-> [i \in DOMAIN live |-> [id |-> live[i].rec.id, payload |-> live[i].rec.payload]],
     nonlive |-> SelectSeq([i \in DOMAIN dir.files |-> dir.files[i].id],
                           LAMBDA id : ~ \E i \in DOMAIN live : dir.files[live[i].seg].id = id)]

Holds(dir, id) == \E i \in DOMAIN dir.files : scan_record_end(dir.files[i], id) # 0

Unreadable(dir) == \E i \in DOMAIN dir.files : \E j \in DOMAIN dir.files[i].recs : dir.files[i].recs[j].id = Nil

remove_segment(dir, id) ==
    [dir EXCEPT !.files = SelectSeq(@, LAMBDA f : f.id # id),
                !.gone = @ \o SelectSeq(dir.files, LAMBDA f : f.id = id)]

(* open: the head segment must hold the last live record. *)
HeadFound(dir, end) == dir.files = <<>> \/ scan_record_end(Last(dir.files), end) # 0

(* The segments in memory after recovery; a file without records has min and max nil. *)
RecoveredSegments(dir, end) ==
    [i \in DOMAIN dir.files |->
        [id |-> dir.files[i].id,
         min |-> IF dir.files[i].recs = <<>> THEN Nil ELSE Head(dir.files[i].recs).id,
         max |-> IF i = Len(dir.files) THEN end ELSE Last(dir.files[i].recs).id]]

Recovered(dir, start, end) ==
    [start |-> start, end |-> end, segs |-> RecoveredSegments(dir, end), head |-> dir.files # <<>>]

=============================================================================
