------------------------------- MODULE RaftLog -------------------------------
(***************************************************************************)
(* The persistent Raft log of src/log.c (lines 319-815): a log file that   *)
(* starts with a header record and continues with one record per entry,    *)
(* an index file that maps entry indices to byte offsets in the log file,  *)
(* and the RaftLog struct that caches the header and counts the entries.   *)
(*                                                                         *)
(* `log' is the struct, `disk' the log file as the process sees it,        *)
(* `stable' the part of it a power failure cannot take back, `idxfile'     *)
(* the index file.  `phase' is where the caller is in the life of a log:   *)
(* down, opened (header read), loading, ready (entries loaded), failed     *)
(* (an error).  `acked', `synced' and `delivered' are history: the entries the *)
(* caller was told are in the log, how many of them it may take to be on   *)
(* stable storage, and the callbacks of the last call.                     *)
(*                                                                         *)
(* Abstractions.  A record is a tag and an entry, and its length in bytes  *)
(* is EntrySize of the entry; Torn is a record cut short by a crash, which *)
(* no read gets past.  The header has one fixed length (its numbers are    *)
(* zero padded) and is replaced in one step.  dbid and the format version  *)
(* never change and are left out: NoHeader is a file whose first record    *)
(* handleHeader rejects.                                                   *)
(*                                                                         *)
(* I/O errors.  With IOErrors, a call may return an error at each point    *)
(* where the code tests the result of a write, a flush, a sync, a seek or  *)
(* a truncation.  A flush that fails loses what was buffered (the C        *)
(* library drops its buffer); a sync that fails leaves the file as the     *)
(* process sees it and the stable image as it was.  What the caller does   *)
(* with the error is `Reported'.                                           *)
(***************************************************************************)
EXTENDS Integers, Sequences, SequencesExt

CONSTANTS
    Entries,        \* the entries (raft_entry_t) a caller may append
    EntrySize,      \* bytes of the record of each entry
    Nodes,          \* node ids a vote may name
    NULL,           \* the null pointer
    Torn,           \* a record cut short
    NoHeader,       \* no valid header at the start of the file
    NoFsync,        \* log->no_fsync
    TornWrites,     \* whether a crash or an error may cut an append short
    IOErrors,       \* whether calls may fail for an I/O error
    DroppedErrors,  \* whether the ftruncate of RaftLogDelete, whose result
                    \* the code drops, may fail
    ContinueAfterError, \* whether the caller goes on using a log that
                    \* returned an error, or closes it
    MaxTerm,        \* bound: the largest term a caller names
    MaxIndex,       \* bound: the largest entry index
    MaxSnapshot,    \* bound: the largest snapshot index a caller names
    MaxRecords,     \* bound: the records in the log file
    MaxCount        \* bound: log->num_entries

ASSUME
    /\ EntrySize \in [Entries -> Nat \ {0}]
    /\ Nodes \subseteq Nat
    /\ {NoFsync, TornWrites, IOErrors, DroppedErrors, ContinueAfterError} \subseteq BOOLEAN
    /\ {MaxTerm, MaxIndex, MaxSnapshot, MaxRecords, MaxCount} \subseteq Nat
    /\ MaxSnapshot <= MaxIndex

VARIABLES
    log,        \* the RaftLog struct, NULL when no log is open
    disk,       \* [hdr, recs]: the log file
    stable,     \* [hdr, recs]: the log file as of the last fsync
    idxfile,    \* the index file: idxfile[k] is slot k
    phase,      \* "down", "opened", "loading", "ready" or "failed"
    acked,      \* history: the entries of (snapshot_last_idx, index]
    synced,     \* history: how many of them, from the first, are known
                \* to be on stable storage
    delivered   \* history: <<entry, index>> of each callback of the last call

logVars == <<log, disk, stable, idxfile, phase, acked, synced, delivered>>

-----------------------------------------------------------------------------
(* The log file.                                                           *)

HeaderSize == 1     \* bytes of the header record; entries start after it
TornSize   == 1     \* bytes of a torn record

NoVote == -1
Votes  == Nodes \cup {NoVote}

\* The record RaftLogWriteEntry writes for an entry.
Record(ety) == <<"ENTRY", ety>>

Records == {Record(ety) : ety \in Entries} \cup {Torn}

Size(rec) == IF rec = Torn THEN TornSize ELSE EntrySize[rec[2]]

\* The byte offset at which the k-th record of the file starts; with
\* k = Len(recs) + 1, the end of the file.
OffsetOf(recs, k) ==
    FoldLeft(LAMBDA off, rec : off + Size(rec), HeaderSize, SubSeq(recs, 1, k - 1))

EndOf(recs) == OffsetOf(recs, Len(recs) + 1)

\* The number of the record that starts at `offset', 0 if none does.
RecordAt(recs, offset) ==
    LET at == {k \in 1..Len(recs) : OffsetOf(recs, k) = offset}
    IN  IF at = {} THEN 0 ELSE CHOOSE k \in at : TRUE

\* The records read one after another from `offset' until a read fails:
\* at the end of the file, at a torn record, or at once when `offset' is
\* not the start of a record.
readRawLogEntries(recs, offset) ==
    LET k    == RecordAt(recs, offset)
        rest == IF k = 0 THEN <<>> ELSE SubSeq(recs, k, Len(recs))
        torn == SelectInSeq(rest, LAMBDA rec : rec = Torn)
    IN  IF torn = 0 THEN rest ELSE SubSeq(rest, 1, torn - 1)

\* The entry of a record, NULL for what is not an entry record.
parseRaftLogEntry(rec) == IF rec # Torn /\ rec[1] = "ENTRY" THEN rec[2] ELSE NULL

\* ftruncate(file, offset): the records that end at or before `offset'; a
\* record cut in two leaves a torn one.
Truncated(recs, offset) ==
    LET whole == {k \in 0..Len(recs) : OffsetOf(recs, k + 1) <= offset}
        n     == CHOOSE k \in whole : \A j \in whole : j <= k
    IN  IF n = Len(recs) \/ OffsetOf(recs, n + 1) = offset
        THEN SubSeq(recs, 1, n)
        ELSE Append(SubSeq(recs, 1, n), Torn)

\* The header record of a log: what writeLogHeader writes.
HeaderOf(l) ==
    [ snapshot_last_term |-> l.snapshot_last_term,
      snapshot_last_idx  |-> l.snapshot_last_idx,
      term               |-> l.term,
      vote               |-> l.vote ]

\* The struct after handleHeader has read header h into it.
handleHeader(l, h) ==
    [l EXCEPT !.snapshot_last_term = h.snapshot_last_term,
              !.snapshot_last_idx  = h.snapshot_last_idx,
              !.index              = h.snapshot_last_idx,
              !.term               = h.term,
              !.vote               = h.vote]

\* writeEnd: what is stable once the file has been flushed and, unless
\* no_fsync is set, synced.
writeEnd(file) == IF NoFsync THEN stable ELSE file

-----------------------------------------------------------------------------
(* The index file.                                                         *)

\* The index file after `offset' is written to slot relidx; a write past
\* the end leaves a hole of zeroes.
WithSlot(idx, relidx, offset) ==
    LET len == IF relidx > Len(idx) THEN relidx ELSE Len(idx)
    IN  [k \in 1..len |-> CASE k = relidx   -> offset
                            [] k > Len(idx) -> 0
                            [] OTHER        -> idx[k]]

updateIndex(l, idx, index, offset) == WithSlot(idx, index - l.snapshot_last_idx, offset)

\* The offset of entry i by the index file, 0 when i is out of bounds or
\* its slot is past the end of the index file.
seekEntry(l, idx, i) ==
    IF \/ i <= l.snapshot_last_idx
       \/ i > l.snapshot_last_idx + l.num_entries
       \/ i - l.snapshot_last_idx > Len(idx)
    THEN 0
    ELSE idx[i - l.snapshot_last_idx]

\* The entry RaftLogGet returns for index i, NULL if it finds none.
RaftLogGet(l, idx, recs, i) ==
    LET read == readRawLogEntries(recs, seekEntry(l, idx, i))
    IN  IF seekEntry(l, idx, i) <= 0 \/ read = <<>>
        THEN NULL
        ELSE parseRaftLogEntry(read[1])

RaftLogFirstIdx(l)   == l.snapshot_last_idx
RaftLogCurrentIdx(l) == l.index
RaftLogCount(l)      == l.num_entries

-----------------------------------------------------------------------------
(* Creating, opening and loading.                                          *)

\* The struct prepareLog allocates: all zero.
prepareLog ==
    [ snapshot_last_idx |-> 0, snapshot_last_term |-> 0, index |-> 0,
      num_entries |-> 0, term |-> 0, vote |-> 0 ]

\* The log file after ftruncate(file, 0), and after writeLogHeader then
\* wrote the header of struct l.
Emptied      == [hdr |-> NoHeader, recs |-> <<>>]
Restarted(l) == [hdr |-> HeaderOf(l), recs |-> <<>>]

\* What writeLogHeader leaves of an emptied file when it returns -1: no
\* header (a write or the flush failed) or one that is not synced.
HeaderErrors(l) == {Emptied, Restarted(l)}

\* The history of a log that starts over.
Forgotten == acked' = <<>> /\ synced' = 0 /\ delivered' = <<>>

\* Truncates both files and writes the header of an empty log that
\* follows a snapshot at (term, index); returns NULL, with the struct
\* freed, when the header cannot be written.
RaftLogCreate(term, index) ==
    LET l == [prepareLog EXCEPT !.index = index, !.snapshot_last_idx = index,
                                !.snapshot_last_term = term,
                                !.term = 1, !.vote = NoVote]
    IN  /\ phase = "down"
        /\ \/ /\ disk' = Restarted(l)
              /\ stable' = writeEnd(disk')
              /\ log' = l
              /\ phase' = "ready"
           \/ /\ IOErrors
              /\ disk' \in HeaderErrors(l)
              /\ UNCHANGED <<stable, log, phase>>
        /\ idxfile' = <<>>
        /\ Forgotten

\* Empties the index file (prepareLog) and reads the header into a fresh
\* struct; returns NULL for a file that does not start with a header.
RaftLogOpen ==
    /\ phase = "down"
    /\ idxfile' = <<>>
    /\ \/ /\ disk.hdr = NoHeader
          /\ UNCHANGED <<log, phase>>
       \/ /\ disk.hdr # NoHeader
          /\ log' = handleHeader(prepareLog, disk.hdr)
          /\ phase' = "opened"
    /\ delivered' = <<>>
    /\ UNCHANGED <<disk, stable, acked, synced>>

\* Mutant of Callbacks: the index is advanced before the callback.
CallbacksIndexAhead(read, first) ==
    [k \in 1..Len(read) |-> <<parseRaftLogEntry(read[k]), first + k>>]

\* The callbacks for a run of records read for indices from `first' on.
Callbacks(read, first) ==
    [k \in 1..Len(read) |-> <<parseRaftLogEntry(read[k]), first + k - 1>>]

\* How many of the records `read' from the file are in the stable image
\* of the same log: the others were written and never synced.
StableOf(read) ==
    IF stable.hdr # NoHeader /\ stable.hdr.snapshot_last_idx = disk.hdr.snapshot_last_idx
    THEN Len(LongestCommonPrefix({read, stable.recs}))
    ELSE 0

\* The bounds of the model leave room for the entries of the file.
RoomToLoad == disk.hdr.snapshot_last_idx + Len(disk.recs) <= MaxIndex

\* The read behind the first n records fails, which ends the loop of
\* RaftLogLoadEntries.
LoopEnds(recs, n) == n < Len(recs) => recs[n + 1] = Torn

\* RaftLogLoadEntries is called: it seeks to the start of the file, sets
\* term to 1 and index to 0, and reads the header again; -1 when the seek
\* fails, or the read after the struct was changed.
RaftLogLoadBegins ==
    /\ phase = "opened"
    /\ RoomToLoad
    /\ \/ log' = handleHeader(log, disk.hdr) /\ phase' = "loading"
       \/ /\ IOErrors
          /\ log' \in {log, [log EXCEPT !.term = 1, !.index = 0]}
          /\ phase' = "failed"
    /\ delivered' = <<>>
    /\ UNCHANGED <<disk, stable, idxfile, acked, synced>>

\* Mutant of LoadReturns: the loop goes on after a read that failed.
LoadSpins(n) ==
    LoopEnds(disk.recs, n) /\ UNCHANGED <<log, idxfile, phase, acked, synced, delivered>>

\* The loop is left at a read that fails, and the count of the entries
\* read, unless it is 0, becomes num_entries.
LoadReturns(n) ==
    /\ LoopEnds(disk.recs, n)
    /\ log' = [log EXCEPT !.num_entries = IF n > 0 THEN n ELSE @]
    /\ acked' = [k \in 1..n |-> parseRaftLogEntry(disk.recs[k])]
    /\ synced' = StableOf(SubSeq(disk.recs, 1, n))
    /\ phase' = "ready"
    /\ UNCHANGED <<idxfile, delivered>>

\* One turn of the loop, n entries having been read: an entry is counted,
\* indexed and handed to the callback.  When records follow a torn one,
\* its bytes and theirs may also read as a record that is no entry: -1,
\* with the struct as far as it got.
RaftLogLoadTurn ==
    /\ phase = "loading"
    /\ LET n == log.index - log.snapshot_last_idx
       IN  \/ /\ ~LoopEnds(disk.recs, n)
              /\ log' = [log EXCEPT !.index = @ + 1]
              /\ idxfile' = updateIndex(log, idxfile, log'.index, OffsetOf(disk.recs, n + 1))
              /\ delivered' = Append(delivered, <<parseRaftLogEntry(disk.recs[n + 1]), log'.index>>)
              /\ UNCHANGED <<phase, acked, synced>>
           \/ LoadReturns(n)
           \/ /\ n + 1 < Len(disk.recs) /\ disk.recs[n + 1] = Torn
              /\ phase' = "failed"
              /\ UNCHANGED <<log, idxfile, delivered, acked, synced>>
    /\ UNCHANGED <<disk, stable>>

-----------------------------------------------------------------------------
(* Writing.                                                                *)

\* Mutant of EntryOffset: the offset is taken after the write.
EntryOffsetAfter(recs, entry) == EndOf(Append(recs, Record(entry)))

\* ftell(file) - written: where the record just written starts.
EntryOffset(recs, entry) == EndOf(Append(recs, Record(entry))) - Size(Record(entry))

\* The files and the struct after RaftLogWriteEntry: the record is at the
\* end of the file (the file is in append mode), index is one more, and
\* the slot of the new index holds the record's offset.
RaftLogWriteEntry(l, idx, recs, entry) ==
    [ recs    |-> Append(recs, Record(entry)),
      log     |-> [l EXCEPT !.index = @ + 1],
      idxfile |-> updateIndex(l, idx, l.index + 1, EntryOffset(recs, entry)) ]

\* The bounds of the model leave room for one more entry.
RoomToAppend ==
    /\ log.index < MaxIndex
    /\ log.num_entries < MaxCount
    /\ Len(disk.recs) < MaxRecords

\* The entry is written and counted, and RR_OK returned.
Appended(entry) ==
    /\ phase = "ready"
    /\ RoomToAppend
    /\ LET w == RaftLogWriteEntry(log, idxfile, disk.recs, entry)
       IN  /\ disk' = [disk EXCEPT !.recs = w.recs]
           /\ idxfile' = w.idxfile
           /\ log' = [w.log EXCEPT !.num_entries = @ + 1]
    /\ acked' = Append(acked, entry)
    /\ synced' = IF NoFsync THEN synced ELSE Len(acked')
    /\ delivered' = <<>>
    /\ UNCHANGED phase

\* Mutant of RaftLogAppend: writeEnd is not called.
RaftLogAppendNoSync(entry) == Appended(entry) /\ UNCHANGED stable

\* Writes the entry, syncs, and counts it.
RaftLogAppend(entry) == Appended(entry) /\ stable' = writeEnd(disk')

\* What RaftLogAppend leaves when it returns RR_ERROR, as [recs, log,
\* idxfile].  A write of the record fails: the struct is as it was.
\* updateIndex fails: index is advanced, the record is buffered.
\* writeEnd fails: index is advanced and the slot written; the record is
\* lost with the buffer, or in the file and not synced.  In no case is
\* num_entries advanced.
AppendErrors(l, idx, recs, entry) ==
    LET w    == RaftLogWriteEntry(l, idx, recs, entry)
        torn == IF TornWrites THEN {Append(recs, Torn)} ELSE {}
    IN  [recs : {recs} \cup torn, log : {l}, idxfile : {idx}]
            \cup [recs : {w.recs}, log : {w.log}, idxfile : {idx}]
            \cup [recs : {recs, w.recs} \cup torn, log : {w.log}, idxfile : {w.idxfile}]

RaftLogAppendFails(entry) ==
    /\ IOErrors
    /\ phase = "ready"
    /\ RoomToAppend
    /\ \E left \in AppendErrors(log, idxfile, disk.recs, entry) :
          /\ disk' = [disk EXCEPT !.recs = left.recs]
          /\ log' = left.log
          /\ idxfile' = left.idxfile
    /\ delivered' = <<>>
    /\ UNCHANGED <<stable, acked, synced>>

\* Flushes and syncs the file: what RaftLogDelete cut is cut on stable
\* storage as well.
RaftLogSync ==
    /\ phase = "ready"
    /\ stable' = writeEnd(disk)
    /\ synced' = IF NoFsync THEN synced ELSE Len(acked)
    /\ delivered' = <<>>
    /\ UNCHANGED <<log, disk, idxfile, phase, acked>>

\* The flush or the sync fails: RR_ERROR, and nothing has changed.
RaftLogSyncFails ==
    /\ IOErrors
    /\ phase = "ready"
    /\ delivered' = <<>>
    /\ UNCHANGED <<log, disk, stable, idxfile, acked, synced>>

\* The indices of the entries of the log.
Live(l) == (l.snapshot_last_idx + 1)..l.index

\* seekEntry finds no offset for from_idx, which is out of bounds, or the
\* seek or the read of the slot fails: RR_ERROR, and nothing has changed.
RaftLogDeleteFails(from_idx) ==
    /\ phase = "ready"
    /\ IOErrors \/ seekEntry(log, idxfile, from_idx) = 0
    /\ delivered' = <<>>
    /\ UNCHANGED <<log, disk, stable, idxfile, acked, synced>>

\* Hands every record read from the offset of from_idx on to the
\* callback, cuts the file at that offset, and takes index back to
\* from_idx - 1.  The file is not synced, the index file keeps its slots,
\* and RR_OK is returned also when the truncation failed.  Every record
\* of the file that can be read is one of an entry, which
\* parseRaftLogEntry accepts.
RaftLogDelete(from_idx) ==
    /\ phase = "ready"
    /\ LET offset == seekEntry(log, idxfile, from_idx)
       IN  /\ offset # 0
           /\ delivered' = Callbacks(readRawLogEntries(disk.recs, offset), from_idx)
           /\ \/ disk' = [disk EXCEPT !.recs = Truncated(@, offset)]
              \/ DroppedErrors /\ UNCHANGED disk
    /\ log' = [log EXCEPT !.num_entries = @ - (log.index - from_idx + 1),
                          !.index = from_idx - 1]
    /\ acked' = SubSeq(acked, 1, from_idx - log.snapshot_last_idx - 1)
    /\ synced' = Min({synced, Len(acked')})
    /\ UNCHANGED <<stable, idxfile, phase>>

\* Mutant of Snapshotted: index is left where it was.
SnapshottedKeepsIndex(l, index, term) ==
    [l EXCEPT !.snapshot_last_idx = index,
              !.snapshot_last_term = term,
              !.term = IF @ > term THEN term ELSE @,
              !.vote = IF l.term > term THEN NoVote ELSE @]

\* The struct as RaftLogReset sets it for a snapshot at (term, index): a
\* term above the snapshot's is taken down to it, and the vote with it.
\* num_entries is left as it is.
Snapshotted(l, index, term) ==
    [l EXCEPT !.index = index, !.snapshot_last_idx = index,
              !.snapshot_last_term = term,
              !.term = IF @ > term THEN term ELSE @,
              !.vote = IF l.term > term THEN NoVote ELSE @]

\* Empties both files and restarts the log after a snapshot at
\* (term, index).
RaftLogReset(index, term) ==
    /\ phase = "ready"
    /\ log' = Snapshotted(log, index, term)
    /\ disk' = Restarted(log')
    /\ stable' = writeEnd(disk')
    /\ idxfile' = <<>>
    /\ Forgotten
    /\ UNCHANGED phase

\* RaftLogReset returns RR_ERROR, the struct changed as above: with both
\* files as they were (the first ftruncate failed), with the log file
\* emptied (the second failed), or with both emptied and the header not
\* written or not synced (writeLogHeader failed).
RaftLogResetFails(index, term) ==
    /\ IOErrors
    /\ phase = "ready"
    /\ log' = Snapshotted(log, index, term)
    /\ \/ UNCHANGED <<disk, idxfile>>
       \/ disk' = Emptied /\ UNCHANGED idxfile
       \/ disk' \in HeaderErrors(log') /\ idxfile' = <<>>
    /\ Forgotten
    /\ UNCHANGED stable

\* Mutant of updateLogHeader: the header is written from the struct as it
\* was before the call.
updateLogHeaderStale(l) ==
    /\ disk' = [disk EXCEPT !.hdr = HeaderOf(log)]
    /\ stable' = writeEnd(disk')

\* Rewrites the header in place from struct l, through a second handle
\* that is synced and closed.
updateLogHeader(l) ==
    /\ disk' = [disk EXCEPT !.hdr = HeaderOf(l)]
    /\ stable' = writeEnd(disk')

\* updateLogHeader returns -1: the header is as it was, or rewritten and
\* not synced.
updateLogHeaderFails(l) ==
    /\ IOErrors
    /\ disk' \in {disk, [disk EXCEPT !.hdr = HeaderOf(l)]}
    /\ UNCHANGED stable

\* The struct is changed to l and the header rewritten from it.
Set(l) ==
    /\ phase = "ready"
    /\ log' = l
    /\ updateLogHeader(l)
    /\ delivered' = <<>>
    /\ UNCHANGED <<idxfile, phase, acked, synced>>

RaftLogSetVote(vote) == Set([log EXCEPT !.vote = vote])

RaftLogSetTerm(term, vote) == Set([log EXCEPT !.term = term, !.vote = vote])

\* Either returns RR_ERROR: the struct is changed, the header may not be.
RaftLogSetFails(term, vote) ==
    /\ phase = "ready"
    /\ log' = [log EXCEPT !.term = term, !.vote = vote]
    /\ updateLogHeaderFails(log')
    /\ delivered' = <<>>
    /\ UNCHANGED <<idxfile, acked, synced>>

\* No log is open: the struct is freed, or gone with the process, and the
\* index file will be emptied by the next open.
Down ==
    /\ log' = NULL
    /\ phase' = "down"
    /\ idxfile' = <<>>
    /\ delivered' = <<>>
    /\ UNCHANGED <<acked, synced>>

\* Closes both files and frees the struct.
RaftLogClose ==
    /\ phase \notin {"down", "loading"}
    /\ Down
    /\ UNCHANGED <<disk, stable>>

-----------------------------------------------------------------------------
(* Crashes.  The index file is emptied at every open, so what a crash      *)
(* leaves in it is never read; it is empty while no log is open.           *)

\* What the caller does with a log that returned an error: it closes it
\* before any other call, unless it continues as if the call had not been
\* made.
Reported == phase' = IF ContinueAfterError THEN phase ELSE "failed"

\* The process stops and leaves the file as it saw it, or the machine
\* stops and leaves it as of the last fsync.
Crash ==
    /\ phase # "down" \/ disk # stable
    /\ disk' \in {disk, stable}
    /\ UNCHANGED stable
    /\ Down

\* The machine stops in RaftLogAppend with part of the record written.
CrashInAppend ==
    /\ TornWrites
    /\ phase = "ready"
    /\ Len(disk.recs) < MaxRecords
    /\ disk' = [disk EXCEPT !.recs = Append(@, Torn)]
    /\ stable' = disk'
    /\ Down

\* The machine stops in RaftLogCreate or RaftLogReset after ftruncate and
\* before writeLogHeader.
CrashAfterTruncate ==
    /\ phase \in {"down", "ready"}
    /\ disk' = Emptied
    /\ stable' = disk'
    /\ Down

-----------------------------------------------------------------------------
(* The log on its own, driven by a caller that keeps to the order of       *)
(* calls of the server: create or open and load, then use.  It deletes     *)
(* from an index up to the log's, and sets a term above the log's.         *)

Terms == 0..MaxTerm

Init ==
    /\ log = NULL
    /\ disk = [hdr |-> NoHeader, recs |-> <<>>]
    /\ stable = disk
    /\ idxfile = <<>>
    /\ phase = "down"
    /\ acked = <<>>
    /\ synced = 0
    /\ delivered = <<>>

Next ==
    \/ \E term \in Terms, index \in 0..MaxSnapshot : RaftLogCreate(term, index)
    \/ RaftLogOpen
    \/ RaftLogLoadBegins
    \/ RaftLogLoadTurn
    \/ \E entry \in Entries : RaftLogAppend(entry)
    \/ \E entry \in Entries : RaftLogAppendFails(entry) /\ Reported
    \/ RaftLogSync
    \/ RaftLogSyncFails /\ Reported
    \/ \E from_idx \in 1..MaxIndex :
          /\ phase = "ready" /\ from_idx <= log.index
          /\ RaftLogDelete(from_idx) \/ (RaftLogDeleteFails(from_idx) /\ Reported)
    \/ \E term \in Terms, index \in 0..MaxSnapshot : RaftLogReset(index, term)
    \/ \E term \in Terms, index \in 0..MaxSnapshot :
          RaftLogResetFails(index, term) /\ Reported
    \/ \E vote \in Votes : RaftLogSetVote(vote)
    \/ \E term \in Terms, vote \in Votes :
          phase = "ready" /\ log.term < term /\ RaftLogSetTerm(term, vote)
    \/ \E term \in Terms, vote \in Votes :
          phase = "ready" /\ log.term <= term /\ RaftLogSetFails(term, vote) /\ Reported
    \/ RaftLogClose
    \/ Crash
    \/ CrashInAppend
    \/ CrashAfterTruncate

\* A load that has begun runs on: its loop is code of one thread, which
\* only the machine stopping ends.
Spec == Init /\ [][Next]_logVars /\ WF_logVars(RaftLogLoadTurn)

-----------------------------------------------------------------------------
(* Properties.                                                             *)

Headers ==
    [ snapshot_last_term : Terms, snapshot_last_idx : 0..MaxIndex,
      term : Terms \cup {1}, vote : Votes ]

MaxOffset == HeaderSize + 2 * MaxRecords

\* The sequences over S of at most n elements.
UpTo(S, n) == {seq \in Seq(S) : Len(seq) <= n}

TypeOK ==
    /\ phase \in {"down", "opened", "loading", "ready", "failed"}
    /\ (log = NULL) <=> (phase = "down")
    /\ log # NULL =>
          /\ HeaderOf(log) \in Headers
          /\ log.index \in (IF phase = "failed" THEN 0 ELSE log.snapshot_last_idx)..MaxIndex
          /\ log.num_entries \in 0..MaxCount
    /\ {disk.hdr, stable.hdr} \subseteq Headers \cup {NoHeader}
    /\ {disk.recs, stable.recs} \subseteq UpTo(Records, MaxRecords)
    /\ idxfile \in UpTo(0..MaxOffset, MaxIndex)
    /\ acked \in UpTo(Entries, MaxIndex)
    /\ synced \in 0..Len(acked)
    /\ delivered \in UpTo(Entries \X (1..(MaxIndex + MaxRecords)), MaxRecords)

\* Every entry the log holds reads back as it was appended, through the
\* index file: the slot RaftLogWriteEntry or RaftLogLoadEntries wrote for
\* an index holds the offset of the record of that index, whatever
\* RaftLogDelete cut from the file and left in the index file before, and
\* wherever a torn record sits in the file.
ReadsMatchAppended ==
    phase = "ready" =>
        /\ Len(acked) = log.index - log.snapshot_last_idx
        /\ \A k \in 1..Len(acked) :
              RaftLogGet(log, idxfile, disk.recs, log.snapshot_last_idx + k) = acked[k]

\* The term and the vote of an open log are on stable storage: when
\* RaftLogSetTerm, RaftLogSetVote, RaftLogReset or RaftLogCreate has
\* returned, the header a restart would read is the one in the struct.
HeaderDurable ==
    (phase = "ready" /\ ~NoFsync) => stable.hdr = HeaderOf(log)

\* A restart gives back every entry the caller may take to be durable:
\* what RaftLogLoadEntries loads starts with the entries RaftLogAppend
\* returned RR_OK for and RaftLogDelete did not remove, in their order,
\* whatever calls failed, and whenever the machine stopped, in between.
RecoveryKeepsAcked ==
    [][(phase = "loading" /\ phase' = "ready") =>
          IsPrefix(SubSeq(acked, 1, synced), acked')]_logVars

\* RaftLogGet finds no entry outside (snapshot_last_idx, index]: seekEntry
\* bounds the index by num_entries, which counts the entries of the log.
OutOfRangeGetIsNull ==
    phase = "ready" =>
        \A i \in (0..(MaxIndex + 1)) \ Live(log) :
            RaftLogGet(log, idxfile, disk.recs, i) = NULL

\* A log file that has a header keeps one: re-opening never fails for a
\* log that was created, whenever the machine stops.
HeaderAlwaysValid ==
    [][disk.hdr # NoHeader => disk'.hdr # NoHeader]_logVars

\* A load ends: the loop of RaftLogLoadEntries goes on to the next record
\* after each entry and stops at the first read that fails, at a record
\* cut short as at the end of the file, so that the log of any file a
\* crash can leave becomes ready, or is reported as failed.
LoadEnds == (phase = "loading") ~> (phase # "loading")

=============================================================================
