------------------------------- MODULE LogImpl -------------------------------
(***************************************************************************)
(* The log as the consensus library uses it: the operations of the         *)
(* RaftLogImpl table of src/log.c (lines 821-953), each of which calls     *)
(* the entry cache and the persistent log in turn.  The module composes    *)
(* EntryCache and RaftLog over their own variables and adds `polled', the  *)
(* index up to which the library has polled the log.                       *)
(*                                                                         *)
(* The log is created, opened, loaded, and its term and vote are set, by   *)
(* calls of the server that pass the table by; they leave the cache alone. *)
(* An assertion that fails stops the process like a crash.  A call of the  *)
(* table that returns an error is reported to the library as in RaftLog;   *)
(* logImplReset returns nothing, and the library goes on.                  *)
(***************************************************************************)
EXTENDS Integers, Sequences, Bags

CONSTANTS
    Entries, EntrySize, Nodes, NULL, Torn, NoHeader, NoFsync, TornWrites,
    IOErrors, DroppedErrors, ContinueAfterError,
    MaxTerm, MaxIndex, MaxSnapshot, MaxRecords, MaxCount,   \* as in RaftLog
    InitSize                                    \* ENTRY_CACHE_INIT_SIZE

VARIABLES
    log, disk, stable, idxfile, phase, acked, synced, delivered, \* as in RaftLog
    cache,      \* rr->logcache, NULL before logImplInit
    held,       \* as in EntryCache
    polled      \* history: the first_idx of the last logImplPoll; 0 if none

Log   == INSTANCE RaftLog
Cache == INSTANCE EntryCache WITH MaxIdx <- MaxIndex

logVars  == <<log, disk, stable, idxfile, phase, acked, synced, delivered>>
implVars == <<logVars, cache, held, polled>>

\* The table is in use: the log is loaded and the cache allocated.
InUse == phase = "ready" /\ cache # NULL

-----------------------------------------------------------------------------
(* The operations of the table.                                            *)

\* Allocates the cache unless there is one.
logImplInit ==
    /\ cache = NULL
    /\ cache' = Cache!EntryCacheNew(InitSize)
    /\ UNCHANGED <<logVars, held, polled>>

\* Closes the log and frees the cache, at shutdown.  The code leaves
\* rr->logcache pointing at the freed cache; the model takes the next
\* logImplInit to be that of a new process.
logImplFree ==
    /\ InUse
    /\ Log!RaftLogClose
    /\ Cache!EntryCacheFree
    /\ cache' = NULL
    /\ polled' = 0

logImplReset(index, term) ==
    /\ InUse
    /\ Log!RaftLogReset(index, term)
    /\ Cache!Renew
    /\ polled' = 0

\* RaftLogReset returns RR_ERROR, which logImplReset does not look at:
\* the cache is renewed and the library goes on with the log as the
\* failed reset left it.
logImplResetFails(index, term) ==
    /\ InUse
    /\ Log!RaftLogResetFails(index, term)
    /\ Cache!Renew
    /\ polled' = 0
    /\ UNCHANGED phase

\* Mutant of logImplAppend: the entry is cached under the index the log
\* had before the append.
logImplAppendOldIndex(ety) ==
    /\ InUse
    /\ Log!RaftLogAppend(ety)
    /\ Cache!EntryCacheAppend(ety, log.index)
    /\ UNCHANGED polled

\* Appends to the log, then to the cache under the index the log gave.
logImplAppend(ety) ==
    /\ InUse
    /\ Log!RaftLogAppend(ety)
    /\ Cache!EntryCacheAppend(ety, log'.index)
    /\ UNCHANGED polled

\* RaftLogAppend returns RR_ERROR: -1 is returned and the cache is left
\* as it is.
logImplAppendFails(ety) ==
    /\ InUse
    /\ Log!RaftLogAppendFails(ety)
    /\ Log!Reported
    /\ UNCHANGED <<cache, held, polled>>

\* The same when the index the log gave does not continue the cache: the
\* entry is written and synced, and the assertion of EntryCacheAppend
\* stops the process.
logImplAppendAborts(ety) ==
    /\ InUse
    /\ Log!RoomToAppend
    /\ ~Cache!AppendAsserts(cache, log.index + 1)
    /\ disk' = [disk EXCEPT !.recs = Log!RaftLogWriteEntry(log, idxfile, @, ety).recs]
    /\ stable' = Log!writeEnd(disk')
    /\ Log!Down
    /\ cache' = NULL
    /\ held' = EmptyBag
    /\ polled' = 0

\* Evicts the cache below first_idx; the log is left as it is.
logImplPoll(first_idx) ==
    /\ InUse
    /\ Cache!EntryCacheDeleteHead(first_idx)
    /\ polled' = first_idx
    /\ UNCHANGED logVars

\* Evicts the cache from from_idx on, then deletes from the log.
logImplPop(from_idx) ==
    /\ InUse
    /\ Cache!EntryCacheDeleteTail(from_idx)
    /\ Log!RaftLogDelete(from_idx)
    /\ UNCHANGED polled

\* RaftLogDelete returns RR_ERROR: -1 is returned, with the cache evicted
\* from from_idx on.
logImplPopFails(from_idx) ==
    /\ InUse
    /\ Cache!EntryCacheDeleteTail(from_idx)
    /\ Log!RaftLogDeleteFails(from_idx)
    /\ Log!Reported
    /\ UNCHANGED polled

\* The entry of idx from the cache, or from the file on a miss.
logImplGet(idx) ==
    IF Cache!EntryCacheGet(cache, idx) # NULL
    THEN Cache!EntryCacheGet(cache, idx)
    ELSE Log!RaftLogGet(log, idxfile, disk.recs, idx)

\* The entries of idx, idx + 1, ... up to the first miss, entries_n at most.
logImplGetBatch(idx, entries_n) ==
    LET hit(n) == \A i \in idx..(idx + n - 1) : logImplGet(i) # NULL
        n      == CHOOSE n \in 0..entries_n :
                      hit(n) /\ (n < entries_n => ~hit(n + 1))
    IN  [k \in 1..n |-> logImplGet(idx + k - 1)]

logImplFirstIdx   == Log!RaftLogFirstIdx(log)
logImplCurrentIdx == Log!RaftLogCurrentIdx(log)
logImplCount      == Log!RaftLogCount(log)

-----------------------------------------------------------------------------
(* The server around the table.                                            *)

\* A call to the log that passes the table by.
Direct(call) == call /\ UNCHANGED <<cache, held, polled>>

\* The process stops: the cache and its references go with it.
Stopped(crash) ==
    /\ crash
    /\ cache' = NULL
    /\ held' = EmptyBag
    /\ polled' = 0

Init ==
    /\ Log!Init
    /\ cache = NULL
    /\ held = EmptyBag
    /\ polled = 0

\* The library pops entries it has not polled away, and polls forward.
Next ==
    \/ logImplInit
    \/ logImplFree
    \/ \E index \in 0..MaxSnapshot, term \in Log!Terms : logImplReset(index, term)
    \/ \E index \in 0..MaxSnapshot, term \in Log!Terms : logImplResetFails(index, term)
    \/ \E ety \in Entries : logImplAppend(ety) \/ logImplAppendAborts(ety)
    \/ \E ety \in Entries : logImplAppendFails(ety)
    \/ \E first_idx \in 1..(MaxIndex + 1) :
          InUse /\ first_idx \in polled..(log.index + 1) /\ logImplPoll(first_idx)
    \/ \E from_idx \in 1..MaxIndex :
          /\ InUse /\ from_idx \in polled..log.index
          /\ logImplPop(from_idx) \/ logImplPopFails(from_idx)
    \/ \E term \in Log!Terms, index \in 0..MaxSnapshot : Direct(Log!RaftLogCreate(term, index))
    \/ Direct(Log!RaftLogOpen)
    \/ Direct(Log!RaftLogLoadBegins)
    \/ Direct(Log!RaftLogLoadTurn)
    \/ Direct(Log!RaftLogSync)
    \/ Direct(Log!RaftLogSyncFails /\ Log!Reported)
    \/ \E vote \in Log!Votes : Direct(Log!RaftLogSetVote(vote))
    \/ \E term \in Log!Terms, vote \in Log!Votes :
          phase = "ready" /\ log.term < term /\ Direct(Log!RaftLogSetTerm(term, vote))
    \/ \E term \in Log!Terms, vote \in Log!Votes :
          /\ phase = "ready" /\ log.term <= term
          /\ Direct(Log!RaftLogSetFails(term, vote) /\ Log!Reported)
    \/ Stopped(Log!Crash)
    \/ Stopped(Log!CrashInAppend)
    \/ Stopped(Log!CrashAfterTruncate)

Spec == Init /\ [][Next]_implVars

-----------------------------------------------------------------------------
(* Properties.                                                             *)

TypeOK ==
    /\ Log!TypeOK
    /\ cache # NULL => Cache!TypeOK
    /\ IsABag(held)
    /\ polled \in 0..(MaxIndex + 1)

\* Every run of entries of the log reads back through the table as it was
\* appended, whether the cache or the file answers: the cache holds an
\* entry under the index RaftLogAppend gave it, and logImplPop, logImplReset
\* and a restart leave no entry of an earlier log under an index of this
\* one.
BatchesMatchAppended ==
    InUse =>
        \A idx \in Log!Live(log) :
            LET k == idx - log.snapshot_last_idx
            IN  logImplGetBatch(idx, log.index - idx + 1) = SubSeq(acked, k, Len(acked))

\* The cache holds one reference for each entry in it and no other, across
\* logImplReset, logImplFree and logImplPop as well: none leaks with a
\* cache that is replaced, none is released twice.
HeldIsCached ==
    IF cache = NULL THEN held = EmptyBag ELSE Cache!HeldIsWindow

\* The entries logImplPop removes from index from_idx on, each with its
\* index.
Popped(from_idx) ==
    [k \in 1..(log.index - from_idx + 1) |->
        <<acked[from_idx - log.snapshot_last_idx + k - 1], from_idx + k - 1>>]

\* logImplPop calls back for entries it removes only, in their order and
\* with their indices, and for each of them unless the file holds a record
\* cut short: the loop of RaftLogDelete reads on from the slot of from_idx,
\* which must be the record of that entry with the records of the later
\* ones behind it, and leaves at the first read that fails.
PopNotifiesRemoved ==
    [][\A from_idx \in 1..MaxIndex :
          (InUse /\ from_idx \in Log!Live(log) /\ logImplPop(from_idx)) =>
              /\ Log!IsPrefix(delivered', Popped(from_idx))
              /\ delivered' # Popped(from_idx) =>
                    \E k \in DOMAIN disk.recs : disk.recs[k] = Torn]_implVars

\* A restart gives back the entries logImplAppend returned 0 for and the
\* library did not pop, under their indices, also after a logImplReset
\* whose RaftLogReset failed: an error of the reset reaches the library,
\* which does not append to a log that was not reset.
RecoveryKeepsAcked ==
    [][(phase = "loading" /\ phase' = "ready") =>
          Log!IsPrefix(SubSeq(acked, 1, synced), acked')]_implVars

\* A cache that is not empty ends where the log ends: logImplAppend and
\* logImplPop keep the last cached index equal to the index of the log.
CacheEndsAtIndex ==
    (InUse /\ cache.len > 0) => cache.start_idx + cache.len - 1 = log.index

=============================================================================
