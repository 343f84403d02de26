# TLA+ models of the RedisRaft persistent log (`src/log.c`)

`src/log.c` is the storage under a Raft node: a log file of framed records, an
index file of offsets into it, a ring cache of the newest entries, and the table
of operations (`RaftLogImpl`) the consensus library reaches them through. This
directory holds TLA+ models of those parts, the TLC configurations that check
them, and the record of what the checks show (`PROJECT.json`).

## 1. The system

| Part | Code | State | Operations |
|---|---|---|---|
| Entry cache | 19-141 | `EntryCache {size, ptrs, start, len, start_idx}`, one reference held per cached entry | `EntryCacheNew`, `Append`, `Get`, `DeleteHead`, `DeleteTail`, `Free` |
| Framing codec | 154-317, 359-374, 433-514 | none of its own (the bytes of the file and the stream position) | `writeBegin/End`, `writeBuffer`, `write(Unsigned)Integer`, `writeLogHeader`, `readEncodedLength`, `readRawLogEntry`, `parseRaftLogEntry`, `handleHeader` |
| Index file | 319-329, 693-716 | one offset per entry, slot `idx - snapshot_last_idx` | `updateIndex`, `seekEntry` |
| Log file | 331-431, 516-815 | `RaftLog {snapshot_last_term, snapshot_last_idx, term, vote, index, num_entries, ...}`; the file: a header record, then entry records | `prepareLog`, `updateLogHeader`, `RaftLogCreate`, `Open`, `Reset`, `LoadEntries`, `WriteEntry`, `Sync`, `Append`, `Get`, `Delete`, `SetVote`, `SetTerm`, `Close`, accessors |
| Log facade | 821-953 | `rr->log`, `rr->logcache` | `logImplInit`, `Free`, `Reset`, `Append`, `Poll`, `Pop`, `Get`, `GetBatch`, `FirstIdx`, `CurrentIdx`, `Count` |

How they interact. The facade calls the log first and the cache second on an
append (the cache takes the index the log gave), the cache first and the log
second on a pop, and the cache alone on a poll. A read asks the cache and falls
back to the file, which it reaches through the index file. The log file is
written through one append-mode handle; the header is rewritten in place
through a second handle (`updateLogHeader`). `writeEnd` flushes and syncs after
a header and after an appended entry; `RaftLogDelete` truncates and does not
sync. The index file is emptied each time the log is opened and rebuilt by
`RaftLogLoadEntries`, so it is never read across a restart. The code is
single-threaded: what interleaves with it is the process stopping at any
point, a system call failing, and the caller's choice of the next call. The
one loop that runs over the whole file, that of `RaftLogLoadEntries`, is
modelled one turn per step, so that the machine can stop inside it.

## 2. Modules

| Module | Models | Variables |
|---|---|---|
| `CacheWindow` | what the cache promises: a window of consecutive entries | `first`, `items` |
| `EntryCache` | the ring of lines 19-141 | `cache` (the struct), `held` (bag of references the cache owns) |
| `RaftLog` | log file, index file, the struct, crashes, failing calls | `log` (the struct), `disk` (the file as the process sees it), `stable` (the file as of the last sync), `idxfile`, `phase`; history: `acked`, `synced`, `delivered` |
| `LogImpl` | the facade; composes `RaftLog` and `EntryCache` by `INSTANCE` | those of both, and `polled` (history) |
| `Framing` | the bytes of the log file: the writers, the readers, the load as one step | `file`; history: `header`, `rewriting`, `writes` |
| `MCEntryCache`, `MCRaftLog`, `MCLogImpl`, `MCFraming` | constants for TLC | |

Each operation of the code is one action (or one operator, when it only reads),
under the name it has in the code; `PROJECT.json` (`map`) gives the lines of
each. The correspondences that are not one to one:

* **Records and bytes.** In `RaftLog` a record is `<<"ENTRY", e>>`, of
  `EntrySize[e]` bytes, and the header is a record of `HeaderSize` bytes.
  Offsets are sums of sizes (`OffsetOf`, `EndOf`), so the offsets `updateIndex`
  stores and `seekEntry` seeks to are compared as the code compares them.
  `Torn` is a record cut short, which no read gets past. `Framing` is the same
  code one level down: a file is a sequence of bytes, the writers are the
  sequences `fprintf` and `fwrite` produce (`Formatted` is `%0*lu` and `%0*ld`),
  the readers are `fgets`, `strtoul` and `fread` over them, and a record, or
  a rewrite of the header, is cut short after any number of its bytes. `Framing` is what justifies `RaftLog`'s
  records where the file is whole or torn only at its end, and what shows
  where they are too coarse (run `codec_phantom`).
* **Locals as parameters** (`Framing`). A value the code keeps in a local
  variable (the length just read, the record just read) is the parameter of
  the operator that stands for the lines after the assignment: `Element`,
  `Record`, `Turn`, `Loaded`.
* **`phase`** is where the caller is with the log: `"down"` (no `RaftLog`),
  `"opened"` (after `RaftLogOpen`, before the load), `"loading"` (inside
  `RaftLogLoadEntries`), `"ready"`, `"failed"` (a call returned an error and
  the caller has nothing left but to close).
* **The load** is two actions. `RaftLogLoadBegins` is lines 566-585 (the seek
  and the header); `RaftLogLoadTurn` is one turn of the loop of lines 587-626,
  or its exit with lines 628-631 (`LoadReturns`). The count `ret` of the code
  is `index - snapshot_last_idx`, which the loop advances with it. No other
  call is made while the log is loading; the machine may stop.
* **Failing calls.** With `IOErrors`, each call that can return an error has a
  second action (`RaftLogAppendFails`, `RaftLogResetFails`, `RaftLogSetFails`,
  `RaftLogSyncFails`, `RaftLogDeleteFails`, the failing branches of
  `RaftLogCreate`, `RaftLogLoadBegins` and `RaftLogLoadTurn`) that leaves the struct and the files at one of the points
  where the code returns: `AppendErrors` and `HeaderErrors` list them. A
  flush that fails loses what was buffered; a sync that fails leaves the file
  as written and `stable` as it was. `Reported` is what the caller does with
  the error: it gives the log up (`phase' = "failed"`), or, with
  `ContinueAfterError`, goes on. `logImplReset` returns nothing, so the error
  of `RaftLogReset` is dropped and the model goes on (`logImplResetFails`).
* **`RaftLogDelete`** is two actions: the one that deletes, and
  `RaftLogDeleteFails`, the early return of line 746 when `seekEntry` finds
  no offset (an index at or below the snapshot's, or, with `IOErrors`, a seek
  or a read of the slot that fails). `logImplPop` has evicted the tail of the
  cache by then (`logImplPopFails`). The parse error of lines 758-762 has no
  action: every record the model's file holds that can be read is one of an
  entry.
* **A failure nobody sees.** `RaftLogDelete` does not look at the result of
  its `ftruncate` (line 773). With `DroppedErrors` the truncation may fail:
  the file keeps the suffix, the struct and the caller take it to be gone,
  and `RR_OK` is returned.
* **`logImplAppend`** is three actions: the normal one, the one that returns
  -1 (`logImplAppendFails`), and the one where the assertion of
  `EntryCacheAppend` (line 51) fails after the entry is written and the
  process stops (`logImplAppendAborts`).
* **Crashes.** `Crash` stops the process between two calls, which leaves the
  file as `disk`, or the machine, which leaves it as `stable`; `stable`
  moves at a sync only, so what a process left unsynced can still be lost
  after it has stopped. `CrashInAppend` stops it inside
  `RaftLogWriteEntry`, leaving a torn record (enabled by `TornWrites`).
  `CrashAfterTruncate` stops it between the `ftruncate` and the
  `writeLogHeader` of `RaftLogReset` or `RaftLogCreate`. In `Framing`,
  `TornWrite` and `TornHeaderWrite` stop it with the first k bytes of a
  record, or of a rewritten header, in the file. For the header only the
  cuts behind a byte that changes are taken (`Cuts`): a cut anywhere else
  leaves the same file as one of them.
* **`logImplFree`** is the shutdown of the log in this process. The code
  leaves `rr->logcache` pointing at the freed cache (line 837), and
  `logImplInit` allocates only when it is NULL; the model takes the next
  `logImplInit` to be that of a new process.
* **History variables.** `acked` is the sequence of entries whose append
  returned `RR_OK` and that no delete or reset removed; `synced` is how many
  of them, from the first, a successful `fsync` has covered; `delivered` is
  what the last call passed to its callback; `polled` is the argument of the
  last `logImplPoll`; in `Framing`, `header` and `writes` are what was
  written and `rewriting` the header whose rewrite was cut short.
  No action reads them.
* **Caller contracts** are conjuncts of `Next`, not of the actions: the library
  pops from an index up to the log's that it has not polled away, polls
  forward, and raises the term. The actions carry only the conditions the code tests.

## 3. Runs

Passing runs:

| Run | Config | Faults | Checks | Distinct states |
|---|---|---|---|---|
| `cache` | `MCEntryCache.cfg` | | `TypeOK`, `HeldIsWindow`, `ImplementsWindow` (refinement of `CacheWindow`) | 2 446 |
| `raftlog` | `MCRaftLog.cfg` | crashes, torn appends, a truncation that fails unseen | `TypeOK`, `ReadsMatchAppended`, `HeaderDurable`, `LoadEnds` (liveness) | 360 959 |
| `raftlog_recovery` | `MCRaftLogRecovery.cfg` | crashes, failing calls | `ReadsMatchAppended`, `RecoveryKeepsAcked` | 1 355 645 |
| `logimpl` | `MCLogImpl.cfg` | crashes, torn appends | `TypeOK`, `BatchesMatchAppended`, `HeldIsCached`, `PopNotifiesRemoved` | 296 070 |
| `logimpl_errors` | `MCLogImplErrors.cfg` | crashes, torn appends, failing calls | `BatchesMatchAppended`, `HeldIsCached` | 1 612 183 |
| `codec` | `MCFraming.cfg` | a record, or a rewrite of the header, cut at every byte | `TypeOK`, `LoadReturnsWritten`, `GetReturnsWritten`, `TornRewriteKeepsLog` | 38 561 |

* `ImplementsWindow`: the ring, through wrapping and doubling, is a plain
  sequence of consecutive entries under the same calls.
* `HeldIsWindow`, `HeldIsCached`: one reference per cached entry, across
  eviction, reset (also one whose `RaftLogReset` failed), shutdown and restart.
* `ReadsMatchAppended`: each index of the log reads back, through the index
  file, as the entry appended at it, after any sequence of appends, deletes,
  resets, crashes, failed calls and reloads. It also holds when the
  truncation of `RaftLogDelete` fails: the offset of the next append is taken
  from the end of the file (`ftell`), not from the struct, so the slot of the
  new entry points behind the suffix that stayed.
* `LoadEnds`: a load that has begun ends, as ready or as failed, whatever
  file a crash has left, under weak fairness of the loop (section 5).
* `HeaderDurable`: the term and vote of an open log are on stable storage. It
  is checked without failing calls: a sync that fails leaves a header a
  reopening process reads from the file and a power failure takes back.
* `RecoveryKeepsAcked`: a load after a restart returns the entries that were
  acknowledged and synced (`SubSeq(acked, 1, synced)`) as a prefix of what it
  loads, whichever call failed before the restart and whether the process
  or the machine stopped. It is checked at the step at which the load
  returns. It holds when no append is cut short and no truncation fails
  unseen. It allows more than was acknowledged: a suffix `RaftLogDelete` cut
  and did not sync is loaded again after a power failure.
* `PopNotifiesRemoved`: `logImplPop` calls back for entries it removes only,
  in their order and with their indices, and for each of them unless the
  file holds a record cut short. `spec.md` says more (section 6: "once per
  discarded suffix entry"), which the code does not keep: see the
  observations below.
* `BatchesMatchAppended`: through the facade, every run of entries reads back
  as appended, whether the cache or the file answers, also after a reset
  whose error was dropped.
* `LoadReturnsWritten`: byte for byte, `RaftLogLoadEntries` returns the header
  as `updateLogHeader` last rewrote it in place (which needs every header to
  have the same length) and every entry written, whatever its data look like,
  and stops without an error at a last record cut short after any of its
  bytes.
* `GetReturnsWritten`: byte for byte, `RaftLogGet` finds each entry at the
  offset `RaftLogWriteEntry` kept for it (`ftell` less what the writes
  returned), also behind a record cut short, which the load does not get
  past, and after the header was rewritten, wholly or in part.
* `TornRewriteKeepsLog`: a rewrite of the header cut short after any byte
  leaves a log that opens and loads every entry, with a header that is the
  new one up to the field the cut fell in and the old one behind it. This is
  what the fixed widths of the header buy; `spec.md` asks for more, a header
  that is replaced atomically (see the observations below).

Runs that end in a counterexample, each a statement of `spec.md` the code does
not keep (details under `findings` in `PROJECT.json`):

| Run | Property | Shortest trace |
|---|---|---|
| `raftlog_out_of_range` | `OutOfRangeGetIsNull` | Create, Append, Reset, Append x3, Delete, Append x2: `num_entries`, never reset, lets `seekEntry` accept an index above `index`, and the slot is one `RaftLogDelete` left |
| `raftlog_header` | `HeaderAlwaysValid` | Create, crash after the `ftruncate` of a reset: no header |
| `raftlog_failed_append` | `ReadsMatchAppended`, caller goes on after an error | Create, an append whose `updateIndex` fails: `index` is 1, `num_entries` 0, and no entry is acknowledged |
| `logimpl_cache_end` | `CacheEndsAtIndex` | Append, restart, Load, Init, Append, Pop of the older index: the cache keeps the newer entry |
| `logimpl_reset_error` | `RecoveryKeepsAcked` | Create, Append e1, a reset whose truncation fails, Append e2, restart, Load: the load returns e1 and e2 under the old header |
| `codec_phantom` | `LoadsOnlyWritten` | Create, a record cut after `$4\r` of its data, a whole record appended: the load reads `$5\r\n`, the start of the second record, as the data of the first, and stops inside the second |

Every property of a passing run has a mutant in `PROJECT.json`: a changed form
of one mapped definition (a write that is never synced, an offset taken after
the write, a callback with the index already advanced, a doubling that leaves the wrapped head in place, a `start` that
does not wrap, a header field that is not padded, a loop that goes on after a
read that failed, ...) under which TLC finds the property violated.

Five observations have no run of their own.

* `RaftLogDelete` leaves its loop at the first read that fails (line 753)
  and removes `index - from_idx + 1` entries whatever it read (line 774).
  With the file `e1`, a record cut short, `e2` (an append cut short by a
  crash, a restart, an append), `RaftLogDelete(1)` calls back for `e1` and
  removes both entries. `spec.md` has the callback made once for each entry
  discarded.

* `RaftLogCreate` sets `term` to 1 whatever the snapshot term (line 413) and
  `RaftLogReset` keeps a term below the snapshot's (line 551), where `spec.md`
  asks that `term >= snapshot_last_term`. In the other direction
  `RaftLogReset` takes a term above the snapshot's down to it and clears the
  vote, in the struct and in the header: a node that installs a snapshot of an
  earlier term than its own has then forgotten that it voted in the terms in
  between, unless the library sets the term again after the call.
* `logImplPoll` evicts from the cache only (line 866), so an entry polled
  away is still returned by `logImplGet` from the file.
* A rewrite of the header that is cut short can leave a header nobody wrote
  (`TornHeaderWrite` in `Framing`): the new term with the vote of the old
  one, when the cut falls between the two fields, and a number mixed from the
  digits of two, when it falls inside a field (term `01` rewritten to `12`
  reads as `11`). The code has no checksum and no second copy to tell.
* When the truncation of `RaftLogDelete` fails (`DroppedErrors`), the next
  `RaftLogDelete` reads the stale records as well and calls back for indices
  above `index`, and a restart loads the stale suffix in front of the entries
  appended after it: `PopNotifiesRemoved` and `RecoveryKeepsAcked` do not
  hold then. The passing run with `DroppedErrors` checks what does hold.

Whether the first two matter depends on the library, which is not under
`src/`.

## 4. Bounds

| Constant | Value | Why it is enough |
|---|---|---|
| `Entries` | `{e1, e2}` | two entries tell apart "the entry of this index" from "an entry" |
| `EntrySize` | `e1 -> 1, e2 -> 2` | unequal sizes make the offset of index k depend on what was appended, so that a stale slot points between or at other records |
| `InitSize` | 2 | with `MaxIndex = 4` (cache: `MaxIdx = 6`) the ring fills, wraps after a poll, and doubles with a wrapped head |
| `MaxIndex` | 4; 3 in `raftlog` and `raftlog_recovery`, 2 in the facade with failing calls | a reset to a snapshot, appends, a delete and further appends fit; with failing calls, an append that succeeds, one that fails and a reload |
| `MaxSnapshot` | 2 (facade and failing calls: 1) | a log that starts at 0 and one that starts above 0 |
| `MaxRecords` | 4; 3 and 2 with failing calls | the file holds a torn record and entries on both sides of it; in `raftlog` (`MaxIndex = 3`), two entries, a suffix a failed truncation left, and the entry appended behind it |
| `MaxCount` | `MaxRecords` or one more | bound on `num_entries`, which the code never resets |
| `MaxTerm` | 1 (2 in `raftlog_header` and `raftlog_out_of_range`) | terms 0 and 1: a reset to a snapshot of an earlier term than the log's, and a term raised to the initial term 1 |
| `Nodes` | `{1}`; `{}` in `logimpl_errors` | one candidate and "no vote"; with failing calls through the facade the vote is always "no vote", which keeps the headers of `disk` and `stable` few: the checks of that run are about entries |
| `RoomToAppend`, `RoomToLoad` | guards | keep `index` within `MaxIndex` when entries are appended or loaded |

`Framing`: three entries (no data; one byte; the four bytes `$1\r\n`, which
look like a length line), eight headers whose fields differ in their number of
digits and in the sign of the vote, a dbid of two bytes, `MaxRecords = 3`
records after the header, and `MaxTorn = 1` write cut short: a record, at any
byte and at any place among the others, or a rewrite of the header, at any
byte. Two of the terms (1 and 12) differ in two digits, so that a cut between
them mixes them. The widths of the header fields are those of
the code (4, 20, 20, 20, 11).

Failing calls multiply the states, so the runs with `IOErrors` have the
smaller bounds; a truncation that fails unseen multiplies them again, so it is
enabled in `raftlog` only, without `IOErrors`. No symmetry set is declared: `EntrySize` distinguishes the two
entries.

## 5. Fairness and liveness

`RaftLog`: `Spec == Init /\ [][Next]_logVars /\ WF_logVars(RaftLogLoadTurn)`.
The loop of `RaftLogLoadEntries` is code of one thread with no call that
blocks: once the load has begun, the next turn is taken unless the machine
stops, which is the step `Crash`. Weak fairness of the turn says no more than
that. Under it `LoadEnds` (`phase = "loading" ~> phase # "loading"`) holds:
each turn either reads one more record of a finite file or leaves the loop.

No other action is fair. Every other operation returns in the call that
started it, and whether the caller makes another call is the caller's choice:
nothing else must eventually happen. `LogImpl` and `EntryCache` have no
fairness and only invariants and action properties. `Framing` keeps the load
as one step: evaluating `ENABLED` of a step that parses bytes is beyond what
TLC does in reasonable time, and the termination of its readers is by
recursion on a shorter file.

## 6. Assumptions

* In `RaftLog` and `LogImpl` the in-place rewrite of the header
  (`updateLogHeader`) is atomic with respect to a crash; `Framing` has the
  rewrite that is cut short.
* Appends to the file reach stable storage in order; a crash leaves at most
  one torn record, at the end of what was being written. The bytes of a
  header rewrite reach the file in order too: what a cut leaves is a prefix
  of the new header over the old one.
* A machine that stops inside an append leaves the file as the process saw
  it, with the torn record (`CrashInAppend`): a truncation that was not
  synced is taken to have reached the file.
* `ftell` after a write on the append-mode stream gives the end of the file
  (the C library's behaviour the code relies on at line 665).
* A flush that fails has written nothing; a failed call changes nothing but
  what the code had changed before it.
* Assertions are enabled.
* `NoFsync = FALSE` (the `no_fsync` flag is off; nothing under `src/` sets it).
* The results dropped at lines 420 and 605 are successes. (Line 421 cannot
  matter: `prepareLog` has opened the index file with `w+`, which empties it.)
* A file that cannot be opened (`prepareLog`, lines 334 and 344) changes no
  state: it is a stuttering step. The `PANIC` of `updateLogHeader` (lines 386
  and 396) leaves the files as `RaftLogClose` or `Crash` leave them.
* No line of the file is longer than the 127 bytes `fgets` reads at once, and
  no length is written with white space or a sign in front.

## 7. Not modelled, and the plan

In this order:

1. **A header rewrite cut short, in `RaftLog`**: `Framing` shows what the
   bytes are then; what a node does with the new term and the old vote needs
   a history of the votes given per term in `RaftLog`, and a run.
2. **The other dropped results**: a failed `ftruncate` in `RaftLogCreate`
   (line 420) leaves the old file with the new header appended to it as a
   record, which `HeaderDurable` does not survive; a failed `updateIndex` in
   the load (line 605) leaves a slot unwritten, which `ReadsMatchAppended`
   does not survive. Each is a run that ends in a counterexample.
3. **Torn records in `RaftLog` by where they were cut**: `Framing` shows three
   kinds (the load stops, the load fails, the load reads an entry nobody
   wrote); `RaftLog` has the first two.
4. **`AbstractLog`**: the log as a sequence of entries above a snapshot index,
   with `RaftLog` and `LogImpl` shown to implement it by a refinement mapping
   wherever the findings above do not stand in the way.
5. **`NoFsync = TRUE`**: the same properties with the sync left out, to record
   which of them depend on it.
6. `RaftLogWriteEntry` as a call of its own (entries written without being
   counted, then one `RaftLogSync`): the table never makes it.
7. **The table after `logImplFree`**: a second `logImplInit` in the same
   process works on freed memory, which is no state of a model; it is listed
   as a hazard.

Outside the models: the consensus library and the server (not in `src/`), the
entries' payloads beyond their bytes in `Framing`, tracing and logging.
