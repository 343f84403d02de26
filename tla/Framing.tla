------------------------------- MODULE Framing -------------------------------
(***************************************************************************)
(* The bytes of the log file of src/log.c: what writeBegin, writeBuffer,   *)
(* writeUnsignedInteger and writeInteger put into the file for a header    *)
(* and for an entry (lines 154-230, 359-374, 634-672), and what            *)
(* readEncodedLength, readRawLogEntry, parseRaftLogEntry, handleHeader and *)
(* the loop of RaftLogLoadEntries make of the bytes they find (lines       *)
(* 243-317, 433-514, 566-632).                                             *)
(*                                                                         *)
(* A byte is a string of one character.  `file' is the log file; `header', *)
(* `rewriting' and `writes' are history: the header last written, the one  *)
(* whose rewrite a crash cut short, and each entry whose record was        *)
(* written, wholly or in part, with the offset RaftLogWriteEntry gave      *)
(* updateIndex.  A position is one more than the offset ftell gives.       *)
(*                                                                         *)
(* Left out: the 127 bytes fgets stops at, the white space and the sign    *)
(* strtoul accepts in front of a length (no writer produces them), and     *)
(* the case strcasecmp ignores.                                            *)
(***************************************************************************)
EXTENDS Integers, Sequences, SequencesExt

CONSTANTS
    Entries,        \* the entries written: [term, id, type, data]
    Headers,        \* the headers written: [snapshot_last_term,
                    \* snapshot_last_idx, term, vote]
    Dbid,           \* log->dbid, a sequence of bytes
    NULL,           \* the null pointer
    MaxRecords,     \* bound: the records written after the header
    MaxTorn         \* bound: the writes a crash cut short

VARIABLES
    file,       \* the bytes of the log file
    header,     \* history: the header last written, NULL before the first
    rewriting,  \* history: the header whose rewrite was cut short, NULL
                \* when the header in the file is whole
    writes      \* history: [entry, whole, offset] of each record written:
                \* whether all of it was, and the offset kept for it

vars == <<file, header, rewriting, writes>>

CR == "\r"
LF == "\n"
Digit == <<"0", "1", "2", "3", "4", "5", "6", "7", "8", "9">>

RAFTLOG == <<"R", "A", "F", "T", "L", "O", "G">>
ENTRY   == <<"E", "N", "T", "R", "Y">>
RAFTLOG_VERSION == 1

-----------------------------------------------------------------------------
(* Writing.                                                                *)

RECURSIVE Decimal(_)
\* The digits of n, as %lu prints them.
Decimal(n) ==
    IF n < 10 THEN <<Digit[n + 1]>>
    ELSE Decimal(n \div 10) \o <<Digit[(n % 10) + 1]>>

\* Mutant of Formatted: the field is not padded.
FormattedUnpadded(value, pad) ==
    (IF value < 0 THEN <<"-">> ELSE <<>>) \o Decimal(IF value < 0 THEN -value ELSE value)

\* snprintf of "%0*lu" or "%0*ld": the sign, then zeroes up to `pad'
\* characters in all, then the digits.
Formatted(value, pad) ==
    LET sign   == IF value < 0 THEN <<"-">> ELSE <<>>
        digits == Decimal(IF value < 0 THEN -value ELSE value)
    IN  sign \o [k \in 1..(pad - Len(sign) - Len(digits)) |-> "0"] \o digits

writeBegin(length) == <<"*">> \o Decimal(length) \o <<CR, LF>>

writeBuffer(buf) == <<"$">> \o Decimal(Len(buf)) \o <<CR, LF>> \o buf \o <<CR, LF>>

writeUnsignedInteger(value, pad) == writeBuffer(Formatted(value, pad))

writeInteger(value, pad) == writeBuffer(Formatted(value, pad))

\* Mutant of writeLogHeader: the vote is written in front of the term.
writeLogHeaderVoteFirst(h) ==
    writeBegin(7) \o writeBuffer(RAFTLOG)
        \o writeUnsignedInteger(RAFTLOG_VERSION, 4) \o writeBuffer(Dbid)
        \o writeInteger(h.vote, 11)
        \o writeUnsignedInteger(h.snapshot_last_term, 20)
        \o writeUnsignedInteger(h.snapshot_last_idx, 20)
        \o writeUnsignedInteger(h.term, 20)

\* The header record: seven elements, the numbers in fixed widths.
writeLogHeader(h) ==
    writeBegin(7) \o writeBuffer(RAFTLOG)
        \o writeUnsignedInteger(RAFTLOG_VERSION, 4) \o writeBuffer(Dbid)
        \o writeUnsignedInteger(h.snapshot_last_term, 20)
        \o writeUnsignedInteger(h.snapshot_last_idx, 20)
        \o writeUnsignedInteger(h.term, 20)
        \o writeInteger(h.vote, 11)

\* The record of an entry: five elements.
EntryRecord(e) ==
    writeBegin(5) \o writeBuffer(ENTRY)
        \o writeUnsignedInteger(e.term, 0) \o writeUnsignedInteger(e.id, 0)
        \o writeUnsignedInteger(e.type, 0) \o writeBuffer(e.data)

-----------------------------------------------------------------------------
(* Reading.  A read returns [ok |-> FALSE] where the code returns -1.  A   *)
(* value the code keeps in a local variable is the parameter of the        *)
(* operator that stands for the lines after the assignment.                *)

Failed == [ok |-> FALSE]

\* fgets: the bytes from pos through the next LF, or to the end of the
\* file; none at the end of the file.
Line(bytes, pos) ==
    LET rest == SubSeq(bytes, pos, Len(bytes))
        lf   == SelectInSeq(rest, LAMBDA b : b = LF)
    IN  IF lf = 0 THEN rest ELSE SubSeq(rest, 1, lf)

\* How many digits s starts with.
LeadingDigits(s) ==
    LET stop == SelectInSeq(s, LAMBDA b : b \notin Range(Digit))
    IN  IF stop = 0 THEN Len(s) ELSE stop - 1

\* The number and what follows it, when s starts with n digits.
Scanned(s, n) ==
    [value |-> FoldLeft(LAMBDA v, d : 10 * v + (CHOOSE k \in 0..9 : Digit[k + 1] = d),
                        0, SubSeq(s, 1, n)),
     rest  |-> SubSeq(s, n + 1, Len(s))]

\* strtoul: the value of the digits s starts with and `rest', what *eptr
\* points at; with no digit the value is 0 and the rest is s.
strtoul(s) == Scanned(s, LeadingDigits(s))

\* strtol, which reads the vote: strtoul after a minus sign.
strtol(s) ==
    IF s # <<>> /\ s[1] = "-" /\ LeadingDigits(Tail(s)) > 0
    THEN [value |-> -strtoul(Tail(s)).value, rest |-> strtoul(Tail(s)).rest]
    ELSE strtoul(s)

\* The length a line gives: none at the end of the file, for a line that
\* does not start with `type', and for a number CR or LF does not follow.
LengthOn(line, n, type) ==
    IF line # <<>> /\ line[1] = type /\ n.rest # <<>> /\ n.rest[1] \in {CR, LF}
    THEN [ok |-> TRUE, length |-> n.value, after |-> Len(line)]
    ELSE Failed

\* The length on the line at pos, and how long the line is.
readEncodedLength(bytes, pos, type) ==
    LengthOn(Line(bytes, pos), strtoul(Tail(Line(bytes, pos))), type)

RECURSIVE readElements(_, _, _, _)
\* The element at pos, whose length line is len, and the elements after
\* it: len.length bytes and two more, which are not looked at.
Element(bytes, pos, n, re, len) ==
    IF len.ok /\ pos + len.after + len.length + 1 <= Len(bytes)
    THEN readElements(bytes, pos + len.after + len.length + 2, n - 1,
                      Append(re, SubSeq(bytes, pos + len.after,
                                        pos + len.after + len.length - 1)))
    ELSE Failed

\* The for loop of readRawLogEntry: n more elements from pos, after re.
readElements(bytes, pos, n, re) ==
    IF n = 0 THEN [ok |-> TRUE, elements |-> re, next |-> pos]
    ELSE Element(bytes, pos, n, re, readEncodedLength(bytes, pos, "$"))

\* The record whose count line is `count'.
Record(bytes, pos, count) ==
    IF count.ok THEN readElements(bytes, pos + count.after, count.length, <<>>)
    ELSE Failed

readRawLogEntry(bytes, pos) == Record(bytes, pos, readEncodedLength(bytes, pos, "*"))

\* The entry of a record of five elements whose second to fourth are
\* numbers to their end, NULL for any other.
parseRaftLogEntry(re) ==
    IF Len(re) = 5 /\ \A k \in 2..4 : strtoul(re[k]).rest = <<>>
    THEN [term |-> strtoul(re[2]).value, id |-> strtoul(re[3]).value,
          type |-> strtoul(re[4]).value, data |-> re[5]]
    ELSE NULL

\* The header of a record of seven elements that starts with RAFTLOG and
\* the version and whose numbers are numbers to their end, NULL for any
\* other.
handleHeader(re) ==
    IF /\ Len(re) = 7
       /\ re[1] = RAFTLOG
       /\ strtoul(re[2]) = [value |-> RAFTLOG_VERSION, rest |-> <<>>]
       /\ Len(re[3]) <= Len(Dbid)
       /\ \A k \in 4..6 : strtoul(re[k]).rest = <<>>
       /\ strtol(re[7]).rest = <<>>
    THEN [snapshot_last_term |-> strtoul(re[4]).value,
          snapshot_last_idx  |-> strtoul(re[5]).value,
          term               |-> strtoul(re[6]).value,
          vote               |-> strtol(re[7]).value]
    ELSE NULL

RECURSIVE readEntries(_, _, _)
\* One turn of the loop of RaftLogLoadEntries, for the record re: the
\* loop ends at a record that cannot be read or has no element, and ends
\* with an error at one that is no entry.
Turn(bytes, entries, re) ==
    IF ~re.ok \/ re.elements = <<>>
    THEN [entries |-> entries, error |-> FALSE]
    ELSE IF re.elements[1] # ENTRY \/ parseRaftLogEntry(re.elements) = NULL
    THEN [entries |-> entries, error |-> TRUE]
    ELSE readEntries(bytes, re.next, Append(entries, parseRaftLogEntry(re.elements)))

\* The loop from pos, after `entries' were handed to the callback.
readEntries(bytes, pos, entries) == Turn(bytes, entries, readRawLogEntry(bytes, pos))

\* The load of a file whose first record is re.
Loaded(bytes, re) ==
    IF re.ok /\ handleHeader(re.elements) # NULL
    THEN [header |-> handleHeader(re.elements)] @@ readEntries(bytes, re.next, <<>>)
    ELSE NULL

\* What RaftLogLoadEntries makes of the file: NULL when the header cannot
\* be read, else the header, the entries handed to the callback, and
\* whether -1 is returned.
RaftLogLoadEntries(bytes) == Loaded(bytes, readRawLogEntry(bytes, 1))

\* The entry of the record re, NULL when it could not be read.
Got(re) == IF re.ok THEN parseRaftLogEntry(re.elements) ELSE NULL

\* What RaftLogGet returns for an index whose slot holds `offset'.
RaftLogGet(bytes, offset) ==
    IF offset <= 0 THEN NULL ELSE Got(readRawLogEntry(bytes, offset + 1))

-----------------------------------------------------------------------------
(* The file under the calls that write it.                                 *)

\* Mutant of EntryOffset: the offset is taken where the record ends.
EntryOffsetAfter(bytes, written) == Len(bytes)

\* ftell(file) - written: where the record just written starts.
EntryOffset(bytes, written) == Len(bytes) - written

\* Mutant of Overwritten: the header is written through the handle the
\* entries are appended through.
OverwrittenAtEnd(bytes, new) == bytes \o new

\* The file after `new' is written from its first byte on.
Overwritten(bytes, new) ==
    [k \in 1..Max({Len(bytes), Len(new)}) |-> IF k <= Len(new) THEN new[k] ELSE bytes[k]]

\* A new log is at term 1 and has voted for nobody.
RaftLogCreate(h) ==
    /\ h.term = 1 /\ h.vote = -1
    /\ file' = writeLogHeader(h)
    /\ header' = h
    /\ rewriting' = NULL
    /\ writes' = <<>>

updateLogHeader(h) ==
    /\ header # NULL
    /\ file' = Overwritten(file, writeLogHeader(h))
    /\ header' = h
    /\ rewriting' = NULL
    /\ UNCHANGED writes

\* How many writes a crash has cut short.
Torn == Len(SelectSeq(writes, LAMBDA w : ~w.whole)) + (IF rewriting = NULL THEN 0 ELSE 1)

\* Where a rewrite of the header by `new' can be cut short with an effect
\* of its own: behind a byte that changes, with a byte that changes still
\* to come.  A cut anywhere else leaves the file one of these cuts leaves,
\* the file as it was, or the whole new header.
Cuts(bytes, new) ==
    LET changes == {k \in DOMAIN new \cap DOMAIN bytes : bytes[k] # new[k]}
    IN  {k \in changes : \E later \in changes : later > k}

\* The machine stops in updateLogHeader: the first k bytes of the new
\* header are in the file, in front of the rest of the old one.
TornHeaderWrite(h, k) ==
    /\ header # NULL /\ rewriting = NULL
    /\ Torn < MaxTorn
    /\ file' = Overwritten(file, SubSeq(writeLogHeader(h), 1, k))
    /\ rewriting' = h
    /\ UNCHANGED <<header, writes>>

RaftLogWriteEntry(e) ==
    /\ header # NULL
    /\ Len(writes) < MaxRecords
    /\ file' = file \o EntryRecord(e)
    /\ writes' = Append(writes, [entry |-> e, whole |-> TRUE,
                                 offset |-> EntryOffset(file', Len(EntryRecord(e)))])
    /\ UNCHANGED <<header, rewriting>>

\* The machine stops in RaftLogWriteEntry: the first k bytes of the record
\* are in the file, and no offset was kept.
TornWrite(e, k) ==
    /\ header # NULL
    /\ Len(writes) < MaxRecords
    /\ Torn < MaxTorn
    /\ file' = file \o SubSeq(EntryRecord(e), 1, k)
    /\ writes' = Append(writes, [entry |-> e, whole |-> FALSE, offset |-> 0])
    /\ UNCHANGED <<header, rewriting>>

Init ==
    /\ file = <<>>
    /\ header = NULL
    /\ rewriting = NULL
    /\ writes = <<>>

Next ==
    \/ \E h \in Headers : RaftLogCreate(h)
    \/ \E h \in Headers : updateLogHeader(h)
    \/ \E h \in Headers : \E k \in Cuts(file, writeLogHeader(h)) : TornHeaderWrite(h, k)
    \/ \E e \in Entries : RaftLogWriteEntry(e)
    \/ \E e \in Entries : \E k \in 1..(Len(EntryRecord(e)) - 1) : TornWrite(e, k)

Spec == Init /\ [][Next]_vars

-----------------------------------------------------------------------------
(* Properties.                                                             *)

Bytes == Range(Digit) \cup {"*", "$", "-", CR, LF} \cup Range(RAFTLOG) \cup Range(ENTRY)
            \cup Range(Dbid) \cup UNION {Range(e.data) : e \in Entries}

MaxBytes ==
    Max({Len(writeLogHeader(h)) : h \in Headers})
        + MaxRecords * Max({Len(EntryRecord(e)) : e \in Entries})

TypeOK ==
    /\ file \in Seq(Bytes) /\ Len(file) <= MaxBytes
    /\ {header, rewriting} \subseteq Headers \cup {NULL}
    /\ writes \in Seq([entry : Entries, whole : BOOLEAN, offset : 0..MaxBytes])
    /\ Len(writes) <= MaxRecords

\* The entries whose record is whole, and whether the only record cut
\* short, if any, is the last one of the file.
Whole == [k \in 1..Len(SelectSeq(writes, LAMBDA w : w.whole)) |->
            SelectSeq(writes, LAMBDA w : w.whole)[k].entry]
TornIsLast == \A k \in 1..(Len(writes) - 1) : writes[k].whole

\* What is written is what is read: RaftLogLoadEntries returns the header
\* as updateLogHeader last rewrote it in place and every entry
\* RaftLogWriteEntry wrote, whatever bytes their data hold, and stops
\* without an error at a last record cut short after any of its bytes.
LoadReturnsWritten ==
    (header # NULL /\ rewriting = NULL /\ TornIsLast) =>
        RaftLogLoadEntries(file) = [header |-> header, entries |-> Whole, error |-> FALSE]

\* An entry is read where its record was written: RaftLogGet, at the
\* offset RaftLogWriteEntry computed from what its writes returned, finds
\* the entry, whatever was written before and after it, a record cut short
\* and a header rewritten by updateLogHeader included.
GetReturnsWritten ==
    \A k \in 1..Len(writes) :
        writes[k].whole => RaftLogGet(file, writes[k].offset) = writes[k].entry

\* The fields of the header in the order writeLogHeader writes them.
HeaderFields == <<"snapshot_last_term", "snapshot_last_idx", "term", "vote">>

\* A load l of a file whose header was being rewritten from `old' to
\* `new': no error, every entry, and a header that is new up to one field
\* and old behind it.
CutShort(l, old, new) ==
    /\ l # NULL
    /\ l.entries = Whole /\ ~l.error
    /\ \E cut \in DOMAIN HeaderFields : \A f \in DOMAIN HeaderFields :
          /\ f < cut => l.header[HeaderFields[f]] = new[HeaderFields[f]]
          /\ f > cut => l.header[HeaderFields[f]] = old[HeaderFields[f]]

\* A rewrite of the header that a crash cuts short, after any of its
\* bytes, costs no entry and leaves a log that opens: updateLogHeader
\* writes over a header of the same length, so the bytes of the old one
\* that are left complete the new one.  The header read is the new one up
\* to the field the cut fell in and the old one from there on: the term is
\* written in front of the vote, so a new vote is never read with the term
\* of the old one.
TornRewriteKeepsLog ==
    rewriting # NULL => CutShort(RaftLogLoadEntries(file), header, rewriting)

\* A record cut short is met as a read that fails, where the load stops
\* as at the end of the file: RaftLogLoadEntries hands the callback no
\* entry that was not given to RaftLogWriteEntry, also when records were
\* appended after the one cut short.
LoadsOnlyWritten ==
    header # NULL =>
        /\ RaftLogLoadEntries(file) # NULL
        /\ Range(RaftLogLoadEntries(file).entries) \subseteq {w.entry : w \in Range(writes)}

=============================================================================
