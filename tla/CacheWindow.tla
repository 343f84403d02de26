----------------------------- MODULE CacheWindow -----------------------------
(***************************************************************************)
(* What the entry cache of src/log.c promises, without the ring: the cache *)
(* is a window onto the log, a run of entries with consecutive indices.    *)
(* `items' is the run and `first' the log index of items[1]; an empty      *)
(* window has first = 0 and takes the index of the next entry appended.    *)
(*                                                                         *)
(* EntryCache.tla implements this specification: its ring, read from       *)
(* `start' for `len' slots modulo `size', is `items'.                      *)
(***************************************************************************)
EXTENDS Integers, Sequences

CONSTANTS
    Entries,    \* the entries a caller may append
    MaxIdx      \* bound: the largest log index a caller names

VARIABLES
    first,      \* log index of items[1], 0 when the window is empty
    items       \* the cached entries, oldest first

vars == <<first, items>>

TypeOK ==
    /\ first \in 0..MaxIdx
    /\ items \in Seq(Entries)
    /\ (items = <<>>) <=> (first = 0)

Init ==
    /\ first = 0
    /\ items = <<>>

\* The index after the last cached one.
End == first + Len(items)

\* A window that lost every entry forgets where it was.
Anchor(idx, run) == IF run = <<>> THEN 0 ELSE idx

\* An entry is added at idx, which continues the window or starts it.
Add(e, idx) ==
    /\ items # <<>> => End = idx
    /\ items' = items \o <<e>>
    /\ first' = IF items = <<>> THEN idx ELSE first

\* Every entry below idx leaves the window.
DropHead(idx) ==
    /\ idx >= first
    /\ LET n == IF idx - first < Len(items) THEN idx - first ELSE Len(items)
       IN  /\ items' = SubSeq(items, n + 1, Len(items))
           /\ first' = Anchor(first + n, items')

\* Every entry at idx or above leaves the window.
DropTail(idx) ==
    /\ idx \in first..(End - 1)
    /\ items' = SubSeq(items, 1, idx - first)
    /\ first' = Anchor(first, items')

\* The window is emptied.
Clear ==
    /\ items' = <<>>
    /\ first' = 0

Next ==
    \/ \E e \in Entries, idx \in 1..MaxIdx : Add(e, idx)
    \/ \E idx \in 0..(MaxIdx + 1) : DropHead(idx) \/ DropTail(idx)
    \/ Clear

Spec == Init /\ [][Next]_vars

\* What a lookup of idx finds: the entry cached for it, if any.
Lookup(idx, none) ==
    IF idx \in first..(End - 1) /\ items # <<>> THEN items[idx - first + 1] ELSE none

=============================================================================
