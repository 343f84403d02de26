------------------------------ MODULE EntryCache ------------------------------
(***************************************************************************)
(* The entry cache of src/log.c (lines 19-141): a ring of entry pointers   *)
(* that holds the most recent log entries, so that the consensus library   *)
(* re-reads the tail of the log without touching the file.                 *)
(*                                                                         *)
(* `cache' is the EntryCache struct.  Slot k of its window of `len'        *)
(* entries is ptrs[(start + k) % size] and holds log index start_idx + k.  *)
(* The ring doubles when full.  start_idx = 0 doubles as "empty, take the  *)
(* index of the next append".                                              *)
(*                                                                         *)
(* `held' counts the references the cache owns: raft_entry_hold at an      *)
(* append, raft_entry_release at an eviction.  The entries' reference      *)
(* counts live in the consensus library; the bag is the cache's share.     *)
(*                                                                         *)
(* Abstractions.  An entry pointer is a member of Entries.  The half of a  *)
(* grown ring that realloc leaves uninitialised is NULL here: the code     *)
(* reads slots of the window only.                                         *)
(***************************************************************************)
EXTENDS Integers, Sequences, Bags, SequencesExt

CONSTANTS
    Entries,    \* the entries (raft_entry_t *) a caller may hand over
    NULL,       \* the null pointer
    InitSize,   \* ENTRY_CACHE_INIT_SIZE
    MaxIdx      \* bound: the largest log index a caller names

ASSUME
    /\ NULL \notin Entries
    /\ InitSize \in Nat \ {0}
    /\ MaxIdx \in Nat \ {0}

VARIABLES
    cache,      \* the EntryCache struct
    held        \* bag of the references the cache holds

cacheVars == <<cache, held>>

-----------------------------------------------------------------------------
(* Helpers on the struct.                                                  *)

\* A zeroed cache of the given capacity.
EntryCacheNew(initial_size) ==
    [ size      |-> initial_size,
      ptrs      |-> [s \in 0..(initial_size - 1) |-> NULL],
      start     |-> 0,
      len       |-> 0,
      start_idx |-> 0 ]

\* The ring slot of the window's relidx-th entry.
SlotOf(c, relidx) == (c.start + relidx) % c.size

\* The pointers in `n' window slots from the from-th on, in window order.
Run(c, from, n) == [k \in 1..n |-> c.ptrs[SlotOf(c, from + k - 1)]]

\* The cache with the slots of that run cleared.
Cleared(c, from, n) ==
    LET gone == {SlotOf(c, from + k) : k \in 0..(n - 1)}
    IN  [c EXCEPT !.ptrs = [s \in DOMAIN @ |-> IF s \in gone THEN NULL ELSE @[s]]]

\* Mutant of Unanchored: an emptied cache keeps its start_idx.
UnanchoredNever(c) == c

\* An emptied cache forgets its index.
Unanchored(c) == IF c.len = 0 THEN [c EXCEPT !.start_idx = 0] ELSE c

\* An empty cache takes the index of the entry that arrives.
Anchored(c, idx) == IF c.start_idx = 0 THEN [c EXCEPT !.start_idx = idx] ELSE c

\* The assertion of EntryCacheAppend: idx continues the window.
AppendAsserts(c, idx) == Anchored(c, idx).start_idx + Anchored(c, idx).len = idx

\* Mutant of Enlarged: the wrapped head stays where it was.
EnlargedInPlace(c) ==
    IF c.len = c.size
    THEN [c EXCEPT !.size = 2 * c.size,
                   !.ptrs = [s \in 0..(2 * c.size - 1) |->
                                IF s < c.size THEN c.ptrs[s] ELSE NULL]]
    ELSE c

\* A full ring doubles; the entries that had wrapped to slots 0..start-1
\* move behind the old end, so the window is contiguous modulo the new size.
Enlarged(c) ==
    IF c.len = c.size
    THEN [c EXCEPT !.size = 2 * c.size,
                   !.ptrs = [s \in 0..(2 * c.size - 1) |->
                                CASE s \in c.start..(c.size - 1)          -> c.ptrs[s]
                                  [] s \in c.size..(c.size + c.start - 1) -> c.ptrs[s - c.size]
                                  [] OTHER                                -> NULL]]
    ELSE c

\* raft_entry_hold, raft_entry_release: the cache's share of the counts.
Hold(ety) == held' = held (+) SetToBag({ety})
Release(ptrs) == held' = held (-) ToBag(ptrs)

-----------------------------------------------------------------------------
(* The operations.                                                         *)

EntryCacheAppend(ety, idx) ==
    /\ AppendAsserts(cache, idx)
    /\ LET c == Enlarged(Anchored(cache, idx))
       IN  cache' = [c EXCEPT !.ptrs[SlotOf(c, c.len)] = ety, !.len = @ + 1]
    /\ Hold(ety)

\* The pointer returned for idx, NULL on a miss.  The reference the code
\* takes for the caller is the caller's to release.
EntryCacheGet(c, idx) ==
    IF idx < c.start_idx \/ idx - c.start_idx >= c.len
    THEN NULL
    ELSE c.ptrs[SlotOf(c, idx - c.start_idx)]

\* The number of entries the loop of EntryCacheDeleteHead evicts.
HeadBelow(c, first_idx) ==
    IF first_idx - c.start_idx < c.len THEN first_idx - c.start_idx ELSE c.len

\* Mutant of Advanced: start runs past the end of the ring.
AdvancedNoWrap(c, deleted) ==
    [c EXCEPT !.start_idx = @ + deleted, !.start = @ + deleted, !.len = @ - deleted]

\* The struct after the loop of EntryCacheDeleteHead took `deleted' entries
\* from the head: start wraps to 0 at the end of the ring.
Advanced(c, deleted) ==
    [c EXCEPT !.start_idx = @ + deleted, !.start = (@ + deleted) % c.size,
              !.len = @ - deleted]

\* Evicts the entries below first_idx, or returns -1 for a first_idx below
\* the window and leaves the cache as it is.
EntryCacheDeleteHead(first_idx) ==
    \/ first_idx < cache.start_idx /\ UNCHANGED cacheVars
    \/ /\ first_idx >= cache.start_idx
       /\ LET deleted == HeadBelow(cache, first_idx)
          IN  /\ cache' = Unanchored(Advanced(Cleared(cache, 0, deleted), deleted))
              /\ Release(Run(cache, 0, deleted))

\* The indices EntryCacheDeleteTail accepts: those of the window.
InWindow(c, index) == index >= c.start_idx /\ index < c.start_idx + c.len

\* Evicts the entries at `index' and above, or returns -1 for an index
\* outside the window and leaves the cache as it is.
EntryCacheDeleteTail(index) ==
    \/ ~InWindow(cache, index) /\ UNCHANGED cacheVars
    \/ /\ InWindow(cache, index)
       /\ LET from    == index - cache.start_idx
              deleted == cache.len - from
          IN  /\ cache' = Unanchored([Cleared(cache, from, deleted) EXCEPT !.len = @ - deleted])
              /\ Release(Run(cache, from, deleted))

\* Releases every cached entry; the struct is freed.
EntryCacheFree == Release(Run(cache, 0, cache.len))

\* Mutant of Renew: the old cache is dropped with its references held.
RenewNoFree ==
    /\ cache' = EntryCacheNew(InitSize)
    /\ UNCHANGED held

\* EntryCacheFree and EntryCacheNew, as logImplReset calls them.
Renew ==
    /\ EntryCacheFree
    /\ cache' = EntryCacheNew(InitSize)

-----------------------------------------------------------------------------
(* The cache on its own, driven by a caller that keeps its contract.       *)

Init ==
    /\ cache = EntryCacheNew(InitSize)
    /\ held = EmptyBag

Next ==
    \/ \E ety \in Entries, idx \in 1..MaxIdx : EntryCacheAppend(ety, idx)
    \/ \E idx \in 0..(MaxIdx + 1) : EntryCacheDeleteHead(idx)
    \/ \E idx \in 0..(MaxIdx + 1) : EntryCacheDeleteTail(idx)
    \/ Renew

Spec == Init /\ [][Next]_cacheVars

-----------------------------------------------------------------------------
(* Properties.                                                             *)

\* The capacities a ring that started at InitSize can have.
Sizes == {InitSize * 2^k : k \in 0..MaxIdx}

TypeOK ==
    /\ cache.size \in Sizes
    /\ cache.ptrs \in [0..(cache.size - 1) -> Entries \cup {NULL}]
    /\ cache.start \in 0..(cache.size - 1)
    /\ cache.len \in 0..cache.size
    /\ cache.start_idx \in 0..MaxIdx
    /\ IsABag(held)

\* The cached entries in index order.
Window(c) == Run(c, 0, c.len)

\* The cache implements the window specification: whatever the ring does
\* (wrapping, doubling with the wrapped head moved by EntryCacheAppend,
\* clearing by DeleteHead/DeleteTail), the entries read back in index order
\* are those of a plain sequence under the same calls.
W == INSTANCE CacheWindow WITH first <- cache.start_idx, items <- Window(cache)

ImplementsWindow == W!Spec

\* The cache owns exactly one reference per cached entry, and every slot of
\* the window holds an entry: EntryCacheDeleteHead, EntryCacheDeleteTail
\* and EntryCacheFree release the entries they drop, no other, none twice,
\* and never the null pointer.
HeldIsWindow ==
    /\ \A k \in 1..cache.len : Window(cache)[k] \in Entries
    /\ held = ToBag(Window(cache))

=============================================================================
