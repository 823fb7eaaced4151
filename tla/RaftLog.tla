------------------------------ MODULE RaftLog ------------------------------
(***************************************************************************)
(* The in-memory log of raft (src/src/raft/log.c): a ring buffer of        *)
(* entries, and a hash table with a reference count for every entry that   *)
(* the log, a disk write or a message being sent refers to.  Operators on  *)
(* a record l:                                                             *)
(*   entries   the ring, [0..size-1 -> entry]; size, front and back        *)
(*   offset    the index before the first entry                            *)
(*   snap      index and term of the last snapshot                         *)
(*   refs      the hash table: a sequence of slots per bucket              *)
(*   heap      the payload memory that was allocated and not freed         *)
(*   ok        FALSE once an assertion failed, or memory was freed twice   *)
(* An entry is its term, its buffer and the batch its buffer is part of,   *)
(* both numbers of allocations (0 is NULL).  Types and local data play no  *)
(* role.  raft_malloc does not fail.                                       *)
(***************************************************************************)
EXTENDS Integers, Sequences, FiniteSets, SequencesExt

CONSTANT RefsInitialSize    \* LOG__REFS_INITIAL_SIZE, 256 in the code

ASSUME RefsInitialSizeAssumption == RefsInitialSize \in Nat \ {0}

(* What calloc leaves in the slots of the ring. *)
NoEntry == [term |-> 0, buf |-> 0, batch |-> 0]

Require(l, cond) == [l EXCEPT !.ok = @ /\ cond]

(* The allocation an entry's payload lives in. *)
Memory(e) == IF e.batch = 0 THEN e.buf ELSE e.batch

raft_free(l, m) == [Require(l, m \in l.heap) EXCEPT !.heap = @ \ {m}]

---------------------------------------------------------------------------
(* Reference counts *)

refs_size(refs) == Cardinality(DOMAIN refs)

refsKey(index, size) == (index - 1) % size

Bucket(refs, index) == refs[refsKey(index, refs_size(refs))]

(* No slot of the bucket may count the same entry. *)
refsTryInsert(l, e, index) ==
    [Require(l, \A i \in DOMAIN Bucket(l.refs, index) : Bucket(l.refs, index)[i].term # e.term)
       EXCEPT !.refs[refsKey(index, refs_size(l.refs))] =
         Append(@, [index |-> index, term |-> e.term, count |-> 1, e |-> e])]

(* A larger table: each bucket keeps its slots, under its new key. *)
refsGrow(refs, size) ==
    [k \in 0..(size - 1) |->
       LET old == refs[k % refs_size(refs)]
       IN  IF old # <<>> /\ refsKey(old[1].index, size) = k THEN old ELSE <<>>]

(* A bucket that counts entries of another index is a collision. *)
Collision(refs, index, size) ==
    \E k \in DOMAIN refs :
      /\ refs[k] # <<>> /\ refs[k][1].index # index
      /\ refsKey(refs[k][1].index, size) = refsKey(index, size)

(* The size is doubled while there is a collision; after ten attempts the  *)
(* entry is refused (RAFT_NOMEM).                                          *)
refsInit(l, e, index) ==
    LET refs == IF DOMAIN l.refs = {} THEN [k \in 0..(RefsInitialSize - 1) |-> <<>>] ELSE l.refs
        size(g) == refs_size(refs) * 2^g
        grow == CHOOSE g \in 0..10 : /\ g < 10 => ~Collision(refs, index, size(g))
                                     /\ \A h \in 0..(g - 1) : Collision(refs, index, size(h))
        m    == [l EXCEPT !.refs = refsGrow(refs, size(grow))]
    IN  IF grow = 10 THEN m ELSE refsTryInsert(m, e, index)

Slots(refs, term, index) ==
    {i \in DOMAIN Bucket(refs, index) :
       Bucket(refs, index)[i].index = index /\ Bucket(refs, index)[i].term = term}

(* Looking up an entry that has no slot is an assertion. *)
Counted(l, term, index) == DOMAIN l.refs # {} /\ Slots(l.refs, term, index) # {}

refsIncr(l, term, index) ==
    IF ~Counted(l, term, index) THEN Require(l, FALSE)
    ELSE LET i == CHOOSE i \in Slots(l.refs, term, index) : TRUE
         IN  [l EXCEPT !.refs[refsKey(index, refs_size(l.refs))][i].count = @ + 1]

(* A slot whose count drops to zero is removed from its bucket. *)
refsDecr(l, term, index) ==
    IF ~Counted(l, term, index) THEN Require(l, FALSE)
    ELSE LET i == CHOOSE i \in Slots(l.refs, term, index) : TRUE
         IN  [l EXCEPT !.refs[refsKey(index, refs_size(l.refs))] =
                IF @[i].count > 1 THEN [@ EXCEPT ![i].count = @ - 1]
                ELSE SubSeq(@, 1, i - 1) \o SubSeq(@, i + 1, Len(@))]

---------------------------------------------------------------------------
(* The ring buffer *)

logInit == [entries |-> <<>>, size |-> 0, front |-> 0, back |-> 0, offset |-> 0,
            snap |-> [index |-> 0, term |-> 0], refs |-> <<>>, heap |-> {}, ok |-> TRUE]

indexAt(l, i) == l.offset + i + 1

positionAt(l, i) == (l.front + i) % l.size

entryAt(l, i) == l.entries[positionAt(l, i)]

logNumEntries(l) ==
    IF l.front <= l.back THEN l.back - l.front ELSE l.size - l.front + l.back

logLastIndex(l) == l.offset + logNumEntries(l)

(* The position of an entry, or the size of the ring if it is not there. *)
locateEntry(l, index) ==
    IF index <= l.offset \/ index > logLastIndex(l) THEN l.size
    ELSE positionAt(l, index - 1 - l.offset)

logTermOf(l, index) ==
    IF (index <= l.offset /\ index # l.snap.index) \/ index > logLastIndex(l) THEN 0
    ELSE IF index = l.snap.index THEN l.snap.term
    ELSE l.entries[locateEntry(l, index)].term

(* What logTermOf asserts of a log. *)
Coherent(l) ==
    /\ l.offset <= l.snap.index
    /\ locateEntry(l, l.snap.index) # l.size =>
         l.entries[locateEntry(l, l.snap.index)].term = l.snap.term

logStart(l, snapshot_index, snapshot_term, start_index) ==
    [Require(l, logNumEntries(l) = 0 /\ start_index > 0 /\ start_index <= snapshot_index + 1)
       EXCEPT !.snap = [index |-> snapshot_index, term |-> snapshot_term],
              !.offset = start_index - 1]

(* Mutant of ensureCapacity: the entries are copied from the beginning of  *)
(* the ring, not from its front.                                           *)
ensureCapacityFromZero(l) ==
    LET n == logNumEntries(l)
        size == (l.size + 1) * 2
    IN  IF n + 1 < l.size THEN l
        ELSE [l EXCEPT !.entries = [p \in 0..(size - 1) |->
                                      IF p < n THEN l.entries[p] ELSE NoEntry],
                       !.size = size, !.front = 0, !.back = n]

(* One slot of the ring always stays free; a ring without one more is      *)
(* replaced by a larger one, with the entries at its beginning.            *)
ensureCapacity(l) ==
    LET n == logNumEntries(l)
        size == (l.size + 1) * 2
    IN  IF n + 1 < l.size THEN l
        ELSE [l EXCEPT !.entries = [p \in 0..(size - 1) |->
                                      IF p < n THEN entryAt(l, p) ELSE NoEntry],
                       !.size = size, !.front = 0, !.back = n]

(* An entry that is not in the log any more but still counted, because a   *)
(* message or a write refers to it, is put back.  The code advances back   *)
(* first: the entry is written one slot after the one it becomes.          *)
CanReinstate(l, term) ==
    DOMAIN l.refs # {} /\ Slots(l.refs, term, logLastIndex(l) + 1) # {}

(* Whether the slot the entry becomes does not hold it anyway, from before. *)
Misplaces(l, term) ==
    LET index == logLastIndex(l) + 1
        m     == ensureCapacity(l)
    IN  \A i \in Slots(l.refs, term, index) : m.entries[m.back] # Bucket(l.refs, index)[i].e

logReinstate(l, term) ==
    LET index == logLastIndex(l) + 1
        i     == CHOOSE i \in Slots(l.refs, term, index) : TRUE
        m     == ensureCapacity(l)
        back  == (m.back + 1) % m.size
    IN  [m EXCEPT !.refs[refsKey(index, refs_size(l.refs))][i].count = @ + 1,
                  !.back = back,
                  !.entries[back] = Bucket(l.refs, index)[i].e]

logAppend(l, e) ==
    LET m == refsInit(ensureCapacity(l), e, logLastIndex(l) + 1)
    IN  IF ~Counted(m, e.term, logLastIndex(l) + 1) THEN m
        ELSE [m EXCEPT !.entries[m.back] = e, !.back = (@ + 1) % m.size]

(* The entries from index to the end of the log: what logAcquire returns.  *)
(* Their number comes from the positions in the ring.                      *)
Acquired(l, index) ==
    LET i == locateEntry(l, index)
        n == IF i < l.back THEN l.back - i ELSE l.size - i + l.back
    IN  IF i = l.size THEN <<>>
        ELSE [j \in 1..n |-> l.entries[(i + j - 1) % l.size]]

(* Mutant of logAcquire: only the first entry is counted. *)
logAcquireFirst(l, index) ==
    IF Acquired(l, index) = <<>> THEN l ELSE refsIncr(l, Acquired(l, index)[1].term, index)

logAcquire(l, index) ==
    FoldLeftDomain(LAMBDA m, j : refsIncr(m, Acquired(l, index)[j].term, index + j - 1),
                   l, Acquired(l, index))

---------------------------------------------------------------------------
(* Releasing memory *)

Unreferenced(l, e, index) == ~Counted(l, e.term, index)

isBatchReferenced(l, batch) ==
    \E i \in 0..(logNumEntries(l) - 1) : entryAt(l, i).batch = batch

destroyEntry(l, e) ==
    IF e.batch # 0 /\ isBatchReferenced(l, e.batch) THEN l
    ELSE raft_free(l, Memory(e))

(* A batch is freed once, even if several of the entries are part of it. *)
logRelease(l, index, entries) ==
    FoldLeftDomain(
      LAMBDA s, j :
        LET e == entries[j]
            d == refsDecr(s.l, e.term, index + j - 1)
            unref == Unreferenced(d, e, index + j - 1)
            free == unref /\ (e.batch = 0 \/ (e.batch # s.batch /\ ~isBatchReferenced(d, e.batch)))
        IN  IF free THEN [l |-> raft_free(d, Memory(e)), batch |-> e.batch]
            ELSE [s EXCEPT !.l = d],
      [l |-> l, batch |-> 0], entries).l

clearIfEmpty(l) ==
    IF logNumEntries(l) > 0 THEN l
    ELSE [l EXCEPT !.entries = <<>>, !.size = 0, !.front = 0, !.back = 0]

(* Mutant of DropLast: the entry is destroyed though someone refers to it. *)
DropLastAnyway(l, destroy) ==
    LET back == IF l.back = 0 THEN l.size - 1 ELSE l.back - 1
        e    == l.entries[back]
        d    == refsDecr([l EXCEPT !.back = back], e.term, logLastIndex(l))
    IN  IF destroy THEN destroyEntry(d, e) ELSE d

(* The last entry is taken off the ring, then its reference dropped. *)
DropLast(l, destroy) ==
    LET back == IF l.back = 0 THEN l.size - 1 ELSE l.back - 1
        e    == l.entries[back]
        d    == refsDecr([l EXCEPT !.back = back], e.term, logLastIndex(l))
    IN  IF Unreferenced(d, e, logLastIndex(l)) /\ destroy THEN destroyEntry(d, e) ELSE d

removeSuffix(l, index, destroy) ==
    clearIfEmpty(
      FoldLeft(LAMBDA m, i : DropLast(m, destroy),
               Require(l, index > l.offset /\ index <= logLastIndex(l)),
               [i \in 1..(logLastIndex(l) - index + 1) |-> i]))

logTruncate(l, index) == IF logNumEntries(l) = 0 THEN l ELSE removeSuffix(l, index, TRUE)

logDiscard(l, index) == removeSuffix(l, index, FALSE)

DropFirst(l) ==
    LET e == l.entries[l.front]
        d == refsDecr([l EXCEPT !.front = IF @ = l.size - 1 THEN 0 ELSE @ + 1,
                                !.offset = @ + 1], e.term, l.offset + 1)
    IN  IF Unreferenced(d, e, l.offset + 1) THEN destroyEntry(d, e) ELSE d

removePrefix(l, index) ==
    clearIfEmpty(FoldLeft(LAMBDA m, i : DropFirst(m), l, [i \in 1..(index - l.offset) |-> i]))

(* The snapshot covers last_index; trailing entries before it are kept. *)
logSnapshot(l, last_index, trailing) ==
    LET m == [Require(l, logTermOf(l, last_index) # 0)
                EXCEPT !.snap = [index |-> last_index, term |-> logTermOf(l, last_index)]]
    IN  IF last_index <= trailing \/ locateEntry(l, last_index - trailing) = l.size THEN m
        ELSE removePrefix(m, last_index - trailing)

logRestore(l, last_index, last_term) ==
    [(IF logNumEntries(l) > 0 THEN logTruncate(l, logLastIndex(l) - logNumEntries(l) + 1) ELSE l)
       EXCEPT !.snap = [index |-> last_index, term |-> last_term], !.offset = last_index]

(* Nothing else may refer to the entries of a log that is closed.  What    *)
(* the log holds is freed, a batch once.                                   *)
logClose(l) ==
    LET live == 0..(logNumEntries(l) - 1)
        b(i) == Bucket(l.refs, indexAt(l, i))
    IN  [Require(l, \A i \in live : Len(b(i)) = 1 /\ b(i)[1].count = 1)
           EXCEPT !.heap = @ \ {Memory(entryAt(l, i)) : i \in live},
                  !.entries = <<>>, !.size = 0, !.front = 0, !.back = 0, !.refs = <<>>]
=============================================================================
