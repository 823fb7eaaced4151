------------------------------ MODULE UvStorage ------------------------------
(***************************************************************************)
(* The storage of raft on libuv (the uv_*.c files): append requests queued  *)
(* for open segments, segments prepared, finalized and truncated by a       *)
(* thread pool, barriers that hold appends back, snapshots that make old    *)
(* segments removable, and the load of what is found after a restart.       *)
(*                                                                          *)
(* uv is the structure of that name, dir the data directory, raft the part  *)
(* of raft that uses them.  An action is one callback of the event loop,    *)
(* together with the work of the thread pool whose end it reports where     *)
(* that work is a single file operation; the works that touch several files *)
(* (truncation, snapshot) take one step for each, so that the server can    *)
(* stop between them.  An entry is the stamp under which raft appended it:  *)
(* what raft replaces or appends again has a later stamp.                   *)
(***************************************************************************)
EXTENDS UvMetadata, FiniteSets, Sequences, TLC, FiniteSetsExt, SequencesExt,
        Functions

CONSTANTS
  Scenarios,     \* what may happen, and how often; a behaviour chooses one of them
  SegmentSize,   \* entries that fit in a segment
  Trailing,      \* r->snapshot.trailing
  MaxBatch       \* bound on the entries of one append

Event == {"append", "replace", "take", "install", "overlap", "fail",
          "fail_queued", "close", "crash", "metadata"}

ASSUME StorageAssumption ==
  /\ \A s \in Scenarios : /\ s.events \subseteq Event
                          /\ s.maxIndex \in Nat /\ s.maxStamp \in Nat
  /\ SegmentSize \in Nat \ {0} /\ Trailing \in Nat \ {0}
  /\ MaxBatch \in 1..SegmentSize

VARIABLES
  scenario,      \* the events of this behaviour and the bounds of its log and stamps
  uv,            \* struct uv
  dir,           \* the files of the data directory
  raft           \* the log and the snapshot of raft

others == <<scenario, metadataVars>>

vars == <<uv, dir, raft, others>>

NoTruncate == [index |-> 0, todo |-> << >>, listed |-> FALSE]
NoPut == [index |-> 0, trailing |-> 0, step |-> "none"]

\* raft_uv_init, and uvLoad that sets the next index.
raft_uv_init(next) ==
  [nextIndex |-> next, segs |-> << >>, pending |-> << >>, writing |-> << >>,
   barrier |-> 0, bars |-> << >>, finalizeReqs |-> << >>,
   pool |-> << >>, preparing |-> 0, nextCounter |-> 1,
   truncating |-> NoTruncate, putting |-> NoPut,
   closing |-> FALSE, left |-> 0, aborted |-> FALSE]

TypeOK ==
  /\ MetadataTypeOK
  /\ scenario \in Scenarios
  /\ uv.nextIndex \in Nat \ {0} \/ uv.closing
  /\ \A s \in Range(uv.segs) :
       /\ s.barrier \in DOMAIN uv.bars \cup {0}
       /\ s.pendingLast >= s.last /\ s.size <= SegmentSize
       /\ s.counter \notin Range(uv.pool) \cup {uv.preparing} \/ s.counter = 0
  /\ \A a \in Range(uv.pending \o uv.writing) :
       \E s \in Range(uv.segs) : s.id = a.seg
  /\ uv.barrier \in DOMAIN uv.bars \cup {0}
  /\ Len(uv.pool) <= 2
  /\ DOMAIN dir.open \subseteq 1..uv.nextCounter - 1
  /\ \A s \in dir.closed : Len(s.data) = s.last - s.first + 1
  /\ raft.lastStored \in 0..Len(raft.log) /\ raft.snap \in 0..Len(raft.log)
------------------------------------------------------------------------------
(* Helpers                                                                   *)

assert(u, holds) == IF holds THEN u ELSE [u EXCEPT !.aborted = TRUE]

SegIds(u) == [k \in DOMAIN u.segs |-> u.segs[k].id]

Seg(u, id) == CHOOSE s \in Range(u.segs) : s.id = id

\* u with the segment that has s's id replaced by s.
PutSeg(u, s) ==
  [u EXCEPT !.segs = [k \in DOMAIN @ |-> IF @[k].id = s.id THEN s ELSE @[k]]]

DropSeg(u, id) == [u EXCEPT !.segs = SelectSeq(@, LAMBDA s : s.id # id)]

\* The smallest number not in S: a segment or a barrier that is allocated.
Unused(S) == Min((1..Cardinality(S) + 1) \ S)

Entries(reqs) == FlattenSeq([k \in DOMAIN reqs |-> reqs[k].data])

Truncate(log, index) == SubSeq(log, 1, Min({index - 1, Len(log)}))

\* raft's callbacks for appends that succeeded: updateLastStored counts the
\* entries that are still in the log, unless a snapshot is being installed.
Stored(r, reqs) ==
  LET one(n, a) ==
        n + Max({m \in 0..Len(a.data) : \A k \in 1..m :
                   a.index + k - 1 <= Len(r.log) /\ r.log[a.index + k - 1] = a.data[k]})
  IN  IF r.put = "install" THEN r
      ELSE [r EXCEPT !.lastStored = FoldLeft(one, @, reqs)]

\* and for those that failed: each truncates the log where it started.
Failed(r, reqs) ==
  LET one(log, a) == Truncate(log, a.index)
  IN  [r EXCEPT !.log = FoldLeft(one, @, reqs),
                !.stamp = IF reqs = << >> THEN @ ELSE @ + 1]

\* uvAppendFinishRequestsInQueue with an error: the next index goes back.
Rollback(u, reqs) == [u EXCEPT !.nextIndex = @ - Len(Entries(reqs))]
------------------------------------------------------------------------------
(* Segments and barriers: uv_append.c, uv_prepare.c, uv_finalize.c           *)

\* uvAliveSegmentFinalize and UvFinalize; the head of finalizeReqs is the one
\* that the thread pool works on.
uvAliveSegmentFinalize(u, s) ==
  DropSeg([u EXCEPT !.finalizeReqs = Append(@,
             [counter |-> s.counter, used |-> s.written,
              first |-> s.first, last |-> s.last])], s.id)

\* uvTruncateBarrierCb, for request r and when the storage is not closing.
uvTruncateBarrierCb(u, r) ==
  [assert(u, /\ u.writing = << >> /\ u.finalizeReqs = << >>
             /\ u.truncating = NoTruncate)
     EXCEPT !.truncating = [index |-> r.index, todo |-> << >>, listed |-> FALSE]]

\* uvSnapshotPutBarrierCb and uvSnapshotPutStart
uvSnapshotPutBarrierCb(u, r) ==
  [u EXCEPT !.putting = [index |-> r.index, trailing |-> r.trailing, step |-> "meta"]]

\* UvBarrierMaybeTrigger: the next request of the current barrier is called back.
UvBarrierMaybeTrigger(u) ==
  LET reqs == u.bars[u.barrier].reqs
      v == [u EXCEPT !.bars[u.barrier].reqs = Tail(@)]
  IN  IF reqs = << >> THEN u
      ELSE IF Head(reqs).type = "truncate" THEN uvTruncateBarrierCb(v, Head(reqs))
      ELSE uvSnapshotPutBarrierCb(v, Head(reqs))

\* One segment of the loop of uvAppendMaybeStart: wait, write all the requests
\* for it, or finalize it and go on with the next.
StartSegment(a, k) ==
  LET u == a.uv
      s == Head(u.segs)
      waits == \/ s.counter = 0
               \/ /\ u.barrier # 0 /\ s.barrier # u.barrier
                  /\ u.bars[u.barrier].blocking
      v == [u EXCEPT !.barrier = IF @ = 0 THEN s.barrier ELSE @]
      mine == SelectSeq(u.pending, LAMBDA p : p.seg = s.id)
      done == uvAliveSegmentFinalize(v, s)
  IN  IF ~a.go THEN a
      ELSE IF waits THEN [a EXCEPT !.go = FALSE]
      ELSE IF mine # << >>
      THEN [go |-> FALSE,
            uv |-> PutSeg([v EXCEPT !.writing = mine,
                             !.pending = SelectSeq(@, LAMBDA p : p.seg # s.id)],
                          [s EXCEPT !.pendingLast = @ + Len(Entries(mine))])]
      ELSE IF s.finalize THEN [go |-> done.pending # << >>, uv |-> done]
      ELSE [go |-> FALSE, uv |-> assert(v, FALSE)]

\* Mutant of uvAppendMaybeStart: one that does not wait for the write in flight.
uvAppendMaybeStartNoWait(u) ==
  FoldLeft(StartSegment, [uv |-> u, go |-> TRUE], u.segs).uv

\* uvAppendMaybeStart, called with requests pending.
uvAppendMaybeStart(u) ==
  IF u.writing # << >> THEN u
  ELSE FoldLeft(StartSegment, [uv |-> u, go |-> TRUE], u.segs).uv

\* uvFinalizeCurrentAliveSegmentOnceIdle, for the segment at the head.
uvFinalizeCurrentAliveSegmentOnceIdle(u) ==
  LET s == Head(u.segs)
  IN  IF u.writing = << >> /\ \A p \in Range(u.pending) : p.seg # s.id
      THEN uvAliveSegmentFinalize(u, s)
      ELSE PutSeg(u, [s EXCEPT !.finalize = TRUE])

\* UvBarrier: all the segments that belong to no barrier are attached to a new
\* one and finalized when their requests are done; if there are none the request
\* joins the last barrier, or the current one, or starts one.
UvBarrier(u, next, req) ==
  LET new == \/ \E s \in Range(u.segs) : s.barrier = 0
             \/ u.segs = << >> /\ u.barrier = 0
      b == IF new THEN Unused(DOMAIN u.bars)
           ELSE IF u.segs # << >> THEN Last(u.segs).barrier ELSE u.barrier
      bars == IF new
              THEN u.bars @@ (b :> [blocking |-> req.blocking, reqs |-> <<req>>])
              ELSE [u.bars EXCEPT ![b] = [blocking |-> @.blocking \/ req.blocking,
                                          reqs |-> Append(@.reqs, req)]]
      attach(v, id) ==
        LET s == Seg(v, id)
            w == PutSeg(v, [s EXCEPT !.barrier = b])
        IN  IF s.barrier # 0
            THEN [v EXCEPT !.bars[s.barrier].blocking = @ \/ req.blocking]
            ELSE IF s = Head(v.segs) THEN uvFinalizeCurrentAliveSegmentOnceIdle(w)
            ELSE PutSeg(w, [s EXCEPT !.barrier = b, !.finalize = TRUE])
      v1 == FoldLeft(attach, [u EXCEPT !.nextIndex = next, !.bars = bars], SegIds(u))
  IN  IF v1.barrier # 0
      THEN [v1 EXCEPT !.bars[v1.barrier].blocking = @ \/ req.blocking]
      ELSE LET v2 == [v1 EXCEPT !.barrier = b]
           IN  IF v2.segs = << >> /\ v2.finalizeReqs = << >>
               THEN UvBarrierMaybeTrigger(v2) ELSE v2

\* Mutant of UvUnblock: the appends held back are not resumed.
UvUnblockNoResume(u) ==
  IF u.bars[u.barrier].reqs # << >> THEN UvBarrierMaybeTrigger(u)
  ELSE [u EXCEPT !.barrier = 0, !.bars = Restrict(@, DOMAIN @ \ {u.barrier})]

\* UvUnblock: the next request of the barrier, or the end of the barrier.
UvUnblock(u) ==
  LET v == [u EXCEPT !.barrier = 0, !.bars = Restrict(@, DOMAIN @ \ {u.barrier})]
  IN  IF u.bars[u.barrier].reqs # << >> THEN UvBarrierMaybeTrigger(u)
      ELSE IF v.closing \/ v.pending = << >> THEN v
      ELSE uvAppendMaybeStart(v)

\* uvPrepareStart: the next open segment is being created.
uvPrepareStart(u) ==
  IF u.preparing # 0 THEN u
  ELSE [u EXCEPT !.preparing = u.nextCounter, !.nextCounter = @ + 1]

\* uvAppendPushAliveSegment and UvPrepare: a new segment, ready if the pool has one.
uvAppendPushAliveSegment(u) ==
  uvPrepareStart(
    [u EXCEPT !.pool = IF @ = << >> THEN @ ELSE Tail(@),
              !.segs = Append(@,
                [id |-> Unused(Range(SegIds(u))),
                 counter |-> IF u.pool = << >> THEN 0 ELSE Head(u.pool),
                 first |-> u.nextIndex, pendingLast |-> u.nextIndex - 1,
                 last |-> 0, size |-> 0, written |-> 0, barrier |-> 0,
                 finalize |-> FALSE])])

\* UvAppend and uvAppendEnqueueRequest: the request joins the last segment if it
\* fits there, otherwise a new one.
UvAppend(u, index, data) ==
  LET fits == /\ u.segs # << >> /\ ~Last(u.segs).finalize
              /\ Last(u.segs).size + Len(data) <= SegmentSize
      full == IF u.segs = << >> THEN u
              ELSE PutSeg(u, [Last(u.segs) EXCEPT !.finalize = TRUE])
      v == IF fits THEN u ELSE uvAppendPushAliveSegment(full)
      s == Last(v.segs)
      w == PutSeg(v, [s EXCEPT !.size = @ + Len(data)])
  IN  uvAppendMaybeStart(
        [w EXCEPT !.pending = Append(@, [seg |-> s.id, index |-> index, data |-> data]),
                  !.nextIndex = @ + Len(data)])

\* UvTruncate
UvTruncate(u, index) ==
  UvBarrier(assert(u, index < u.nextIndex), index,
            [type |-> "truncate", index |-> index, trailing |-> 0, blocking |-> TRUE])

\* UvSnapshotPut; no trailing entries means that the snapshot replaces the log.
UvSnapshotPut(u, index, trailing) ==
  UvBarrier(assert(u, u.putting = NoPut),
            IF trailing = 0 THEN index + 1 ELSE u.nextIndex,
            [type |-> "put", index |-> index, trailing |-> trailing,
             blocking |-> trailing = 0])
------------------------------------------------------------------------------
(* What is found on disk: uv.c, uv_list.c, uv_segment.c                      *)

\* UvList: the snapshots with both files, the closed segments in the order of
\* uvSegmentInfoCompare, the open ones by counter.
Snapshots(d) == d.snapMeta \cap d.snapData

ClosedSegments(d) ==
  SetToSortSeq(d.closed, LAMBDA a, b : \/ a.first < b.first
                                       \/ a.first = b.first /\ a.last < b.last)

OpenSegments(d) == SetToSortSeq(DOMAIN d.open, <)

\* uvFilterSegments, for closed segments c: the last contiguous ones, or none if
\* they are all behind the snapshot and there are no open ones.
uvFilterSegments(c, snap, open) ==
  LET from == CHOOSE i \in DOMAIN c :
                /\ \A k \in i + 1..Len(c) : c[k - 1].last = c[k].first - 1
                /\ i = 1 \/ c[i - 1].last # c[i].first - 1
  IN  IF c = << >> \/ (Last(c).last < snap /\ open = {}) THEN << >>
      ELSE SubSeq(c, from, Len(c))

\* uvSegmentLoadOpen: an open segment becomes the closed segment of the entries
\* after those loaded so far, or is removed if it has none.
uvSegmentLoadOpen(l, c) ==
  LET data == l.dir.open[c]
      next == l.start + Len(l.entries)
  IN  [l EXCEPT
        !.entries = @ \o data,
        !.dir.open = Restrict(@, DOMAIN @ \ {c}),
        !.dir.closed = IF data = << >> THEN @
                       ELSE @ \cup {[first |-> next, last |-> next + Len(data) - 1,
                                     data |-> data]}]

\* The part of uvSegmentLoadAll for the closed segments c, and for the open ones.
LoadClosed(d, snap, c, start) ==
  [ok |-> /\ start <= snap + 1
          /\ \A k \in DOMAIN c : c[k].first = IF k = 1 THEN start ELSE c[k - 1].last + 1,
   snap |-> snap, start |-> start, dir |-> d,
   entries |-> FlattenSeq([k \in DOMAIN c |-> c[k].data])]

LoadOpen(l) ==
  IF l.ok THEN FoldLeft(uvSegmentLoadOpen, l, OpenSegments(l.dir)) ELSE l

\* The last check: the entries loaded, if any, reach the snapshot.
CheckLast(l, none) == [l EXCEPT !.ok = @ /\ (none \/ l.start + Len(l.entries) - 1 >= l.snap)]

LoadSegments(d, snap, c) ==
  LET start == IF snap = 0 THEN 1 ELSE IF c = << >> THEN snap + 1 ELSE c[1].first
  IN  CheckLast(LoadOpen(LoadClosed(d, snap, c, start)), c = << >> /\ DOMAIN d.open = {})

\* uvLoadSnapshotAndEntries, once: the last snapshot and the segments after it.
LoadOnce(d) ==
  LET snap == Max(Snapshots(d) \cup {0})
      c == ClosedSegments(d)
  IN  LoadSegments(d, snap,
        IF snap = 0 THEN c ELSE uvFilterSegments(c, snap, DOMAIN d.open))

\* uvLoadSnapshotAndEntries: tried a second time when the first found corruption,
\* as it may have removed what caused it.
Retry(l) == IF l.ok THEN l ELSE LoadOnce(l.dir)

uvLoadSnapshotAndEntries(d) == Retry(LoadOnce(d))

LastLoaded(l) == l.start + Len(l.entries) - 1

\* The directory when a first part of the write in flight has reached the disk.
PartlyWritten ==
  IF uv.writing = << >> THEN {dir}
  ELSE {[dir EXCEPT !.open[Head(uv.segs).counter] =
           @ \o Entries(SubSeq(uv.writing, 1, n))] : n \in 0..Len(uv.writing)}

\* The directory as a stop of the server may leave it; uvMaintenance removes what
\* is half of a snapshot.
CrashImages ==
  {[d EXCEPT !.snapMeta = Snapshots(d), !.snapData = Snapshots(d)] : d \in PartlyWritten}

\* What uvLoad finds in them.
Loads == {uvLoadSnapshotAndEntries(image) : image \in CrashImages}
------------------------------------------------------------------------------
(* Calls of raft                                                             *)

Allowed(event) == event \in scenario.events

Running == ~uv.closing /\ ~uv.aborted

Batch(n, stamp) == [k \in 1..n |-> stamp]

\* A new barrier would get ahead of one that waits for the file of its segment.
Overtakes == uv.barrier = 0 /\ DOMAIN uv.bars # {}

MayRequest == Overtakes => Allowed("overlap")

\* appendLeader, or replicationAppend without a conflict.  Entries are ignored
\* while a snapshot is being installed.
RaftAppend(n) ==
  /\ Allowed("append") /\ Running /\ raft.put # "install"
  /\ Len(raft.log) + n <= scenario.maxIndex
  /\ uv' = UvAppend(uv, Len(raft.log) + 1, Batch(n, raft.stamp))
  /\ raft' = [raft EXCEPT !.log = @ \o Batch(n, raft.stamp)]
  /\ UNCHANGED <<dir, others>>

\* replicationAppend with a conflict at index (deleteConflictingEntries): the
\* entries from there on are truncated and new ones appended.  The first entry and
\* those of the snapshot, or of the one being taken, do not conflict.
RaftReplace(index, n) ==
  /\ Allowed("replace") /\ Running /\ raft.put # "install"
  /\ MayRequest /\ (raft.put = "take" => Allowed("overlap"))
  /\ index \in Max({1, raft.snap, raft.taking}) + 1..Len(raft.log)
  /\ index - 1 + n <= scenario.maxIndex /\ raft.stamp < scenario.maxStamp
  /\ uv' = UvAppend(UvTruncate(uv, index), index, Batch(n, raft.stamp + 1))
  /\ raft' = [raft EXCEPT !.log = Truncate(@, index) \o Batch(n, raft.stamp + 1),
                          !.lastStored = Min({@, index - 1}),
                          !.stamp = @ + 1]
  /\ UNCHANGED <<dir, others>>

\* takeSnapshot and putSnapshot of what is stored up to index.
MayTake(r, index) ==
  /\ Allowed("take") /\ r.put = "none"
  /\ index \in r.snap + 1..r.lastStored

Taking(r, index) == [r EXCEPT !.put = "take", !.taking = index]

RaftTake(index) ==
  /\ Running /\ MayRequest /\ MayTake(raft, index)
  /\ uv' = UvSnapshotPut(uv, index, Trailing)
  /\ raft' = Taking(raft, index)
  /\ UNCHANGED <<dir, others>>

\* replicationInstallSnapshot: the log is discarded, whether it is shorter than
\* the snapshot or has other entries.
RaftInstall(index) ==
  /\ Allowed("install") /\ Running /\ MayRequest /\ raft.put = "none"
  /\ index \in raft.snap + 1..scenario.maxIndex /\ raft.stamp < scenario.maxStamp
  /\ uv' = UvSnapshotPut(uv, index, 0)
  /\ raft' = [raft EXCEPT
       !.log = [k \in 1..index |-> IF k <= raft.snap THEN @[k] ELSE raft.stamp + 1],
       !.lastStored = 0, !.put = "install", !.taking = index, !.stamp = @ + 1]
  /\ UNCHANGED <<dir, others>>
------------------------------------------------------------------------------
(* Callbacks of the event loop                                               *)

\* uvPrepareAfterWorkCb: the file exists and goes to the pool or to the oldest
\* segment that waits for one; the pool is filled up to two.
PrepareDone ==
  LET u1 == [uv EXCEPT !.preparing = 0]
      p == Append(uv.pool, uv.preparing)
      k == SelectInSeq(uv.segs, LAMBDA s : s.counter = 0)
      u2 == IF k = 0 THEN [u1 EXCEPT !.pool = p]
            ELSE uvAppendMaybeStart(
                   [assert(u1, u1.pending # << >>) EXCEPT
                      !.pool = Tail(p), !.segs[k].counter = Head(p)])
  IN  /\ uv.preparing # 0 /\ ~uv.aborted
      /\ \/ /\ uv.closing
            /\ uv' = u1 /\ UNCHANGED dir
         \/ /\ ~uv.closing
            /\ uv' = IF Len(u2.pool) >= 2 THEN u2 ELSE uvPrepareStart(u2)
            /\ dir' = [dir EXCEPT !.open = @ @@ (uv.preparing :> << >>)]
      /\ UNCHANGED <<raft, others>>

\* uvPrepareAfterWorkCb and uvAliveSegmentPrepareCb when the file could not be
\* created: the segments that wait for it go, and all pending requests fail.
PrepareFails ==
  LET waiting == \E s \in Range(uv.segs) : s.counter = 0
      failed == IF waiting THEN uv.pending ELSE << >>
  IN  /\ Allowed("fail") /\ uv.preparing # 0 /\ Running /\ raft.stamp < scenario.maxStamp
      /\ waiting /\ uv.bars # << >> => Allowed("fail_queued")
      /\ uv' = Rollback([uv EXCEPT !.preparing = 0,
                           !.segs = SelectSeq(@, LAMBDA s : s.counter # 0),
                           !.pending = IF waiting THEN << >> ELSE @], failed)
      /\ raft' = Failed(raft, failed)
      /\ UNCHANGED <<dir, others>>

\* The end of uvAliveSegmentWriteCb: the next requests, or the finalization of
\* the segment (id) if nothing else will cause it.
AfterWrite(u, id) ==
  LET s == Seg(u, id)
      alive == id \in Range(SegIds(u))
  IN  IF u.closing THEN uvAliveSegmentFinalize(assert(u, s.finalize), s)
      ELSE IF u.pending # << >> THEN uvAppendMaybeStart(u)
      ELSE IF alive /\ s.finalize /\ s.pendingLast = s.last
      THEN uvAliveSegmentFinalize(u, s)
      ELSE u

\* uvAliveSegmentWriteCb: the entries are on disk and raft is told so; it may
\* apply them and take a snapshot (at index take, or not at all if 0) there.
WriteDone(take) ==
  LET s == Head(uv.segs)
      data == Entries(uv.writing)
      u1 == PutSeg([uv EXCEPT !.writing = << >>],
                   [s EXCEPT !.last = s.pendingLast, !.written = @ + Len(data)])
      r1 == IF uv.closing THEN raft ELSE Stored(raft, uv.writing)
  IN  /\ uv.writing # << >> /\ ~uv.aborted
      /\ take # 0 => Running /\ MayTake(r1, take)
      /\ dir' = [dir EXCEPT !.open[s.counter] = @ \o data]
      /\ raft' = IF take = 0 THEN r1 ELSE Taking(r1, take)
      /\ uv' = AfterWrite(IF take = 0 THEN u1 ELSE UvSnapshotPut(u1, take, Trailing), s.id)
      /\ UNCHANGED others

\* Mutant of WriteFails: the requests that are queued behind are kept.
WriteFailsKeepsQueue ==
  LET s == Head(uv.segs)
  IN  /\ Allowed("fail") /\ uv.writing # << >> /\ Running /\ raft.stamp < scenario.maxStamp
      /\ Len(uv.segs) > 1 => Allowed("fail_queued")
      /\ raft' = Failed(raft, uv.writing)
      /\ uv' = AfterWrite(
                 PutSeg(Rollback([uv EXCEPT !.writing = << >>], uv.writing),
                        [s EXCEPT !.pendingLast = s.last, !.finalize = TRUE]), s.id)
      /\ dir' \in PartlyWritten
      /\ UNCHANGED others

\* uvAliveSegmentWriteCb after an error: this write and all the requests queued
\* behind it fail, and the segment is not used any more.  What the write has left
\* in the file stays there until the file is finalized.
WriteFails ==
  LET s == Head(uv.segs)
      failed == uv.writing \o uv.pending
  IN  /\ Allowed("fail") /\ uv.writing # << >> /\ Running /\ raft.stamp < scenario.maxStamp
      /\ Len(uv.segs) > 1 => Allowed("fail_queued")
      /\ raft' = Failed(raft, failed)
      /\ uv' = AfterWrite(
                 PutSeg(Rollback([uv EXCEPT !.writing = << >>, !.pending = << >>], failed),
                        [s EXCEPT !.pendingLast = s.last, !.finalize = TRUE]), s.id)
      /\ dir' \in PartlyWritten
      /\ UNCHANGED others

\* uvFinalizeWorkCb and uvFinalizeAfterWorkCb: the file is cut to what was
\* written and renamed, or removed if unused.  When the last one is done and no
\* segment belongs to the current barrier, the barrier fires.
FinalizeDone ==
  LET d == Head(uv.finalizeReqs)
      u == [uv EXCEPT !.finalizeReqs = Tail(@)]
      ready == /\ u.finalizeReqs = << >> /\ u.barrier # 0
               /\ \A s \in Range(u.segs) : s.barrier # u.barrier
      new == [first |-> d.first, last |-> d.last,
              data |-> SubSeq(dir.open[d.counter], 1, d.used)]
  IN  /\ uv.finalizeReqs # << >> /\ ~uv.aborted
      /\ uv' = assert(IF ready THEN UvBarrierMaybeTrigger(u) ELSE u, d.counter > 0)
      /\ dir' = [dir EXCEPT
           !.open = Restrict(@, DOMAIN @ \ {d.counter}),
           !.closed = IF d.used = 0 THEN @
                      ELSE {c \in @ : c.first # d.first \/ c.last # d.last} \cup {new}]
      /\ UNCHANGED <<raft, others>>

\* uvTruncateWorkCb: the segment that contains the index is rewritten without
\* the entries from there on; it and all later ones are to be removed.
TruncateList ==
  LET t == uv.truncating
      c == ClosedSegments(dir)
      k == SelectInSeq(c, LAMBDA s : t.index \in s.first..s.last)
      short == [first |-> c[k].first, last |-> t.index - 1,
                data |-> SubSeq(c[k].data, 1, t.index - c[k].first)]
  IN  /\ t.index # 0 /\ ~t.listed /\ ~uv.aborted
      /\ uv' = IF k = 0 THEN assert(uv, FALSE)
               ELSE [uv EXCEPT !.truncating.listed = TRUE,
                               !.truncating.todo = SubSeq(c, k, Len(c))]
      /\ dir' = IF k = 0 \/ t.index = c[k].first THEN dir
                ELSE [dir EXCEPT !.closed = @ \cup {short}]
      /\ UNCHANGED <<raft, others>>

\* Mutant of TruncateRemove: only the segment with the index is removed.
TruncateRemoveOne ==
  /\ uv.truncating.listed /\ ~uv.aborted
  /\ dir' = [dir EXCEPT !.closed = @ \ {Head(uv.truncating.todo)}]
  /\ uv' = UvUnblock([uv EXCEPT !.truncating = NoTruncate])
  /\ UNCHANGED <<raft, others>>

\* One removal of uvTruncateWorkCb; after the last one uvTruncateAfterWorkCb.
TruncateRemove ==
  LET todo == Tail(uv.truncating.todo)
  IN  /\ uv.truncating.listed /\ ~uv.aborted
      /\ dir' = [dir EXCEPT !.closed = @ \ {Head(uv.truncating.todo)}]
      /\ uv' = IF todo # << >> THEN [uv EXCEPT !.truncating.todo = todo]
               ELSE UvUnblock([uv EXCEPT !.truncating = NoTruncate])
      /\ UNCHANGED <<raft, others>>

\* uvSnapshotPutWorkCb: the two files of the snapshot, one after the other.
PutMeta ==
  /\ uv.putting.step = "meta" /\ ~uv.aborted
  /\ dir' = [dir EXCEPT !.snapMeta = @ \cup {uv.putting.index}]
  /\ uv' = [uv EXCEPT !.putting.step = "data"]
  /\ UNCHANGED <<raft, others>>

PutData ==
  /\ uv.putting.step = "data" /\ ~uv.aborted
  /\ dir' = [dir EXCEPT !.snapData = @ \cup {uv.putting.index}]
  /\ uv' = [uv EXCEPT !.putting.step = "prune"]
  /\ UNCHANGED <<raft, others>>

\* uvRemoveOldSegmentsAndSnapshots: all but the last two snapshots go
\* (uvSnapshotKeepLastTwo), then segments, oldest first.
PutPrune ==
  LET s == Snapshots(dir)
      old == {i \in s : Cardinality({j \in s : j > i}) >= 2}
  IN  /\ uv.putting.step = "prune" /\ ~uv.aborted
      /\ dir' = [dir EXCEPT !.snapMeta = @ \ old, !.snapData = @ \ old]
      /\ uv' = [uv EXCEPT !.putting.step = "clean"]
      /\ UNCHANGED <<raft, others>>

\* Mutant of Removable: no trailing entries are kept, and one entry that is not in
\* the snapshot is given up.
RemovableOneMore(p, d) ==
  LET c == ClosedSegments(d) IN c # << >> /\ c[1].last <= p.index + 1

\* uvSegmentKeepTrailing: whether the oldest closed segment can go.
Removable(p, d) ==
  LET c == ClosedSegments(d)
  IN  /\ c # << >> /\ p.index > p.trailing
      /\ p.trailing = 0 \/ c[1].last < p.index - p.trailing + 1

PutClean ==
  /\ uv.putting.step = "clean" /\ ~uv.aborted /\ Removable(uv.putting, dir)
  /\ dir' = [dir EXCEPT !.closed = @ \ {ClosedSegments(dir)[1]}]
  /\ UNCHANGED <<uv, raft, others>>

\* uvSnapshotPutAfterWorkCb, with raft's takeSnapshotCb or installSnapshotCb.
PutDone ==
  /\ uv.putting.step = "clean" /\ ~uv.aborted /\ ~Removable(uv.putting, dir)
  /\ raft' = IF uv.closing THEN raft
             ELSE [raft EXCEPT !.put = "none", !.snap = raft.taking, !.taking = 0,
                     !.lastStored = IF raft.put = "install" THEN raft.taking ELSE @]
  /\ uv' = UvUnblock([uv EXCEPT !.putting = NoPut])
  /\ UNCHANGED <<dir, others>>
------------------------------------------------------------------------------
(* Closing and restarting                                                    *)

\* uvClose: uvBarrierClose drops all requests of barriers, UvPrepareClose the
\* segments that wait for a file and the pool; what is pending is cancelled, the
\* current segment is finalized, at once if it is idle, and then all but the one
\* that is at the head by now; left (history) is its id if it is not the current one.
uvClose ==
  LET kept == IF uv.putting = NoPut /\ uv.truncating = NoTruncate THEN {}
              ELSE {uv.barrier} \ {0}
      u1 == [uv EXCEPT
               !.closing = TRUE, !.pool = << >>,
               !.bars = [b \in kept |-> [blocking |-> @[b].blocking, reqs |-> << >>]],
               !.barrier = IF kept = {} THEN 0 ELSE @,
               !.segs = LET s == SelectSeq(@, LAMBDA x : x.counter # 0)
                        IN  [k \in DOMAIN s |-> [s[k] EXCEPT !.barrier = 0]],
               !.pending = << >>]
      u2 == IF u1.segs = << >> THEN u1 ELSE uvFinalizeCurrentAliveSegmentOnceIdle(u1)
      head == IF u2.segs = << >> THEN 0 ELSE Head(u2.segs).id
      rest == SelectSeq(u2.segs, LAMBDA s : s.id # head)
      u3 == [u2 EXCEPT !.left = IF head = 0 \/ head = Head(u1.segs).id THEN 0 ELSE head]
      one(u, s) == uvAliveSegmentFinalize(assert(u, s.written = 0), s)
  IN  /\ Allowed("close") /\ Running
      /\ uv' = Rollback(FoldLeft(one, u3, Reverse(rest)), uv.pending)
      /\ raft' = Failed(raft, uv.pending)
      /\ dir' = [dir EXCEPT !.open = Restrict(@, DOMAIN @ \ Range(uv.pool))]
      /\ UNCHANGED others

\* The server stops and starts again: uvInit (uvMaintenance) and uvLoad.  What
\* comes before the entries loaded is in the snapshot.
Restart ==
  /\ Allowed("crash") /\ raft.stamp < scenario.maxStamp
  /\ \E l \in Loads :
       /\ l.ok
       /\ dir' = l.dir
       /\ uv' = raft_uv_init(LastLoaded(l) + 1)
       /\ raft' = [log |-> SubSeq(raft.log, 1, l.start - 1) \o l.entries,
                   lastStored |-> LastLoaded(l), snap |-> l.snap,
                   put |-> "none", taking |-> 0, stamp |-> raft.stamp + 1]
  /\ MetadataReload
  /\ UNCHANGED scenario

\* After uvBootstrap, uvInit and uvLoad: one entry in a closed segment, term 1.
Init ==
  /\ scenario \in Scenarios
  /\ MetadataInit
  /\ uv = raft_uv_init(2)
  /\ dir = [open |-> << >>, closed |-> {[first |-> 1, last |-> 1, data |-> <<0>>]},
            snapMeta |-> {}, snapData |-> {}]
  /\ raft = [log |-> <<0>>, lastStored |-> 1, snap |-> 0, put |-> "none",
             taking |-> 0, stamp |-> 1]

Calls ==
  \/ \E n \in 1..MaxBatch : RaftAppend(n)
  \/ \E index \in 1..scenario.maxIndex, n \in 1..MaxBatch : RaftReplace(index, n)
  \/ \E index \in 1..scenario.maxIndex : RaftTake(index)
  \/ \E index \in 1..scenario.maxIndex : RaftInstall(index)
  \/ uvClose

Callbacks ==
  \/ PrepareDone
  \/ \E take \in 0..scenario.maxIndex : WriteDone(take)
  \/ FinalizeDone
  \/ TruncateList
  \/ TruncateRemove
  \/ PutMeta
  \/ PutData
  \/ PutPrune
  \/ PutClean
  \/ PutDone

StoreMetadata ==
  Allowed("metadata") /\ MetadataNext /\ UNCHANGED <<scenario, uv, dir, raft>>

Next ==
  \/ Calls
  \/ Callbacks
  \/ PrepareFails
  \/ WriteFails
  \/ Restart
  \/ StoreMetadata

\* The thread pool and the kernel end what they were given to do.
Spec == Init /\ [][Next]_vars /\ WF_vars(Callbacks)
------------------------------------------------------------------------------
(* Properties                                                                *)

\* No assertion of the storage fails: among them those of uvTruncateBarrierCb (no
\* write, finalization or other truncation is under way), of uvTruncateWorkCb (a
\* segment contains the index), of uvAppendMaybeStart and of uvFinalizeStart.
NeverAborts == ~uv.aborted

\* append_next_index, moved by appends, rollbacks and barriers, is always the
\* index after raft's last entry.
NextIndexTracksLog == ~uv.closing => uv.nextIndex = Len(raft.log) + 1

\* Whether a truncation or the installation of a snapshot is under way.
Rewriting ==
  \/ uv.truncating # NoTruncate
  \/ uv.putting # NoPut /\ uv.putting.trailing = 0
  \/ \E b \in DOMAIN uv.bars : \E r \in Range(uv.bars[b].reqs) :
       r.type = "truncate" \/ r.trailing = 0

\* A failed write has left entries in a segment that is still to be cut, and whether
\* later appends have reached the next segment before that.
Leftovers == {d \in Range(uv.finalizeReqs) : Len(dir.open[d.counter]) > d.used}

WrittenBehind(images) ==
  \E d \in Leftovers, i \in images : \E c \in DOMAIN i.open :
    c > d.counter /\ i.open[c] # << >>

\* Whenever the server stops, uvLoad succeeds and finds, in the last snapshot and
\* the segments after it, every entry whose append raft was told had succeeded,
\* with nothing missing in between; and, unless the storage was closing or has yet
\* to cut what a failed write left, nothing that raft did not append.  Not claimed
\* while segments are being rewritten; and while a failed write's segment is still
\* to be cut (uvFinalizeWorkCb), only until something is written to the next one:
\* from then on uvSegmentLoadOpen would put the leftovers in its place.
RestartRecovers ==
  ~Rewriting =>
    \A l \in Loads :
      /\ l.ok
      /\ ~WrittenBehind(CrashImages) =>
           /\ LastLoaded(l) >= raft.lastStored
           /\ \A i \in l.start..raft.lastStored : l.entries[i - l.start + 1] = raft.log[i]
      /\ ~uv.closing /\ Leftovers = {} =>
           /\ LastLoaded(l) <= Len(raft.log)
           /\ \A i \in l.start..LastLoaded(l) : l.entries[i - l.start + 1] = raft.log[i]

\* A request for a barrier will be called back: its barrier is the current one or
\* belongs to a segment that will be finalized.
NoLostBarrier ==
  \A b \in DOMAIN uv.bars :
    uv.bars[b].reqs # << >> =>
      b = uv.barrier \/ \E s \in Range(uv.segs) : s.barrier = b

\* Nothing is queued, in flight or held back.
Idle ==
  /\ uv.pending = << >> /\ uv.writing = << >> /\ uv.finalizeReqs = << >>
  /\ uv.barrier = 0 /\ \A s \in Range(uv.segs) : s.barrier = 0
  /\ uv.truncating = NoTruncate /\ uv.putting = NoPut

\* When the storage has nothing left to do, the disk holds exactly raft's log:
\* every append, truncation and snapshot has taken effect.
IdleMeansStored ==
  Idle /\ ~uv.closing =>
    /\ raft.lastStored = Len(raft.log)
    /\ \A l \in Loads :
         /\ l.ok /\ LastLoaded(l) = Len(raft.log) /\ l.snap = raft.snap
         /\ \A i \in l.start..LastLoaded(l) : l.entries[i - l.start + 1] = raft.log[i]

\* uvMaybeFireCloseCb
Closed == uv.closing /\ uv.segs = << >> /\ uv.preparing = 0 /\ Idle

\* The storage always comes to rest: every append is answered, every barrier
\* fires, and closing ends (uvMaybeFireCloseCb calls back).  The one exception is
\* a close that finds the current segment idle and another one ready behind it:
\* uvAppendClose stops at that one, which stays for ever.
AlwaysSettles ==
  []<>(Idle /\ (uv.closing => Closed \/ SegIds(uv) = <<uv.left>>))
==============================================================================
