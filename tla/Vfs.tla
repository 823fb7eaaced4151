-------------------------------- MODULE Vfs --------------------------------
(***************************************************************************)
(* The volatile SQLite VFS of dqlite (src/src/vfs.c): operators on the     *)
(* record that stands for a struct vfsDatabase.  A page is its content, a  *)
(* transaction id; the WAL index header is mxFrame alone, or Invalid; the  *)
(* eight shared memory locks are the write lock, the checkpoint lock and   *)
(* one read lock.  A failed assert() of the code clears the field ok.      *)
(***************************************************************************)
EXTENDS Integers, Sequences, FiniteSets

Lock == {"WRITE", "CKPT", "READ"}

(* The WAL index header of a new region, or one that was invalidated: the *)
(* next reader rebuilds it from the WAL.                                  *)
Invalid == -1

(* struct vfsShm after vfsShmInit. *)
vfsShmInit ==
    [regions   |-> 0,
     refcount  |-> 0,
     shared    |-> [l \in Lock |-> 0],
     exclusive |-> [l \in Lock |-> 0],
     index     |-> Invalid]

(* struct vfsWal after vfsWalInit; hdr: the header holds a page size. *)
vfsWalInit == [hdr |-> FALSE, frames |-> <<>>, tx |-> <<>>]

(* struct vfsDatabase after vfsDatabaseInit.  exists: the VFS knows it. *)
vfsDatabaseInit ==
    [exists |-> FALSE,
     pages  |-> <<>>,
     shm    |-> vfsShmInit,
     wal    |-> vfsWalInit,
     ok     |-> TRUE]

(* assert(p) *)
Check(v, p) == [v EXCEPT !.ok = @ /\ p]

(* A frame: a page number, the page, and the database size of a commit. *)
Frame(pgno, val, commit) == [pgno |-> pgno, val |-> val, commit |-> commit]

LastFrame(frames) == frames[Len(frames)]

---------------------------------------------------------------------------
(* Main database file *)

(* A write of one page; only the page after the last one can be added. *)
vfsDatabaseWrite(v, pgno, val) ==
    IF pgno > Len(v.pages) + 1 THEN v
    ELSE [v EXCEPT !.pages =
            IF pgno <= Len(@) THEN [@ EXCEPT ![pgno] = val] ELSE Append(@, val)]

(* On disk, the file grows to the page and the page count follows. *)
vfsDiskFileWrite(v, pgno, val) ==
    LET n == IF pgno > Len(v.pages) THEN pgno ELSE Len(v.pages)
    IN  [v EXCEPT !.pages =
            [i \in 1..n |-> IF i = pgno THEN val
                            ELSE IF i <= Len(v.pages) THEN v.pages[i] ELSE 0]]

(* The write method of the VFS that is in use. *)
WritePage(disk, v, pgno, val) ==
    IF disk THEN vfsDiskFileWrite(v, pgno, val) ELSE vfsDatabaseWrite(v, pgno, val)

vfsDatabaseTruncate(v) == [v EXCEPT !.pages = <<>>]

(* xOpen of the main file: a new database object if there is none. *)
vfsOpen(v) == [v EXCEPT !.exists = TRUE]

---------------------------------------------------------------------------
(* Write-ahead log *)

(* The place of frame n in the running transaction. *)
InTransaction(v, n) == n - Len(v.wal.frames)

(* Get the frame n, growing the transaction if it is the next one; any    *)
(* other one must be there.                                               *)
vfsWalFrameGet(v, n) ==
    IF InTransaction(v, n) = Len(v.wal.tx) + 1
    THEN [v EXCEPT !.wal.tx = Append(@, Frame(0, 0, 0)), !.wal.hdr = TRUE]
    ELSE Check(v, InTransaction(v, n) \in DOMAIN v.wal.tx)

(* xWrite of the header and the page of frame n; it fails, changing       *)
(* nothing, behind the next frame.                                        *)
vfsWalWrite(v, n, f) ==
    LET w   == vfsWalFrameGet(v, n)
        own == InTransaction(v, n)
    IN  IF own > Len(v.wal.tx) + 1 THEN v
        ELSE IF own \in DOMAIN w.wal.tx THEN [w EXCEPT !.wal.tx[own] = f]
        ELSE w

(* xTruncate of the WAL, always to zero; the transaction is left alone. *)
vfsWalTruncate(v) == [v EXCEPT !.wal.frames = <<>>]

(* Frames that xFileSize counts: the ones of a transaction are not in it. *)
vfsWalFileSize(v) == Len(v.wal.frames)

(* Mutant of vfsWalRollbackIfUncommitted: the frames stay. *)
vfsWalRollbackNever(v) == v

(* Releasing the write lock drops a transaction without commit marker. *)
vfsWalRollbackIfUncommitted(v) ==
    IF v.wal.tx # <<>> /\ LastFrame(v.wal.tx).commit = 0
    THEN [v EXCEPT !.wal.tx = <<>>]
    ELSE v

---------------------------------------------------------------------------
(* Shared memory *)

vfsShmReset(v) == [v EXCEPT !.shm = vfsShmInit]

(* Map region 0, allocating it (all zeros) if no connection has yet. *)
vfsShmMap(v) ==
    [v EXCEPT !.shm.regions = 1, !.shm.refcount = @ + 1]

(* Mutant of vfsShmUnmap: the shared memory stays when the last one leaves. *)
vfsShmUnmapLeak(v) == v

vfsShmUnmap(v) ==
    IF v.shm.refcount = 1 THEN vfsShmReset(v)
    ELSE [v EXCEPT !.shm.refcount = @ - 1]

(* Whether vfsShmLock succeeds, and the state it leaves then. *)
CanLock(v, l, exclusive) ==
    /\ v.shm.exclusive[l] = 0
    /\ exclusive => v.shm.shared[l] = 0

vfsShmLock(v, l, exclusive) ==
    IF exclusive THEN [v EXCEPT !.shm.exclusive[l] = 1]
    ELSE [v EXCEPT !.shm.shared[l] = @ + 1]

(* Releasing a lock that is not held is legal and changes nothing. *)
vfsShmUnlock(v, l, exclusive) ==
    IF exclusive
    THEN Check([v EXCEPT !.shm.exclusive[l] = 0], v.shm.shared[l] = 0)
    ELSE Check([v EXCEPT !.shm.shared[l] = IF @ > 0 THEN @ - 1 ELSE 0],
               v.shm.exclusive[l] = 0)

(* xShmLock, for a lock that CanLock grants: the write lock is only taken *)
(* when every transaction was polled or rolled back.                      *)
vfsFileShmLock(v, l, exclusive) ==
    Check(vfsShmLock(v, l, exclusive), l = "WRITE" => v.wal.tx = <<>>)

vfsFileShmUnlock(v, l, exclusive) ==
    IF l = "WRITE"
    THEN vfsWalRollbackIfUncommitted(vfsShmUnlock(v, l, exclusive))
    ELSE vfsShmUnlock(v, l, exclusive)

(* Set mxFrame to the committed frames: hides the frames of a transaction *)
(* that was just written, shows the ones that were just applied.          *)
vfsAmendWalIndexHeader(v) ==
    Check([v EXCEPT !.shm.index = Len(v.wal.frames)],
          v.shm.regions > 0 /\ v.shm.index # Invalid)

vfsFileControlCommitPhaseTwo(v) ==
    IF v.wal.tx # <<>> THEN vfsAmendWalIndexHeader(v) ELSE v

(* Force the next reader to rebuild the index; no lock may be held. *)
vfsInvalidateWalIndexHeader(v) ==
    Check([v EXCEPT !.shm.index = Invalid],
          \A l \in Lock : v.shm.shared[l] = 0 /\ v.shm.exclusive[l] = 0)

---------------------------------------------------------------------------
(* Replication of transactions *)

(* Frames that vfsWalPoll hands out: a transaction with a commit marker. *)
vfsWalPoll(v) ==
    IF v.wal.tx # <<>> /\ LastFrame(v.wal.tx).commit > 0 THEN v.wal.tx ELSE <<>>

(* Take the transaction out of the WAL and, if there is one, the write    *)
(* lock, which stays until VfsApply or VfsAbort; rv: the lock was free.   *)
VfsPoll(v) ==
    LET frames == vfsWalPoll(v)
        taken  == [v EXCEPT !.wal.tx = <<>>]
    IN  IF frames = <<>> THEN [v |-> v, frames |-> <<>>, rv |-> TRUE]
        ELSE IF ~CanLock(v, "WRITE", TRUE)
        THEN [v |-> taken, frames |-> frames, rv |-> FALSE]
        ELSE [v |-> vfsAmendWalIndexHeader(vfsShmLock(taken, "WRITE", TRUE)),
              frames |-> frames, rv |-> TRUE]

(* Size of the database before any of the new frames. *)
StartSize(v) ==
    IF v.wal.frames = <<>> THEN Len(v.pages) ELSE LastFrame(v.wal.frames).commit

(* Append pages, a sequence of <<page number, content>>, as committed     *)
(* frames: the last one carries the size of the database.                 *)
vfsWalAppend(v, pages) ==
    LET nos    == {pages[i][1] : i \in DOMAIN pages} \cup {StartSize(v)}
        size   == CHOOSE n \in nos : \A m \in nos : m <= n
        frames == [i \in DOMAIN pages |->
                     Frame(pages[i][1], pages[i][2],
                           IF i = Len(pages) THEN size ELSE 0)]
    IN  Check([v EXCEPT !.wal.frames = @ \o frames],
              v.wal.tx = <<>> /\ v.wal.hdr)

vfsWalStartHeader(v) ==
    Check([v EXCEPT !.wal.hdr = TRUE], v.pages # <<>>)

(* Mutant of VfsApply: another node keeps its WAL index. *)
VfsApplyNoInvalidate(v, pages) ==
    LET a == vfsWalAppend(IF v.wal.hdr THEN v ELSE vfsWalStartHeader(v), pages)
    IN  IF a.shm.exclusive["WRITE"] = 1
        THEN vfsAmendWalIndexHeader([a EXCEPT !.shm.exclusive["WRITE"] = 0])
        ELSE a

(* Apply replicated pages.  The write lock tells the VFS the transaction  *)
(* came from, which shows the frames; another one rebuilds its index.     *)
VfsApply(v, pages) ==
    LET a == vfsWalAppend(IF v.wal.hdr THEN v ELSE vfsWalStartHeader(v), pages)
    IN  IF a.shm.exclusive["WRITE"] = 1
        THEN vfsAmendWalIndexHeader([a EXCEPT !.shm.exclusive["WRITE"] = 0])
        ELSE IF a.shm.regions > 0 THEN vfsInvalidateWalIndexHeader(a) ELSE a

(* Mutant of VfsAbort: the lock is kept. *)
VfsAbortKeepLock(v) == v

(* Give up the transaction that was polled. *)
VfsAbort(v) == vfsShmUnlock(v, "WRITE", TRUE)

---------------------------------------------------------------------------
(* Snapshots: the pages (referenced, not copied) and a copy of the WAL *)

vfsWalSnapshot(v) == v.wal.frames

VfsShallowSnapshot(v) == [n |-> Len(v.pages), wal |-> vfsWalSnapshot(v)]

VfsDiskSnapshotWal(v) == vfsWalSnapshot(v)

VfsDiskSnapshotDb(v) == Len(v.pages)

vfsDatabaseRestore(v, pages) ==
    [vfsDatabaseTruncate(v) EXCEPT !.pages = pages]

vfsDiskDatabaseRestore(v, pages) == [v EXCEPT !.pages = pages]

vfsWalRestore(v, frames) ==
    IF frames = <<>> THEN v
    ELSE Check([v EXCEPT !.wal.frames = frames, !.wal.hdr = TRUE], v.wal.tx = <<>>)

(* Replace the content; the WAL index header is left as it was. *)
VfsRestore(v, s) ==
    vfsWalRestore(vfsDatabaseRestore(vfsWalTruncate(v), s.pages), s.wal)

VfsDiskRestore(v, s) ==
    vfsWalRestore(vfsDiskDatabaseRestore(vfsWalTruncate(v), s.pages), s.wal)

---------------------------------------------------------------------------
(* What a reader sees that takes the first mx frames of the WAL into      *)
(* account: the last frame of every page, or the page of the main file.   *)
View(pages, frames, mx) ==
    LET used    == SubSeq(frames, 1, mx)
        size    == IF used = <<>> THEN Len(pages) ELSE LastFrame(used).commit
        of(p)   == {i \in DOMAIN used : used[i].pgno = p}
        last(p) == CHOOSE i \in of(p) : \A j \in of(p) : j <= i
    IN  [p \in 1..size |-> IF of(p) # {} THEN used[last(p)].val
                           ELSE IF p <= Len(pages) THEN pages[p] ELSE 0]
=============================================================================
