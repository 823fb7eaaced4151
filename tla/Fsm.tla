-------------------------------- MODULE Fsm --------------------------------
(***************************************************************************)
(* The state machine that raft drives (src/src/fsm.c), on one database:    *)
(* v is its record of the VFS, b the part of struct db the state machine   *)
(* uses.  disk tells the on-disk variant from the in-memory one.           *)
(***************************************************************************)
EXTENDS Sqlite

(* struct db after db__init.  The connection of the follower is closed    *)
(* before the function that opened it returns.                            *)
db__init == [tx_id |-> 0, read_lock |-> FALSE]

databaseReadLock(b) == [b EXCEPT !.read_lock = TRUE]

databaseReadUnlock(b) == [b EXCEPT !.read_lock = FALSE]

(* A connection of the follower, x, is closed again. *)
Closed(x) == CloseConn(x.v, x.s)

db__open_follower(disk, v) == OpenConn(disk, v)

(* xAccess, and the creation of a database that is not there. *)
Existing(disk, v) == IF v.exists THEN v ELSE Closed(db__open_follower(disk, v))

(* Try the locks one by one and give each back at once. *)
TryLock(v, l) ==
    IF CanLock(v, l, TRUE)
    THEN vfsFileShmUnlock(vfsFileShmLock(v, l, TRUE), l, TRUE)
    ELSE v

AllFree(v) == \A l \in Lock : CanLock(v, l, TRUE)

(* Mutant of CheckpointFree: a checkpoint whoever reads. *)
CheckpointFreeAnyway(disk, threshold, o) ==
    IF vfsWalFileSize(o) < threshold \/ ~CanLock(o, "WRITE", TRUE) THEN o
    ELSE Checkpoint(disk, o)

(* The checkpoint of the follower connection, if the WAL is large enough  *)
(* and nobody reads or writes.                                            *)
CheckpointFree(disk, threshold, o) ==
    IF vfsWalFileSize(o) < threshold THEN o
    ELSE IF ~AllFree(o) THEN TryLock(vfsShmUnmap(vfsShmMap(o)), "WRITE")
    ELSE Checkpoint(disk, TryLock(vfsShmUnmap(vfsShmMap(o)), "WRITE"))

WithFollower(disk, threshold, o) ==
    CloseConn(CheckpointFree(disk, threshold, o.v), o.s)

(* Mutant of maybeCheckpoint: a checkpoint during a snapshot. *)
maybeCheckpointUnlocked(disk, threshold, v, b) ==
    WithFollower(disk, threshold, db__open_follower(disk, v))

(* Not while a snapshot holds the database. *)
maybeCheckpoint(disk, threshold, v, b) ==
    IF b.read_lock \/ ~CanRead(v) THEN v
    ELSE WithFollower(disk, threshold, db__open_follower(disk, v))

(* A committed FRAMES command. *)
apply_frames(disk, threshold, v, b, pages) ==
    maybeCheckpoint(disk, threshold, VfsApply(Existing(disk, v), pages), b)

(* A snapshot is refused while a transaction or a snapshot is in progress. *)
SnapshotBusy(b) == b.tx_id # 0 \/ b.read_lock

(* What a snapshot of a database holds: the number of pages it refers to, *)
(* and a copy of the WAL.  On disk the file is mapped in a second step.    *)
encodeDatabase(v) == VfsShallowSnapshot(v)

encodeDiskDatabaseSync(v) == [n |-> -1, wal |-> VfsDiskSnapshotWal(v)]

encodeDiskDatabaseAsync(v, s) == [s EXCEPT !.n = VfsDiskSnapshotDb(v)]

(* Restore one database of a snapshot. *)
decodeDatabase(v, s) == VfsRestore(Existing(FALSE, v), s)

decodeDiskDatabase(v, s) == VfsDiskRestore(Existing(TRUE, v), s)
=============================================================================
