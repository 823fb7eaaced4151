------------------------------- MODULE Sqlite -------------------------------
(***************************************************************************)
(* SQLite in WAL mode, as far as dqlite relies on it: what a connection    *)
(* does through the methods of the VFS when a statement is stepped, reset  *)
(* or finalized, and when it is opened, checkpointed or closed.  The       *)
(* library is not part of the repository.                                  *)
(*                                                                         *)
(* The state s of a connection: mapped, whether it opened the WAL and its  *)
(* shared memory; tx, the locks it holds; explicit, whether                *)
(* it is inside BEGIN; mx, the frames of the WAL its snapshot covers;      *)
(* dirty, the content that a transaction wrote (0: none); live, a          *)
(* statement that returned a row and was not reset; seen, the content of   *)
(* the database when the snapshot was taken.                               *)
(*                                                                         *)
(* Statements: "read" (SELECT), "write" (it changes pages 1 and 2),        *)
(* "returning" (the same, with a row), "begin" (deferred), "commit" and    *)
(* "rollback".  Results: "row", "done", "busy", "error".                   *)
(***************************************************************************)
EXTENDS Vfs

Idle == [mapped |-> FALSE, tx |-> "none", explicit |-> FALSE, mx |-> 0, dirty |-> 0,
         live |-> FALSE, seen |-> <<>>]

(* Outside of a transaction. *)
AtRest(s) == [Idle EXCEPT !.mapped = s.mapped]

Result(v, s, rc) == [v |-> v, s |-> s, rc |-> rc]

(* The statements that sqlite3_stmt_readonly() calls read-only. *)
ReadOnly(kind) == kind \in {"read", "begin", "commit", "rollback"}

(* Rebuild an invalid WAL index, under the write lock. *)
CanRead(v) == v.shm.index # Invalid \/ CanLock(v, "WRITE", TRUE)

Recovered(v) ==
    IF v.shm.index # Invalid THEN v
    ELSE vfsFileShmUnlock(
           [vfsFileShmLock(v, "WRITE", TRUE) EXCEPT !.shm.index = vfsWalFileSize(v)],
           "WRITE", TRUE)

(* Take a snapshot, for a connection that has none. *)
Snapshot(v, s) ==
    Result(vfsFileShmLock(v, "READ", FALSE),
           [s EXCEPT !.tx = "read", !.mx = v.shm.index,
                     !.seen = View(v.pages, v.wal.frames, v.shm.index)],
           "done")

BeginRead(v, s) ==
    IF s.tx # "none" THEN Result(v, s, "done")
    ELSE IF ~CanRead(v) THEN Result(v, s, "busy")
    ELSE Snapshot(Recovered(IF s.mapped THEN v ELSE vfsShmMap(v)),
                  [s EXCEPT !.mapped = TRUE])

(* Upgrade to a writer: only if the snapshot is the latest. *)
BeginWrite(r, s) ==
    IF r.rc = "busy" \/ r.s.tx = "write" THEN r
    ELSE IF ~CanLock(r.v, "WRITE", TRUE) \/ r.s.mx # r.v.shm.index
    THEN Result(IF s.tx = "none" THEN vfsFileShmUnlock(r.v, "READ", FALSE) ELSE r.v,
                [s EXCEPT !.mapped = TRUE], "busy")
    ELSE Result(vfsFileShmLock(r.v, "WRITE", TRUE), [r.s EXCEPT !.tx = "write"], "done")

(* Release the locks; a writer's frames without commit marker go. *)
Release(v, s) ==
    LET w == IF s.tx = "write" THEN vfsFileShmUnlock(v, "WRITE", TRUE) ELSE v
    IN  IF s.tx = "none" THEN v ELSE vfsFileShmUnlock(w, "READ", FALSE)

(* The cache is full: the first page goes to the WAL before the commit. *)
Spill(v, s) == vfsWalWrite(v, s.mx + 1, Frame(1, s.dirty, 0))

(* Write the frames and the WAL index header; then the write lock is      *)
(* released, the second phase of the commit runs, the read lock goes.     *)
CommitFrames(v, s) ==
    LET w == vfsWalWrite(vfsWalWrite(v, s.mx + 1, Frame(1, s.dirty, 0)),
                         s.mx + 2, Frame(2, s.dirty, 2))
        x == [w EXCEPT !.shm.index = s.mx + 2]
    IN  vfsFileShmUnlock(
          vfsFileControlCommitPhaseTwo(vfsFileShmUnlock(x, "WRITE", TRUE)),
          "READ", FALSE)

EndTransaction(v, s) ==
    IF s.tx = "write" /\ s.dirty # 0 THEN CommitFrames(v, s) ELSE Release(v, s)

(* A statement ends, by itself or by sqlite3_reset or sqlite3_finalize:   *)
(* outside of BEGIN this ends the transaction.                            *)
Halt(v, s) ==
    IF s.explicit THEN Result(v, [s EXCEPT !.live = FALSE], "done")
    ELSE Result(EndTransaction(v, s), AtRest(s), "done")

Written(r, val, spill) ==
    LET s == [r.s EXCEPT !.dirty = IF @ = 0 THEN val ELSE @]
    IN  Result(IF spill THEN Spill(r.v, s) ELSE r.v, s, "done")

(* A statement that changes the database; spill: its page is written     *)
(* early.  One that returns a row does not end.                           *)
StepWrite(r, kind, val, spill) ==
    IF r.rc = "busy" THEN r
    ELSE LET w == Written(r, val, spill)
         IN  IF kind = "returning" THEN Result(w.v, [w.s EXCEPT !.live = TRUE], "row")
             ELSE Halt(w.v, w.s)

(* A query returns rows once, and is done when it is stepped again. *)
StepRead(r, rows) ==
    IF r.rc = "busy" THEN r
    ELSE IF rows /\ ~r.s.live THEN Result(r.v, [r.s EXCEPT !.live = TRUE], "row")
    ELSE Halt(r.v, r.s)

(* sqlite3_step *)
Step(v, s, kind, val, rows, spill) ==
    CASE kind = "read"     -> StepRead(BeginRead(v, s), rows)
      [] kind = "begin"    -> Result(v, [s EXCEPT !.explicit = TRUE],
                                     IF s.explicit THEN "error" ELSE "done")
      [] kind = "commit"   -> IF s.explicit
                              THEN Result(EndTransaction(v, s), AtRest(s), "done")
                              ELSE Result(v, s, "error")
      [] kind = "rollback" -> IF s.explicit
                              THEN Result(Release(v, s), AtRest(s), "done")
                              ELSE Result(v, s, "error")
      [] OTHER             -> StepWrite(BeginWrite(BeginRead(v, s), s), kind, val,
                                        spill /\ s.explicit)

(* sqlite3_open_v2 and the pragmas.  The first connection writes page 1,  *)
(* through a rollback journal; later ones find a database in WAL mode, map *)
(* the shared memory, and rebuild the WAL index if that is needed.         *)
OpenConn(disk, v) ==
    IF v.pages = <<>>
    THEN Result(WritePage(disk, vfsOpen(v), 1, 0), Idle, "done")
    ELSE Result(Recovered(vfsShmMap(vfsOpen(v))), [Idle EXCEPT !.mapped = TRUE], "done")

(* sqlite3_close: rolls back. *)
CloseConn(v, s) ==
    IF s.mapped THEN vfsShmUnmap(Release(v, s)) ELSE Release(v, s)

(* sqlite3_wal_checkpoint_v2, TRUNCATE, with no other reader or writer:   *)
(* the pages of the WAL go to the main file and the WAL is truncated.     *)
Checkpoint(disk, v) ==
    LET view == View(v.pages, v.wal.frames, v.shm.index)
        w[i \in 0..Len(view)] ==
            IF i = 0 THEN vfsFileShmLock(v, "WRITE", TRUE)
            ELSE WritePage(disk, w[i - 1], i, view[i])
    IN  vfsFileShmUnlock([vfsWalTruncate(w[Len(view)]) EXCEPT !.shm.index = 0],
                         "WRITE", TRUE)
=============================================================================
