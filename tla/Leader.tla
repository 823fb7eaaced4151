------------------------------- MODULE Leader -------------------------------
(***************************************************************************)
(* Leader connections (src/src/leader.c): execution of statements on the   *)
(* leader, replication of the frames they produce, and barriers.           *)
(*                                                                         *)
(* The loop thread of a dqlite node runs one callback at a time.  call is  *)
(* what remains of the current one: the functions still to be called, in   *)
(* order, each with its connection and status.  A function is an action    *)
(* that is enabled when it is first; events happen when call is empty.     *)
(***************************************************************************)
EXTENDS Fsm

CONSTANTS
    Conn,           \* client connections
    Db,             \* database files
    NoConn, NoDb,   \* none of them
    Scenarios       \* a function: what clients and raft do, see Node

VARIABLES
    scenario,       \* the one of this behaviour
    call,           \* what is left of the current callback
    raft,           \* state, unapplied log, pending transfer and change
    conn,           \* struct conn with its gateway and leader
    vfs,            \* struct vfsDatabase of every file
    db,             \* struct db of every file
    registry,       \* the databases in struct registry, in order
    snap,           \* the snapshot that raft is taking
    ok,             \* no assertion failed
    bound,          \* requests, transactions and events that are left
    ref,            \* what the applied transactions make of every database
    applied,        \* transactions that were applied
    acked           \* transactions that a client was told are committed

ghosts == <<ref, applied, acked>>

files == <<vfs, db, registry>>

vars == <<scenario, call, raft, conn, vfs, db, registry, snap, ok, bound,
          ref, applied, acked>>

(* A function to call. *)
Fn(fn, c, st) == [fn |-> fn, c |-> c, st |-> st]

(* The function fn is next; it ends by calling the functions fns. *)
Enter(fn) == call # <<>> /\ Head(call).fn = fn

Leave(fns) == call' = fns \o Tail(call)

(* The connection and the status of the function that is next. *)
self == Head(call).c

status == Head(call).st

(* What the scenario of this behaviour gives. *)
Given == Scenarios[scenario]

Disk == Given.disk

(* struct conn before conn__start: io is the state of the transport, req   *)
(* the type of g->req, d the database of g->leader, stmt the prepared      *)
(* statement of the registry, sql the statements that are left, tmp a      *)
(* statement that is not in the registry, gbar and ebar the callbacks of   *)
(* the two barriers, exec the callback of g->exec, inflight the pending    *)
(* apply request, vals the transactions replicated, q the SQLite connection. *)
ConnInit ==
    [io |-> "none", req |-> "none", d |-> NoDb, stmt |-> "none", sql |-> <<>>,
     tmp |-> "none", gbar |-> "none", ebar |-> "none", exec |-> "none",
     inflight |-> FALSE, vals |-> {}, q |-> Idle]

---------------------------------------------------------------------------
(* The raft API *)

(* raft_apply and raft_barrier refuse during a transfer of leadership. *)
CanSubmit == raft.state = "leader" /\ raft.transfer = NoConn

(* An entry of the log: its command, database and transaction, and the    *)
(* connection whose callback waits for it.                                *)
Entry(cmd, d, val, c) == [cmd |-> cmd, d |-> d, val |-> val, c |-> c]

Submit(e) == raft' = [raft EXCEPT !.log = Append(@, e)]

(* Mutant of needsBarrier: statements run before the log is applied. *)
needsBarrierNever(c) == FALSE

(* last_applied < last_index, and no transaction is being replicated. *)
needsBarrier(c) == db[conn[c].d].tx_id = 0 /\ raft.log # <<>>

(* A barrier of connection c: r is its record as the caller left it, which *)
(* the barrier to use, cb the callback; failed and fns: what the caller    *)
(* makes of an error.  busy: leader__exec finds another execution.         *)
Barrier(c, r, which, cb, failed, fns, busy) ==
    \/ /\ ~busy /\ ~needsBarrier(c)
       /\ conn' = [conn EXCEPT ![c] = r]
       /\ Leave(<<Fn(cb, c, "ok")>>)
       /\ UNCHANGED raft
    \/ /\ ~busy /\ needsBarrier(c) /\ CanSubmit
       /\ conn' = [conn EXCEPT ![c] = IF which = "gbarrier"
                                      THEN [r EXCEPT !.gbar = cb]
                                      ELSE [r EXCEPT !.ebar = cb]]
       /\ Submit(Entry(which, NoDb, 0, c))
       /\ Leave(<<>>)
    \/ /\ busy \/ (needsBarrier(c) /\ ~CanSubmit)
       /\ conn' = [conn EXCEPT ![c] = failed]
       /\ Leave(fns)
       /\ UNCHANGED raft

(* A barrier with the callback cb of the gateway. *)
leader__barrier(c, r, cb, failed, fns) ==
    Barrier(c, r, "gbarrier", cb, failed, fns, FALSE)

(* Execute the statement tmp, or else stmt, of connection c. *)
leader__exec(c, r, cb, failed, fns) ==
    Barrier(c, [r EXCEPT !.exec = cb], "ebarrier", "execBarrierCb", failed, fns,
            conn[c].exec # "none")

(* The callback of a barrier, from raft or from gateway__leader_close: the *)
(* second call does nothing.                                               *)
raftBarrierCb(fn, field) ==
    /\ Enter(fn)
    /\ conn' = [conn EXCEPT ![self].gbar = IF field = "gbar" THEN "none" ELSE @,
                            ![self].ebar = IF field = "ebar" THEN "none" ELSE @]
    /\ Leave(IF conn[self][field] = "none" THEN <<>>
             ELSE <<Fn(conn[self][field], self,
                       IF status \in {"ok", "lost"} THEN status ELSE "error")>>)
    /\ UNCHANGED <<scenario, raft, files, snap, ok, bound, ghosts>>

---------------------------------------------------------------------------
(* Execution *)

(* The execution of connection c ended with st. *)
leaderExecDone(c, r, st) ==
    /\ conn' = [conn EXCEPT ![c] = [r EXCEPT !.exec = "none"]]
    /\ Leave(<<Fn(conn[c].exec, c, st)>>)

execBarrierCb ==
    /\ Enter("execBarrierCb")
    /\ IF status # "ok"
       THEN leaderExecDone(self, conn[self], status)
       ELSE /\ Leave(<<Fn("leaderExecV2", self, "ok")>>)
            /\ UNCHANGED conn
    /\ UNCHANGED <<scenario, raft, files, snap, ok, bound, ghosts>>

(* The statement that g->exec executes. *)
ExecStmt(c) == IF conn[c].tmp # "none" THEN conn[c].tmp ELSE conn[c].stmt

(* The transaction that the frames belong to. *)
ValOf(frames) == frames[1].val

(* Submit the polled frames; raft refuses them during a transfer. *)
leaderApplyFrames(c, p, s) ==
    /\ CanSubmit
    /\ Submit(Entry("frames", conn[c].d, ValOf(p.frames), c))
    /\ conn' = [conn EXCEPT ![c].inflight = TRUE, ![c].vals = @ \cup {ValOf(p.frames)}, ![c].q = s]
    /\ db' = [db EXCEPT ![conn[c].d].tx_id = 1]
    /\ vfs' = [vfs EXCEPT ![conn[c].d] = p.v]
    /\ Leave(<<>>)

(* Step the statement, then poll the VFS for the frames of a transaction   *)
(* that it committed.  Either there are none, or they are too many for the *)
(* size limit of the database, or they are submitted to raft.              *)
leaderExecV2 ==
    /\ Enter("leaderExecV2")
    /\ \E rows, spill, full \in BOOLEAN :
         /\ full => "full" \in Given.events
         /\ spill => conn[self].q.explicit
         /\ rows => ExecStmt(self) = "read"
         /\ \E x \in {Step(vfs[conn[self].d], conn[self].q, ExecStmt(self), bound.tx + 1,
                           rows, spill)} :
            \E p \in {VfsPoll(x.v)} :
              \/ /\ p.frames = <<>> \/ ~p.rv
                 /\ ~full
                 /\ vfs' = [vfs EXCEPT ![conn[self].d] = p.v]
                 /\ leaderExecDone(self, [conn[self] EXCEPT !.q = x.s],
                                   IF p.rv THEN x.rc ELSE "busy")
                 /\ UNCHANGED <<raft, db>>
              \/ /\ p.frames # <<>> /\ p.rv
                 /\ full \/ ~CanSubmit
                 /\ vfs' = [vfs EXCEPT ![conn[self].d] = VfsAbort(p.v)]
                 /\ leaderExecDone(self, [conn[self] EXCEPT !.q = x.s],
                                   IF full THEN "full" ELSE "notleader")
                 /\ UNCHANGED <<raft, db>>
              \/ /\ p.frames # <<>> /\ p.rv
                 /\ ~full
                 /\ leaderApplyFrames(self, p, x.s)
    /\ bound' = [bound EXCEPT !.tx = IF ExecStmt(self) \in {"write", "returning"}
                                     THEN @ + 1 ELSE @]
    /\ UNCHANGED <<scenario, registry, snap, ok, ghosts>>

(* For old nodes, a checkpoint command after the WAL was truncated here. *)
leaderMaybeCheckpointLegacy(c) ==
    IF vfsWalFileSize(vfs[conn[c].d]) = 0 /\ CanSubmit
    THEN Submit(Entry("checkpoint", conn[c].d, 0, NoConn))
    ELSE UNCHANGED raft

(* The requests of connection self are forgotten by raft. *)
ForgetFrames ==
    raft' = [raft EXCEPT !.log =
               [i \in DOMAIN @ |-> IF @[i].cmd = "frames" /\ @[i].c = self
                                   THEN [@[i] EXCEPT !.c = NoConn] ELSE @[i]]]

(* Mutant of leaderApplyFramesCb: a failure is reported as success. *)
leaderApplyFramesCbLost ==
    /\ Enter("leaderApplyFramesCb")
    /\ IF status = "ok" THEN UNCHANGED vfs
       ELSE vfs' = [vfs EXCEPT ![conn[self].d] = VfsAbort(@)]
    /\ db' = [db EXCEPT ![conn[self].d].tx_id = 0]
    /\ leaderExecDone(self, [conn[self] EXCEPT !.inflight = FALSE], "done")
    /\ UNCHANGED <<scenario, raft, registry, snap, ok, bound, ghosts>>

(* raft is done with the frames; or they are given up by gateway__close,  *)
(* and the callback that raft still makes finds no leader.                *)
leaderApplyFramesCb ==
    /\ Enter("leaderApplyFramesCb")
    /\ \/ /\ status = "ok"
          /\ leaderMaybeCheckpointLegacy(self)
          /\ UNCHANGED vfs
       \/ /\ status \in {"lost", "ioerr"}
          /\ vfs' = [vfs EXCEPT ![conn[self].d] = VfsAbort(@)]
          /\ UNCHANGED raft
       \/ /\ status = "shutdown"
          /\ ForgetFrames
          /\ UNCHANGED vfs
    /\ db' = [db EXCEPT ![conn[self].d].tx_id = 0]
    /\ leaderExecDone(self, [conn[self] EXCEPT !.inflight = FALSE],
                      CASE status = "ok" -> "done"
                        [] status = "shutdown" -> "abort"
                        [] OTHER -> status)
    /\ UNCHANGED <<scenario, registry, snap, ok, bound, ghosts>>

---------------------------------------------------------------------------
(* Opening and closing *)

leader__init(d) == OpenConn(Disk, vfs[d])

(* A connection that closes with an execution in progress fails it first. *)
leader__close ==
    /\ Enter("leader__close")
    /\ ok' = (ok /\ (conn[self].exec # "none" => ~conn[self].inflight))
    /\ IF conn[self].exec # "none"
       THEN /\ conn' = [conn EXCEPT ![self].exec = "none"]
            /\ Leave(<<Fn(conn[self].exec, self, "error"),
                       Fn("sqlite3_close", self, "ok")>>)
       ELSE /\ Leave(<<Fn("sqlite3_close", self, "ok")>>)
            /\ UNCHANGED conn
    /\ UNCHANGED <<scenario, raft, files, snap, bound, ghosts>>

(* It must succeed, which means that every statement was finalized. *)
sqlite3_close ==
    /\ Enter("sqlite3_close")
    /\ ok' = (ok /\ conn[self].stmt = "none" /\ conn[self].tmp = "none")
    /\ vfs' = [vfs EXCEPT ![conn[self].d] = CloseConn(@, conn[self].q)]
    /\ conn' = [conn EXCEPT ![self].d = NoDb, ![self].q = Idle]
    /\ Leave(<<>>)
    /\ UNCHANGED <<scenario, raft, db, registry, snap, bound, ghosts>>

LeaderNext ==
    \/ raftBarrierCb("raftBarrierCb", "gbar")
    \/ raftBarrierCb("raftBarrierCbExec", "ebar")
    \/ execBarrierCb
    \/ leaderExecV2
    \/ leaderApplyFramesCb
    \/ leader__close
    \/ sqlite3_close
=============================================================================
