-------------------------------- MODULE Node --------------------------------
(***************************************************************************)
(* A dqlite node: client connections (src/src/conn.c) and the server       *)
(* (src/src/server.c) around the gateways, and the events that raft, the   *)
(* clients and the application cause.  raft is abstract here: which of the *)
(* entries are committed, and when leadership changes, is arbitrary.       *)
(*                                                                         *)
(* A scenario: disk, the kind of VFS; threshold, the frames from which a   *)
(* WAL is checkpointed; requests, what clients may ask; events, what may   *)
(* happen; maxReq, maxEv, maxLog, maxConn, the bounds of all this.         *)
(***************************************************************************)
EXTENDS Gateway

(* The requests that gateway__handle dispatches, but for DESCRIBE. *)
RequestTypes ==
    {"handle_leader", "handle_client", "handle_cluster", "handle_weight", "handle_dump",
     "handle_open", "handle_interrupt", "handle_prepare", "handle_finalize", "handle_exec",
     "handle_query", "handle_exec_sql", "handle_query_sql", "handle_add",
     "handle_promote_or_assign", "handle_remove", "handle_transfer"}

ASSUME NodeAssumption ==
    /\ IsFiniteSet(Conn) /\ NoConn \notin Conn
    /\ \A s \in DOMAIN Scenarios :
         \A rq \in Scenarios[s].requests : rq.type \in RequestTypes

NoSnap == [phase |-> "none", dbs |-> <<>>]

Init ==
    /\ scenario \in DOMAIN Scenarios
    /\ call = <<>>
    /\ raft = [state |-> "follower", log |-> <<>>, transfer |-> NoConn, change |-> NoConn]
    /\ conn = [c \in Conn |-> ConnInit]
    /\ vfs = [d \in Db |-> vfsDatabaseInit]
    /\ db = [d \in Db |-> db__init]
    /\ registry = <<>>
    /\ snap = NoSnap
    /\ ok = TRUE
    /\ bound = [req |-> 0, tx |-> 0, ev |-> 0, running |-> TRUE]
    /\ ref = [d \in Db |-> <<0>>]
    /\ applied = {}
    /\ acked = {}

(* The loop waits: no callback is running. *)
Waiting == call = <<>> /\ bound.running

(* An event of the scenario, while there may be more. *)
Event(ev) ==
    /\ Waiting
    /\ ev \in Given.events
    /\ bound.ev < Given.maxEv
    /\ bound' = [bound EXCEPT !.ev = @ + 1]

---------------------------------------------------------------------------
(* Connections *)

(* The connections, in the order of the queue. *)
ConnSeq == CHOOSE s \in [1..Cardinality(Conn) -> Conn] : \A i, j \in DOMAIN s : s[i] = s[j] => i = j

(* Connections are interchangeable: a new one is the first that is free. *)
FirstFree(c) ==
    \E i \in DOMAIN ConnSeq :
      ConnSeq[i] = c /\ \A j \in 1..(i - 1) : conn[ConnSeq[j]].io # "none"

(* A client connects, and sends the protocol version. *)
listenCb(c) ==
    /\ Waiting
    /\ conn[c].io = "none" /\ FirstFree(c)
    /\ bound.req < Given.maxReq
    /\ Cardinality({x \in Conn : conn[x].io # "none"}) < Given.maxConn
    /\ conn' = [conn EXCEPT ![c].io = "protocol"]
    /\ UNCHANGED <<scenario, call, raft, files, snap, ok, bound, ghosts>>

read_protocol_cb(c) ==
    /\ Waiting
    /\ conn[c].io = "protocol"
    /\ conn' = [conn EXCEPT ![c].io = "reading"]
    /\ UNCHANGED <<scenario, call, raft, files, snap, ok, bound, ghosts>>

(* A whole request was read; it is dispatched to its handler.  Reading    *)
(* one while another is in progress is an assertion.                      *)
gateway__handle(c, rq) ==
    /\ Waiting
    /\ conn[c].io = "reading"
    /\ bound.req < Given.maxReq
    /\ rq.type = "handle_prepare" => conn[c].stmt = "none"
    /\ bound' = [bound EXCEPT !.req = @ + 1]
    /\ ok' = (ok /\ conn[c].req = "none")
    /\ conn' = [conn EXCEPT ![c].io = "handling"]
    /\ call' = <<Fn(rq.type, c, rq.arg)>>
    /\ UNCHANGED <<scenario, raft, files, snap, ghosts>>

(* The response was written: go on with a query that has more rows, or    *)
(* read the next request.                                                 *)
conn_write_cb(c) ==
    /\ Waiting
    /\ conn[c].io = "writing"
    /\ IF conn[c].req \in {"query", "query_sql"}
       THEN /\ conn' = [conn EXCEPT ![c].io = "handling"]
            /\ call' = <<Fn("query_batch", c, "ok")>>
       ELSE /\ conn' = [conn EXCEPT ![c].io = "reading"]
            /\ UNCHANGED call
    /\ UNCHANGED <<scenario, raft, files, snap, ok, bound, ghosts>>

(* The client is gone: reading or writing fails. *)
Disconnect(c) ==
    /\ Event("disconnect")
    /\ conn[c].io \in {"protocol", "reading", "writing"}
    /\ call' = <<Fn("conn__stop", c, "ok")>>
    /\ UNCHANGED <<scenario, raft, conn, files, snap, ok, ghosts>>

conn__stop ==
    /\ Enter("conn__stop")
    /\ IF conn[self].io \in {"none", "closing"}
       THEN Leave(<<>>) /\ UNCHANGED conn
       ELSE /\ conn' = [conn EXCEPT ![self].io = "closing"]
            /\ Leave(<<Fn("gateway__leader_close", self, "shutdown")>>)
    /\ UNCHANGED <<scenario, raft, files, snap, ok, bound, ghosts>>

(* The transport is closed: the connection is freed. *)
closeCb(c) ==
    /\ call = <<>>
    /\ conn[c].io = "closing"
    /\ conn' = [conn EXCEPT ![c] = ConnInit]
    /\ UNCHANGED <<scenario, call, raft, files, snap, ok, bound, ghosts>>

---------------------------------------------------------------------------
(* Raft: the log *)

(* The callback that waits for an entry. *)
Callback(e, st) ==
    IF e.c = NoConn THEN <<>>
    ELSE <<Fn(CASE e.cmd = "frames"   -> "leaderApplyFramesCb"
                [] e.cmd = "gbarrier" -> "raftBarrierCb"
                [] OTHER              -> "raftBarrierCbExec", e.c, st)>>

(* The sequences of ss, one after the other. *)
Concat(ss) ==
    LET f[n \in 0..Len(ss)] == IF n = 0 THEN <<>> ELSE f[n - 1] \o ss[n]
    IN  f[Len(ss)]

Callbacks(es, st) == Concat([i \in DOMAIN es |-> Callback(es[i], st)])

Pages(val) == <<(<<1, val>>), (<<2, val>>)>>

ChangeCb(st) == IF raft.change = NoConn THEN <<>> ELSE <<Fn("raftChangeCb", raft.change, st)>>

(* Mutant of StepDownCalls: a change of the configuration is forgotten. *)
StepDownCallsNoChange(es, st) ==
    Callbacks(es, "lost") \o <<Fn("convertSetState", NoConn, st)>>

(* The callbacks of a loss of leadership, then the new state. *)
StepDownCalls(es, st) ==
    Callbacks(es, "lost") \o ChangeCb("lost") \o <<Fn("convertSetState", NoConn, st)>>

(* The entries stay, the requests do not. *)
Forgotten(es) == [i \in DOMAIN es |-> [es[i] EXCEPT !.c = NoConn]]

(* A query that is yielding rows when leadership is lost is resumed on a  *)
(* statement that was finalized: only the scenarios that show this have it. *)
YieldingQuery ==
    \E c \in Conn : conn[c].io = "writing" /\ conn[c].req = "query"

(* A transaction is applied to the database, and its callback called. *)
applyCommand(e) ==
    /\ e.cmd = "frames"
    /\ registry' = registry__db_get(e.d)
    /\ vfs' = [vfs EXCEPT ![e.d] = apply_frames(Disk, Given.threshold, @, db[e.d],
                                                Pages(e.val))]
    /\ ref' = [ref EXCEPT ![e.d] = [p \in 1..2 |-> e.val]]
    /\ applied' = applied \cup {e.val}
    /\ raft' = [raft EXCEPT !.log = Tail(@)]
    /\ call' = Callback(e, "ok")

(* A barrier, or a command that does nothing. *)
applyBarrier(e) ==
    /\ e.cmd \in {"gbarrier", "ebarrier", "noop", "checkpoint"}
    /\ raft' = [raft EXCEPT !.log = Tail(@)]
    /\ call' = Callback(e, "ok")
    /\ UNCHANGED <<vfs, registry, ref, applied>>

(* A configuration; a leader that is not in it steps down first. *)
applyChange(e) ==
    /\ e.cmd \in {"change", "remove"}
    /\ call' = IF raft.state # "leader" THEN <<>>
               ELSE IF e.cmd = "change" THEN ChangeCb("ok")
               ELSE Callbacks(Tail(raft.log), "lost")
                    \o <<Fn("convertSetState", NoConn, "follower")>> \o ChangeCb("ok")
    /\ e.cmd = "remove" /\ YieldingQuery => "yield" \in Given.events
    /\ raft' = [raft EXCEPT !.log = IF e.cmd = "change" THEN Tail(@) ELSE Forgotten(Tail(@)),
                            !.change = NoConn]
    /\ UNCHANGED <<vfs, registry, ref, applied>>

replicationApply ==
    /\ Waiting
    /\ raft.log # <<>>
    /\ raft.state # "unavailable"
    /\ \/ applyCommand(Head(raft.log))
       \/ applyBarrier(Head(raft.log))
       \/ applyChange(Head(raft.log))
    /\ UNCHANGED <<scenario, conn, db, snap, ok, bound, acked>>

(* A follower gets an entry from the leader, or drops the ones that the   *)
(* leader does not have.                                                  *)
ReceiveEntry(d) ==
    /\ Event("receive")
    /\ raft.state = "follower"
    /\ Len(raft.log) < Given.maxLog
    /\ raft' = [raft EXCEPT !.log = Append(@, Entry("frames", d, -(bound.ev + 1), NoConn))]
    /\ UNCHANGED <<scenario, call, conn, files, snap, ok, ghosts>>

TruncateEntries ==
    /\ Event("truncate")
    /\ raft.state = "follower"
    /\ \E n \in 0..(Len(raft.log) - 1) :
         raft' = [raft EXCEPT !.log = SubSeq(@, 1, n)]
    /\ UNCHANGED <<scenario, call, conn, files, snap, ok, ghosts>>

---------------------------------------------------------------------------
(* Raft: leadership *)

(* A new leader submits a barrier, to commit what is in its log. *)
convertToLeader ==
    /\ Event("elect")
    /\ raft.state = "follower"
    /\ raft' = [raft EXCEPT !.state = "leader",
                            !.log = Append(@, Entry("noop", NoDb, 0, NoConn))]
    /\ UNCHANGED <<scenario, call, conn, files, snap, ok, ghosts>>

(* Leadership is lost; the log stays as it is. *)
convertToFollower ==
    /\ Event("stepdown")
    /\ raft.state = "leader"
    /\ YieldingQuery => "yield" \in Given.events
    /\ call' = StepDownCalls(raft.log, "follower")
    /\ raft' = [raft EXCEPT !.log = Forgotten(@), !.change = NoConn]
    /\ UNCHANGED <<scenario, conn, files, snap, ok, ghosts>>

(* The write of entry n failed: its request and the later ones of the same *)
(* write fail, the others are lost, and the log is truncated.              *)
appendLeaderCb ==
    /\ Event("writefail")
    /\ raft.state = "leader"
    /\ YieldingQuery => "yield" \in Given.events
    /\ \E n \in DOMAIN raft.log :
         /\ call' = Callbacks(SubSeq(raft.log, n, Len(raft.log)), "ioerr")
                    \o StepDownCalls(SubSeq(raft.log, 1, n - 1), "follower")
         /\ raft' = [raft EXCEPT !.log = Forgotten(SubSeq(@, 1, n - 1)), !.change = NoConn]
    /\ UNCHANGED <<scenario, conn, files, snap, ok, ghosts>>

(* For every connection that exists. *)
ForAll(fn, st) ==
    Concat([i \in DOMAIN ConnSeq |-> IF conn[ConnSeq[i]].io = "none" THEN <<>>
                                     ELSE <<Fn(fn, ConnSeq[i], st)>>])

(* The state changes, and state_cb closes what only a leader may have. *)
convertSetState ==
    /\ Enter("convertSetState")
    /\ raft' = [raft EXCEPT !.state = status]
    /\ Leave(IF raft.state = "leader" THEN ForAll("gateway__leader_close", "lost") ELSE <<>>)
    /\ UNCHANGED <<scenario, conn, files, snap, ok, bound, ghosts>>

(* A transfer ends: there is a new leader, or it took too long. *)
membershipLeadershipTransferClose ==
    /\ Waiting
    /\ raft.transfer # NoConn
    /\ call' = <<Fn("raftTransferCb", raft.transfer, "ok")>>
    /\ raft' = [raft EXCEPT !.transfer = NoConn]
    /\ UNCHANGED <<scenario, conn, files, snap, ok, bound, ghosts>>

---------------------------------------------------------------------------
(* Raft: snapshots *)

(* Refused while any database is busy; else all of them are locked and    *)
(* their WALs copied.                                                     *)
takeSnapshot ==
    /\ Event("snapshot")
    /\ snap.phase = "none"
    /\ raft.state # "unavailable"
    /\ \A i \in DOMAIN registry : ~SnapshotBusy(db[registry[i]])
    /\ db' = [d \in Db |-> IF \E i \in DOMAIN registry : registry[i] = d
                           THEN databaseReadLock(db[d]) ELSE db[d]]
    /\ snap' = [phase |-> IF Disk THEN "async" ELSE "put",
                dbs   |-> [i \in DOMAIN registry |->
                             [d |-> registry[i],
                              content |-> ref[registry[i]],
                              s |-> IF Disk THEN encodeDiskDatabaseSync(vfs[registry[i]])
                                    ELSE encodeDatabase(vfs[registry[i]])]]]
    /\ UNCHANGED <<scenario, call, raft, conn, vfs, registry, ok, ghosts>>

(* On disk, a worker thread then maps the database files. *)
takeSnapshotAsync ==
    /\ Waiting
    /\ snap.phase = "async"
    /\ snap' = [phase |-> "put",
                dbs   |-> [i \in DOMAIN snap.dbs |->
                             [snap.dbs[i] EXCEPT !.s =
                                encodeDiskDatabaseAsync(vfs[snap.dbs[i].d], @)]]]
    /\ UNCHANGED <<scenario, call, raft, conn, files, ok, bound, ghosts>>

(* The snapshot was written, or could not be: the databases it covers are *)
(* unlocked, which are the first ones of the registry.                    *)
takeSnapshotCb ==
    /\ Waiting
    /\ snap.phase = "put"
    /\ db' = [d \in Db |-> IF \E i \in DOMAIN snap.dbs : registry[i] = d
                           THEN databaseReadUnlock(db[d]) ELSE db[d]]
    /\ ok' = (ok /\ \A i \in DOMAIN snap.dbs : db[registry[i]].read_lock)
    /\ snap' = NoSnap
    /\ UNCHANGED <<scenario, call, raft, conn, vfs, registry, bound, ghosts>>

(* A follower installs a snapshot of database d; the log goes.  While a    *)
(* connection has the database open its WAL index gets stale: only the     *)
(* scenarios that show this have it.                                       *)
installSnapshotCb(d) ==
    /\ Event("install")
    /\ raft.state = "follower"
    /\ snap.phase = "none"
    /\ (\E c \in Conn : conn[c].d = d) => "installopen" \in Given.events
    /\ \E wal \in {<<>>, <<Frame(1, -(bound.ev + 1), 0), Frame(2, -(bound.ev + 1), 2)>>} :
       \E s \in {[pages |-> [p \in 1..2 |-> IF wal = <<>> THEN -(bound.ev + 1) ELSE 0],
                  wal |-> wal]} :
         vfs' = [vfs EXCEPT ![d] = IF Disk THEN decodeDiskDatabase(@, s)
                                   ELSE decodeDatabase(@, s)]
    /\ registry' = registry__db_get(d)
    /\ ref' = [ref EXCEPT ![d] = [p \in 1..2 |-> -(bound.ev + 1)]]
    /\ raft' = [raft EXCEPT !.log = <<>>]
    /\ UNCHANGED <<scenario, call, conn, db, snap, ok, applied, acked>>

---------------------------------------------------------------------------
(* Stopping *)

(* All connections are stopped, then raft is closed. *)
stopCb ==
    /\ Event("stop")
    /\ call' = ForAll("conn__stop", "ok") \o <<Fn("raft_close", NoConn, "ok")>>
    /\ UNCHANGED <<scenario, raft, conn, files, snap, ok, ghosts>>

(* Mutant of raft_close: the transfer is left pending. *)
raft_closeNoTransfer ==
    /\ Enter("raft_close")
    /\ Leave(IF raft.state = "leader" THEN StepDownCalls(raft.log, "unavailable")
             ELSE <<Fn("convertSetState", NoConn, "unavailable")>>)
    /\ raft' = [raft EXCEPT !.change = NoConn, !.log = Forgotten(@)]
    /\ bound' = [bound EXCEPT !.running = FALSE]
    /\ UNCHANGED <<scenario, conn, files, snap, ok, ghosts>>

(* convertToUnavailable: first the transfer, then the requests. *)
raft_close ==
    /\ Enter("raft_close")
    /\ Leave((IF raft.transfer = NoConn THEN <<>>
              ELSE <<Fn("raftTransferCb", raft.transfer, "ok")>>)
             \o (IF raft.state = "leader" THEN StepDownCalls(raft.log, "unavailable")
                 ELSE <<Fn("convertSetState", NoConn, "unavailable")>>))
    /\ raft' = [raft EXCEPT !.transfer = NoConn, !.change = NoConn, !.log = Forgotten(@)]
    /\ bound' = [bound EXCEPT !.running = FALSE]
    /\ UNCHANGED <<scenario, conn, files, snap, ok, ghosts>>

---------------------------------------------------------------------------
Running == LeaderNext \/ GatewayNext \/ conn__stop \/ convertSetState \/ raft_close

Client ==
    \E c \in Conn :
      \/ listenCb(c)
      \/ read_protocol_cb(c)
      \/ \E rq \in Given.requests : gateway__handle(c, rq)
      \/ Disconnect(c)

RaftEvent ==
    \/ \E d \in Db : ReceiveEntry(d)
    \/ TruncateEntries
    \/ convertToLeader
    \/ appendLeaderCb
    \/ takeSnapshot
    \/ \E d \in Db : installSnapshotCb(d)
    \/ stopCb

(* The loop waits; a callback that cannot go on would be a deadlock. *)
Wait == call = <<>> /\ UNCHANGED vars

Next ==
    \/ Running
    \/ Client
    \/ \E c \in Conn : conn_write_cb(c) \/ closeCb(c)
    \/ replicationApply
    \/ convertToFollower
    \/ membershipLeadershipTransferClose
    \/ takeSnapshotAsync
    \/ takeSnapshotCb
    \/ RaftEvent
    \/ Wait

(* Callbacks return; writes and closes end; a leader applies its log, or    *)
(* steps down because it lost contact with a majority; a transfer that     *)
(* does not succeed times out; a snapshot ends.                            *)
Fairness ==
    /\ []<>(call = <<>>)
    /\ \A c \in Conn : WF_vars(conn_write_cb(c) \/ closeCb(c))
    /\ \/ []<>(raft.log = <<>> \/ raft.state = "unavailable")
       \/ []<><<replicationApply \/ convertToFollower>>_vars
    /\ WF_vars(membershipLeadershipTransferClose)

Spec == Init /\ [][Next]_vars /\ Fairness

---------------------------------------------------------------------------
(* Properties *)

(* The state of connections, databases and raft is of its type. *)
NodeTypeOK ==
    /\ scenario \in DOMAIN Scenarios
    /\ \A i \in DOMAIN call : call[i].c \in Conn \cup {NoConn}
    /\ raft.state \in {"follower", "leader", "unavailable"}
    /\ raft.transfer \in Conn \cup {NoConn}
    /\ raft.change \in Conn \cup {NoConn}
    /\ \A c \in Conn :
         /\ conn[c].io \in {"none", "protocol", "reading", "handling", "writing", "closing"}
         /\ conn[c].d \in Db \cup {NoDb}
         /\ conn[c].q.tx \in {"none", "read", "write"}
         /\ conn[c].io = "none" => conn[c] = ConnInit
    /\ \A d \in Db :
         /\ vfs[d].shm.refcount \in 0..Cardinality(Conn) + 1
         /\ vfs[d].shm.exclusive \in [Lock -> {0, 1}]
         /\ db[d].tx_id \in {0, 1}
         /\ db[d].read_lock \in BOOLEAN

(* No assertion of the gateway, the leader, the state machine or the VFS   *)
(* fails: among them that a request is answered once, that no request is   *)
(* read while another is in progress, that a closed connection has no live *)
(* statement, that the write lock is only taken when the last transaction  *)
(* was polled or rolled back, and that no lock is held when a follower     *)
(* invalidates the WAL index.                                              *)
NeverAborts == ok /\ \A d \in Db : vfs[d].ok

(* Between callbacks, a new reader of a database sees exactly the          *)
(* transactions that raft applied: nothing that is still being replicated, *)
(* was lost or was rolled back, whatever was checkpointed and restored.    *)
VisibleIsApplied ==
    call = <<>> =>
      \A d \in Db : vfs[d].exists /\ vfs[d].pages # <<>> =>
        LET mx == IF vfs[d].shm.index = Invalid THEN Len(vfs[d].wal.frames)
                  ELSE vfs[d].shm.index
        IN  View(vfs[d].pages, vfs[d].wal.frames, mx) = ref[d]

(* A client is told that its statement succeeded only after the           *)
(* transactions of the request were applied.                              *)
AckedIsApplied == acked \subseteq applied

Open(d) == {c \in Conn : conn[c].d = d}

(* Between callbacks, the locks of a database are those of the open       *)
(* connections: the write lock belongs to one open transaction or to one  *)
(* transaction that is being replicated, and tx_id tells the latter.      *)
LocksAccounted ==
    call = <<>> /\ bound.running =>
      \A d \in Db :
        LET busy == {c \in Open(d) : conn[c].inflight}
            held == {c \in Open(d) : conn[c].q.tx = "write"} \cup busy
        IN  /\ vfs[d].shm.exclusive["WRITE"] = Cardinality(held)
            /\ vfs[d].shm.shared["READ"] = Cardinality({c \in Open(d) : conn[c].q.tx # "none"})
            /\ vfs[d].shm.refcount = Cardinality({c \in Open(d) : conn[c].q.mapped})
            /\ db[d].tx_id = Cardinality(busy)

(* While a connection holds the write lock, raft has no transaction of    *)
(* that database left to apply but its own: the barriers made sure that   *)
(* all earlier ones were applied before the statement ran.                *)
NoForeignFrames ==
    call = <<>> =>
    \A c \in Conn : conn[c].inflight \/ conn[c].q.tx = "write" =>
      \A i \in DOMAIN raft.log :
        raft.log[i].cmd = "frames" /\ raft.log[i].d = conn[c].d => raft.log[i].c = c

(* A reader sees the same database from the begin to the end of its       *)
(* transaction, although others are applied and WALs are checkpointed.    *)
ReadersKeepSnapshot ==
    \A c \in Conn : conn[c].q.tx # "none" =>
      View(vfs[conn[c].d].pages, vfs[conn[c].d].wal.frames, conn[c].q.mx) = conn[c].q.seen

(* Until it is finalized, a snapshot that refers to the pages of the live *)
(* database, and copied its WAL, describes the database as it was when    *)
(* the snapshot was taken.                                                *)
SnapshotIntact ==
    snap.phase = "put" =>
      \A i \in DOMAIN snap.dbs :
        LET x == snap.dbs[i]
        IN  vfs[x.d].pages # <<>> =>
              /\ x.s.n <= Len(vfs[x.d].pages)
              /\ View(SubSeq(vfs[x.d].pages, 1, x.s.n), x.s.wal, Len(x.s.wal)) = x.content

(* raft never refers to a connection that was freed. *)
NoDanglingCallback ==
    call = <<>> =>
      \A c \in Conn : conn[c].io \in {"none", "closing"} =>
        /\ raft.transfer # c
        /\ raft.change # c
        /\ \A i \in DOMAIN raft.log : raft.log[i].c # c

(* Every request is answered, or its connection is closed. *)
EveryRequestAnswered ==
    \A c \in Conn : conn[c].io = "handling" ~> conn[c].io # "handling"

(* A connection whose leader was closed is not in the middle of a query:  *)
(* when its response is written there is nothing to resume.               *)
ClosedMeansNoQuery ==
    call = <<>> =>
      \A c \in Conn : conn[c].io = "writing" /\ conn[c].req \in {"query", "query_sql"} =>
        conn[c].d # NoDb
=============================================================================
