------------------------------ MODULE Gateway ------------------------------
(***************************************************************************)
(* The gateway of a client connection (src/src/gateway.c): one function    *)
(* per kind of request, the callbacks of barriers and executions, and the  *)
(* end of the connection's leader.                                         *)
(***************************************************************************)
EXTENDS Leader

(* The response goes out; after conn__stop it is dropped.  A response     *)
(* while another is being written is an assertion of transport__write.    *)
Answer(r) == [r EXCEPT !.io = IF @ = "handling" THEN "writing" ELSE @]

MayAnswer(c) == conn[c].io \in {"handling", "closing"}

(* A function whose whole effect is a response, or a failure. *)
AnswerNow(c, r) ==
    /\ conn' = [conn EXCEPT ![c] = Answer(r)]
    /\ Leave(<<>>)
    /\ UNCHANGED raft

(* An error of a handler closes the connection. *)
StopConn == <<Fn("conn__stop", self, "ok")>>

NotLeader == raft.state # "leader"

NoDatabase == conn[self].d = NoDb

NoStatement == conn[self].stmt = "none"

Checkpointing == ~CanLock(vfs[conn[self].d], "CKPT", TRUE)

(* sqlite3_finalize, or sqlite3_reset, of the statement of connection c. *)
Finalized(c) == Halt(vfs[conn[c].d], conn[c].q)

---------------------------------------------------------------------------
(* Requests without a statement *)

AnswerOnly(fn) ==
    /\ Enter(fn)
    /\ AnswerNow(self, conn[self])
    /\ UNCHANGED <<scenario, files, snap, ok, bound, ghosts>>

handle_leader == AnswerOnly("handle_leader")

handle_client == AnswerOnly("handle_client")

handle_cluster == AnswerOnly("handle_cluster")

handle_weight == AnswerOnly("handle_weight")

(* registry__db_get: a new database is added at the end. *)
registry__db_get(d) ==
    IF \E i \in DOMAIN registry : registry[i] = d THEN registry ELSE Append(registry, d)

(* Open the database d; any node does, leader or not.  leader__init fails *)
(* when the WAL index cannot be read.                                     *)
handle_open ==
    /\ Enter("handle_open")
    /\ IF ~NoDatabase
       THEN AnswerNow(self, conn[self]) /\ UNCHANGED <<vfs, registry>>
       ELSE /\ registry' = registry__db_get(Head(status))
            /\ IF CanRead(vfs[Head(status)])
               THEN \E x \in {leader__init(Head(status))} :
                      /\ vfs' = [vfs EXCEPT ![Head(status)] = x.v]
                      /\ AnswerNow(self, [conn[self] EXCEPT !.d = Head(status), !.q = x.s])
               ELSE /\ Leave(StopConn)
                    /\ UNCHANGED <<vfs, conn, raft>>
    /\ UNCHANGED <<scenario, db, snap, ok, bound, ghosts>>

(* Only a query in progress could be interrupted, and no request is read  *)
(* while one is.                                                          *)
handle_interrupt ==
    /\ Enter("handle_interrupt")
    /\ AnswerNow(self, [conn[self] EXCEPT !.req = "none", !.tmp = "none"])
    /\ UNCHANGED <<scenario, files, snap, ok, bound, ghosts>>

(* The two files of the database, if there is one. *)
handle_dump ==
    /\ Enter("handle_dump")
    /\ AnswerNow(self, conn[self])
    /\ UNCHANGED <<scenario, files, snap, ok, bound, ghosts>>

---------------------------------------------------------------------------
(* Prepared statements *)

handle_prepare ==
    /\ Enter("handle_prepare")
    /\ IF NotLeader \/ NoDatabase
       THEN AnswerNow(self, conn[self])
       ELSE leader__barrier(self,
              [conn[self] EXCEPT !.req = "prepare", !.stmt = "unprepared", !.sql = status],
              "prepareBarrierCb", conn[self], StopConn)
    /\ UNCHANGED <<scenario, files, snap, ok, bound, ghosts>>

prepareBarrierCb ==
    /\ Enter("prepareBarrierCb")
    /\ ok' = (ok /\ conn[self].req # "none" /\ ~NoStatement /\ MayAnswer(self))
    /\ AnswerNow(self, [conn[self] EXCEPT
                          !.req = "none", !.sql = <<>>,
                          !.stmt = IF status = "ok" /\ Head(conn[self].sql) # "bad"
                                   THEN Head(conn[self].sql) ELSE "none"])
    /\ UNCHANGED <<scenario, files, snap, bound, ghosts>>

handle_finalize ==
    /\ Enter("handle_finalize")
    /\ IF NoDatabase \/ NoStatement
       THEN AnswerNow(self, conn[self]) /\ UNCHANGED vfs
       ELSE /\ AnswerNow(self, [conn[self] EXCEPT !.stmt = "none", !.q = Finalized(self).s])
            /\ vfs' = [vfs EXCEPT ![conn[self].d] = Finalized(self).v]
    /\ UNCHANGED <<scenario, db, registry, snap, ok, bound, ghosts>>

handle_exec ==
    /\ Enter("handle_exec")
    /\ IF NotLeader \/ NoDatabase \/ NoStatement \/ Checkpointing
       THEN AnswerNow(self, conn[self])
       ELSE leader__exec(self, [conn[self] EXCEPT !.req = "exec"], "leader_exec_cb",
                         conn[self], StopConn)
    /\ UNCHANGED <<scenario, files, snap, ok, bound, ghosts>>

(* The end of an execution of a prepared statement: a success tells the   *)
(* client that what was replicated is committed, a failure resets it.     *)
ExecCb(fn) ==
    /\ Enter(fn)
    /\ ok' = (ok /\ conn[self].req # "none" /\ ~NoStatement /\ ~NoDatabase /\ MayAnswer(self))
    /\ IF status = "done"
       THEN /\ AnswerNow(self, [conn[self] EXCEPT !.req = "none", !.vals = {}])
            /\ acked' = acked \cup conn[self].vals
            /\ UNCHANGED vfs
       ELSE /\ AnswerNow(self, [conn[self] EXCEPT !.req = "none", !.vals = {},
                                                  !.q = Finalized(self).s])
            /\ vfs' = [vfs EXCEPT ![conn[self].d] = Finalized(self).v]
            /\ UNCHANGED acked
    /\ UNCHANGED <<scenario, db, registry, snap, bound, ref, applied>>

leader_exec_cb == ExecCb("leader_exec_cb")

leaderModifyingQueryCb == ExecCb("leaderModifyingQueryCb")

(* A query that modifies the database is executed, another one is stepped *)
(* after a barrier.                                                       *)
handle_query ==
    /\ Enter("handle_query")
    /\ IF NotLeader \/ NoDatabase \/ NoStatement \/ Checkpointing
       THEN AnswerNow(self, conn[self])
       ELSE IF ReadOnly(conn[self].stmt)
       THEN leader__barrier(self, [conn[self] EXCEPT !.req = "query"], "query_barrier_cb",
                            conn[self], StopConn)
       ELSE leader__exec(self, [conn[self] EXCEPT !.req = "query"],
                         "leaderModifyingQueryCb", conn[self], StopConn)
    /\ UNCHANGED <<scenario, files, snap, ok, bound, ghosts>>

query_barrier_cb ==
    /\ Enter("query_barrier_cb")
    /\ ok' = (ok /\ conn[self].req # "none" /\ ~NoStatement /\ MayAnswer(self))
    /\ IF status # "ok"
       THEN AnswerNow(self, [conn[self] EXCEPT !.req = "none"])
       ELSE /\ Leave(<<Fn("query_batch", self, "ok")>>)
            /\ UNCHANGED <<conn, raft>>
    /\ UNCHANGED <<scenario, files, snap, bound, ghosts>>

(* The statement of the query in progress. *)
QueryStmt(c) == IF conn[c].req = "query_sql" THEN conn[c].tmp ELSE conn[c].stmt

(* One batch of rows.  After the last, and after an error, the query is   *)
(* over and the statement of a QUERY_SQL is finalized.                    *)
Batch(c, x) ==
    LET y == IF x.rc = "row" THEN x ELSE Halt(x.v, x.s)
    IN  /\ vfs' = [vfs EXCEPT ![conn[c].d] = y.v]
        /\ AnswerNow(c, IF x.rc = "row" THEN [conn[c] EXCEPT !.q = y.s]
                        ELSE [conn[c] EXCEPT !.q = y.s, !.req = "none", !.tmp = "none"])

(* Stepping a statement that was finalized, or on a connection that was    *)
(* closed, is undefined.                                                   *)
query_batch ==
    /\ Enter("query_batch")
    /\ IF NoDatabase \/ QueryStmt(self) = "none"
       THEN ok' = FALSE /\ Leave(<<>>) /\ UNCHANGED <<vfs, conn, raft>>
       ELSE /\ ok' = (ok /\ MayAnswer(self))
            /\ \E rows \in BOOLEAN :
                 Batch(self, Step(vfs[conn[self].d], conn[self].q, QueryStmt(self), 0,
                                  rows, FALSE))
    /\ UNCHANGED <<scenario, db, registry, snap, bound, ghosts>>

---------------------------------------------------------------------------
(* SQL text *)

handle_exec_sql ==
    /\ Enter("handle_exec_sql")
    /\ IF NotLeader \/ NoDatabase \/ Checkpointing
       THEN AnswerNow(self, conn[self])
       ELSE leader__barrier(self, [conn[self] EXCEPT !.req = "exec_sql", !.sql = status],
                            "execSqlBarrierCb", conn[self], StopConn)
    /\ UNCHANGED <<scenario, files, snap, ok, bound, ghosts>>

execSqlBarrierCb ==
    /\ Enter("execSqlBarrierCb")
    /\ ok' = (ok /\ conn[self].req # "none" /\ MayAnswer(self))
    /\ IF status # "ok"
       THEN AnswerNow(self, [conn[self] EXCEPT !.req = "none", !.sql = <<>>])
       ELSE /\ Leave(<<Fn("handle_exec_sql_next", self, "ok")>>)
            /\ UNCHANGED <<conn, raft>>
    /\ UNCHANGED <<scenario, files, snap, bound, ghosts>>

(* The request is over: the next one starts with nothing left. *)
Over(r) == [r EXCEPT !.req = "none", !.sql = <<>>, !.tmp = "none", !.vals = {}]

(* Prepare and execute the next statement, or report success. *)
handle_exec_sql_next ==
    /\ Enter("handle_exec_sql_next")
    /\ ok' = (ok /\ ~NoDatabase /\ MayAnswer(self))
    /\ \/ /\ conn[self].sql = <<>>
          /\ acked' = acked \cup conn[self].vals
          /\ AnswerNow(self, Over(conn[self]))
       \/ /\ conn[self].sql # <<>> /\ Head(conn[self].sql) = "bad"
          /\ AnswerNow(self, Over(conn[self]))
          /\ UNCHANGED acked
       \/ /\ conn[self].sql # <<>> /\ Head(conn[self].sql) # "bad"
          /\ leader__exec(self, [conn[self] EXCEPT !.sql = Tail(@),
                                                   !.tmp = Head(conn[self].sql)],
                          "handle_exec_sql_cb", Answer(Over(conn[self])), <<>>)
          /\ UNCHANGED acked
    /\ UNCHANGED <<scenario, files, snap, bound, ref, applied>>

(* The statement is finalized whatever became of it. *)
handle_exec_sql_cb ==
    /\ Enter("handle_exec_sql_cb")
    /\ ok' = (ok /\ conn[self].req # "none" /\ ~NoDatabase /\ MayAnswer(self))
    /\ vfs' = [vfs EXCEPT ![conn[self].d] = Finalized(self).v]
    /\ IF status = "done"
       THEN /\ conn' = [conn EXCEPT ![self].tmp = "none", ![self].q = Finalized(self).s]
            /\ Leave(<<Fn("handle_exec_sql_next", self, "ok")>>)
            /\ UNCHANGED raft
       ELSE AnswerNow(self, [Over(conn[self]) EXCEPT !.q = Finalized(self).s])
    /\ UNCHANGED <<scenario, db, registry, snap, bound, ghosts>>

handle_query_sql ==
    /\ Enter("handle_query_sql")
    /\ IF NotLeader \/ NoDatabase \/ Checkpointing
       THEN AnswerNow(self, conn[self])
       ELSE leader__barrier(self, [conn[self] EXCEPT !.req = "query_sql", !.sql = status],
                            "querySqlBarrierCb", conn[self], StopConn)
    /\ UNCHANGED <<scenario, files, snap, ok, bound, ghosts>>

querySqlBarrierCb ==
    /\ Enter("querySqlBarrierCb")
    /\ ok' = (ok /\ conn[self].req # "none" /\ MayAnswer(self))
    /\ IF status # "ok" \/ Head(conn[self].sql) = "bad"
       THEN AnswerNow(self, Over(conn[self]))
       ELSE IF ReadOnly(Head(conn[self].sql))
       THEN /\ conn' = [conn EXCEPT ![self].tmp = Head(conn[self].sql), ![self].sql = <<>>]
            /\ Leave(<<Fn("query_batch", self, "ok")>>)
            /\ UNCHANGED raft
       ELSE leader__exec(self, [conn[self] EXCEPT !.tmp = Head(conn[self].sql), !.sql = <<>>],
                         "leaderModifyingQuerySqlCb", Answer(Over(conn[self])), <<>>)
    /\ UNCHANGED <<scenario, files, snap, bound, ghosts>>

leaderModifyingQuerySqlCb ==
    /\ Enter("leaderModifyingQuerySqlCb")
    /\ ok' = (ok /\ conn[self].req # "none" /\ ~NoDatabase /\ MayAnswer(self))
    /\ vfs' = [vfs EXCEPT ![conn[self].d] = Finalized(self).v]
    /\ acked' = IF status = "done" THEN acked \cup conn[self].vals ELSE acked
    /\ AnswerNow(self, [Over(conn[self]) EXCEPT !.q = Finalized(self).s])
    /\ UNCHANGED <<scenario, db, registry, snap, bound, ref, applied>>

---------------------------------------------------------------------------
(* Requests about the cluster *)

(* One change of the configuration at a time, and none in a transfer. *)
ChangeRequest(fn, cmd) ==
    /\ Enter(fn)
    /\ IF NotLeader \/ ~CanSubmit \/ raft.change # NoConn
       THEN AnswerNow(self, conn[self])
       ELSE /\ conn' = [conn EXCEPT ![self].req = "change"]
            /\ raft' = [raft EXCEPT !.change = self,
                                    !.log = Append(@, Entry(cmd, NoDb, 0, NoConn))]
            /\ Leave(<<>>)
    /\ UNCHANGED <<scenario, files, snap, ok, bound, ghosts>>

handle_add == ChangeRequest("handle_add", "change")

handle_promote_or_assign == ChangeRequest("handle_promote_or_assign", "change")

(* Removal of this server itself. *)
handle_remove == ChangeRequest("handle_remove", "remove")

raftChangeCb ==
    /\ Enter("raftChangeCb")
    /\ ok' = (ok /\ conn[self].req = "change" /\ MayAnswer(self))
    /\ AnswerNow(self, [conn[self] EXCEPT !.req = "none"])
    /\ UNCHANGED <<scenario, files, snap, bound, ghosts>>

handle_transfer ==
    /\ Enter("handle_transfer")
    /\ IF NotLeader \/ ~CanSubmit
       THEN AnswerNow(self, conn[self])
       ELSE /\ conn' = [conn EXCEPT ![self].req = "transfer"]
            /\ raft' = [raft EXCEPT !.transfer = self]
            /\ Leave(<<>>)
    /\ UNCHANGED <<scenario, files, snap, ok, bound, ghosts>>

raftTransferCb ==
    /\ Enter("raftTransferCb")
    /\ ok' = (ok /\ conn[self].req = "transfer" /\ MayAnswer(self))
    /\ AnswerNow(self, [conn[self] EXCEPT !.req = "none"])
    /\ UNCHANGED <<scenario, files, snap, bound, ghosts>>

---------------------------------------------------------------------------
(* The end of the leader *)

(* What the request in progress waits for. *)
Pending(r) ==
    CASE r.req = "none"                      -> "none"
      [] r.req # "none" /\ r.inflight        -> "apply"
      [] r.req # "none" /\ ~r.inflight /\ r.gbar # "none" -> "gbar"
      [] r.req # "none" /\ ~r.inflight /\ r.gbar = "none" /\ r.ebar # "none" -> "ebar"
      [] OTHER                               -> "rows"

(* Fire the callback that the request waits for. *)
Fire(p) ==
    CASE p = "apply" -> <<Fn("leaderApplyFramesCb", self, status)>>
      [] p = "gbar"  -> <<Fn("raftBarrierCb", self, status)>>
      [] p = "ebar"  -> <<Fn("raftBarrierCbExec", self, status)>>
      [] OTHER       -> <<>>

(* Complete the request in progress, or finalize the statement of a        *)
(* QUERY_SQL that is yielding rows, then close the rest.                   *)
gateway__leader_close ==
    /\ Enter("gateway__leader_close")
    /\ IF NoDatabase THEN Leave(<<>>)
       ELSE Leave(Fire(Pending(conn[self])) \o
                  <<Fn("stmt__registry_close", self, Pending(conn[self]))>>)
    /\ IF Pending(conn[self]) = "rows" /\ conn[self].req = "query_sql" /\ ~NoDatabase
       THEN /\ conn' = [conn EXCEPT ![self] = [Over(@) EXCEPT !.q = Finalized(self).s]]
            /\ vfs' = [vfs EXCEPT ![conn[self].d] = Finalized(self).v]
       ELSE UNCHANGED <<conn, vfs>>
    /\ UNCHANGED <<scenario, raft, db, registry, snap, ok, bound, ghosts>>

(* The asserts after the callback; then the prepared statements go. *)
stmt__registry_close ==
    /\ Enter("stmt__registry_close")
    /\ ok' = (ok /\ (status = "apply" => conn[self].req = "none")
                 /\ (status = "gbar" => conn[self].gbar = "none")
                 /\ (status = "ebar" => conn[self].exec = "none"))
    /\ vfs' = [vfs EXCEPT ![conn[self].d] = Finalized(self).v]
    /\ conn' = [conn EXCEPT ![self].stmt = "none", ![self].q = Finalized(self).s]
    /\ Leave(<<Fn("leader__close", self, "ok")>>)
    /\ UNCHANGED <<scenario, raft, db, registry, snap, bound, ghosts>>

GatewayNext ==
    \/ handle_leader \/ handle_client \/ handle_cluster \/ handle_weight
    \/ handle_dump \/ handle_open \/ handle_interrupt
    \/ handle_prepare \/ prepareBarrierCb \/ handle_finalize
    \/ handle_exec \/ leader_exec_cb
    \/ handle_query \/ query_barrier_cb \/ leaderModifyingQueryCb \/ query_batch
    \/ handle_exec_sql \/ execSqlBarrierCb \/ handle_exec_sql_next \/ handle_exec_sql_cb
    \/ handle_query_sql \/ querySqlBarrierCb \/ leaderModifyingQuerySqlCb
    \/ handle_add \/ handle_promote_or_assign \/ handle_remove \/ raftChangeCb
    \/ handle_transfer \/ raftTransferCb
    \/ gateway__leader_close \/ stmt__registry_close
=============================================================================
