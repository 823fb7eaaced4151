------------------------------- MODULE MCNode -------------------------------
(* Instances of Node for TLC: two connections and one database. *)
EXTENDS Node

Rq(type, arg) == [type |-> type, arg |-> arg]

Opens == {Rq("handle_open", <<d>>) : d \in Db}

ExecSql(sqls) == {Rq("handle_exec_sql", s) : s \in sqls}

QuerySql(kinds) == {Rq("handle_query_sql", <<k>>) : k \in kinds}

Prepare(kinds) == {Rq("handle_prepare", <<k>>) : k \in kinds}

Plain(types) == {Rq(t, <<>>) : t \in types}

Given0(requests, events, maxReq, maxEv) ==
    [disk |-> FALSE, threshold |-> 2, requests |-> Opens \cup requests,
     events |-> {"elect"} \cup events, maxReq |-> maxReq, maxEv |-> maxEv, maxLog |-> 2,
     maxConn |-> 2]

OneClient(s) == [s EXCEPT !.maxConn = 1]

OnDisk(s) == [s EXCEPT !.disk = TRUE]

Writes == ExecSql({<<"write">>})

Begins == ExecSql({<<"begin", "write">>, <<"commit">>})

MCScenarios ==
    [ \* transactions over one or several requests, and loss of leadership
      transactions |->
        Given0(Writes \cup Begins, {"stepdown"}, 5, 2),
      \* readers that keep a snapshot, and queries that yield rows
      readers |->
        Given0(Writes \cup QuerySql({"read"}) \cup ExecSql({<<"begin">>}),
               {}, 6, 1),
      \* prepared statements
      prepared |->
        OneClient(Given0(Prepare({"write", "read", "bad"})
                         \cup Plain({"handle_exec", "handle_query", "handle_finalize"}),
                         {"stepdown"}, 6, 2)),
      \* entries of other leaders, and leadership that comes and goes
      follower |->
        OneClient(Given0(Writes \cup QuerySql({"read"}), {"receive", "truncate", "stepdown"}, 3, 4)),
      snapshots |->
        OneClient(Given0(Writes, {"snapshot", "receive"}, 3, 4)),
      diskSnapshots |->
        OnDisk(OneClient(Given0(Writes, {"snapshot", "receive", "install"}, 3, 3))),
      installs |->
        OneClient(Given0(Writes \cup QuerySql({"read"}), {"install", "receive", "stepdown"}, 3, 4)),
      membership |->
        Given0(Writes \cup Plain({"handle_add", "handle_promote_or_assign",
                                  "handle_remove", "handle_transfer"}),
               {"stepdown"}, 4, 2),
      \* disks that fail or are full, and clients that go
      faults |->
        Given0(Writes \cup Begins, {"writefail", "full", "disconnect"}, 4, 2),
      queryFaults |->
        OneClient(Given0(QuerySql({"write", "bad"}), {"writefail", "full", "disconnect"}, 4, 3)),
      \* the node is stopped at any time
      stop |->
        Given0(ExecSql({<<"begin", "write", "rollback">>, <<"write", "write">>, <<"bad">>})
               \cup QuerySql({"read"}) \cup Plain({"handle_transfer", "handle_add"}),
               {"stop"}, 4, 2),
      others |->
        Given0(Plain({"handle_leader", "handle_client", "handle_cluster", "handle_weight",
                      "handle_dump", "handle_interrupt"}), {}, 3, 1)
    ]

(* A prepared query yields rows while leadership is lost. *)
MCResume ==
    [resume |-> OneClient(Given0(Writes \cup Prepare({"read"}) \cup Plain({"handle_query"}),
                                 {"stepdown", "yield"}, 4, 2))]

(* An INSERT ... RETURNING is executed, or a COMMIT sent as a query: its   *)
(* frames are not polled, and the next writer violates NeverAborts.        *)
MCUnpolled ==
    [returning |-> OneClient(Given0(ExecSql({<<"returning">>}), {}, 3, 1)),
     commit    |-> OneClient(Given0(ExecSql({<<"begin", "write">>}) \cup QuerySql({"commit"}),
                                    {}, 3, 1))]
=============================================================================
