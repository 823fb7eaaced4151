----------------------------- MODULE NodeProofs -----------------------------
(***************************************************************************)
(* What raft and the loop thread owe to a client connection: raft refers to *)
(* no connection that was freed, and a client is told of success only once  *)
(* its transactions were applied.                                           *)
(*                                                                         *)
(* Both rest on one discipline, which no single function of the code states: *)
(* a request waits for one thing at a time, or one function of it runs, and  *)
(* when several functions are left to run, all of them end requests.        *)
(***************************************************************************)
EXTENDS Node, Induction, FiniteSetTheorems

---------------------------------------------------------------------------
(* The functions that may be left to call *)

\* The callbacks of the barrier of a gateway, and of an execution; "none": there
\* is no execution, and the loop thread gets stuck.
BarrierCbs == {"prepareBarrierCb", "query_barrier_cb", "execSqlBarrierCb", "querySqlBarrierCb"}

ExecCbs ==
  {"leader_exec_cb", "leaderModifyingQueryCb", "handle_exec_sql_cb",
   "leaderModifyingQuerySqlCb", "none"}

\* Functions that go on with a request that waited, and that end one.
Resumed ==
  BarrierCbs \cup ExecCbs \cup {"execBarrierCb", "leaderExecV2", "handle_exec_sql_next"}

ClusterCbs == {"raftChangeCb", "raftTransferCb"}

\* Functions that run on behalf of a request.
Runs == RequestTypes \cup Resumed \cup ClusterCbs \cup {"query_batch"}

\* What raft, or the end of a leader, calls when a wait is over.
Fires == {"leaderApplyFramesCb", "raftBarrierCb", "raftBarrierCbExec"}

\* The functions that close connections, and raft.
LeaderCloses == {"stmt__registry_close", "leader__close", "sqlite3_close"}

Closes ==
  LeaderCloses \cup {"conn__stop", "gateway__leader_close", "convertSetState", "raft_close"}

Failures == {"lost", "ioerr", "shutdown", "abort", "error"}

\* Function f starts nothing: it closes, or it fails a request.
Ends(f) ==
  \/ f.fn \in Closes \cup ClusterCbs
  \/ f.fn \in Fires \cup BarrierCbs \cup ExecCbs \cup {"execBarrierCb"} /\ f.st \in Failures

---------------------------------------------------------------------------
(* The inductive invariant *)

IsSeq(s) == s \in Seq({s[i] : i \in DOMAIN s})

Elems(s) == {s[i] : i \in DOMAIN s}

Calls == Elems(call)

\* What is left after the next function.
Later == Elems(Tail(call))

InCall(fn, c) == \E f \in Calls : f.fn = fn /\ f.c = c

\* raft is about to be closed.
ClosesRaft == \E f \in Calls : f.fn = "raft_close"

\* The request of connection c waits for nothing.
Free(c) ==
  /\ conn[c].gbar = "none" /\ conn[c].ebar = "none" /\ ~conn[c].inflight
  /\ raft.transfer # c /\ raft.change # c

\* Entry e of the log has a callback of connection c, for frames, for a barrier of
\* the gateway or for one of an execution.
Frames(e, c) == e.c = c /\ e.cmd = "frames"
GBarrier(e, c) == e.c = c /\ e.cmd = "gbarrier"
EBarrier(e, c) == e.c = c /\ e.cmd \notin {"frames", "gbarrier"}

Entries == Elems(raft.log)

NoRequests == \A e \in Entries : e.c = NoConn

\* What a connection waits for has its callback among the functions to call.
WaitsFired(c) ==
  /\ conn[c].inflight => InCall("leaderApplyFramesCb", c)
  /\ conn[c].gbar # "none" => InCall("raftBarrierCb", c)
  /\ conn[c].ebar # "none" => InCall("raftBarrierCbExec", c)

ConnFields ==
  {"io", "req", "d", "stmt", "sql", "tmp", "gbar", "ebar", "exec", "inflight", "vals", "q"}

ConnShape(r) ==
  /\ DOMAIN r = ConnFields
  /\ r.gbar \in BarrierCbs \cup {"none"}
  /\ r.ebar \in {"execBarrierCb", "none"}
  /\ r.exec \in ExecCbs
  /\ r.inflight \in BOOLEAN

EntryShape(e) == DOMAIN e = {"cmd", "d", "val", "c"} /\ e.c \in Conn \cup {NoConn}

RaftShape(r) ==
  /\ DOMAIN r = {"state", "log", "transfer", "change"}
  /\ r.transfer \in Conn \cup {NoConn} /\ r.change \in Conn \cup {NoConn}
  /\ IsSeq(r.log)
  /\ \A e \in Elems(r.log) : EntryShape(e)

\* Call and log are sequences, raft and the connections have their fields.
Shape ==
  /\ scenario \in DOMAIN Scenarios
  /\ IsSeq(call)
  /\ RaftShape(raft)
  /\ DOMAIN conn = Conn
  /\ \A c \in Conn : ConnShape(conn[c])

\* When one function closes something, so do all the later ones; raft comes last.
InOrder(s) ==
  \A i, j \in DOMAIN s :
    i < j => /\ s[i].fn \in Closes => s[j].fn \in Closes \cup ClusterCbs
             /\ s[i].fn # "raft_close"

\* When there are several functions to call, all of them end requests.
AllEnd == Len(call) <= 1 \/ \A f \in Calls : Ends(f)

\* A function to call: its request waits for nothing else, is not answered yet, and
\* has its database; what it ends has no entry in the log.
Sound(f) ==
  /\ f.fn \in Runs \cup Fires \cup Closes
  /\ f.fn \in {"convertSetState", "raft_close"} \/ f.c \in Conn
  /\ f.fn \in Runs => Free(f.c)
  /\ f.fn \in Runs \cup Fires /\ ~Ends(f) => conn[f.c].io = "handling"
  /\ f.fn \in Resumed \cup Fires /\ ~Ends(f) => conn[f.c].req # "none" /\ conn[f.c].d # NoDb
  /\ f.fn = "leaderApplyFramesCb" =>
       /\ conn[f.c].gbar = "none" /\ conn[f.c].ebar = "none"
       /\ raft.transfer # f.c /\ raft.change # f.c
       /\ f.st # "shutdown" => \A e \in Entries : ~Frames(e, f.c)
  /\ f.fn = "raftBarrierCb" => ClosesRaft \/ \A e \in Entries : ~GBarrier(e, f.c)
  /\ f.fn = "raftBarrierCbExec" => ClosesRaft \/ \A e \in Entries : ~EBarrier(e, f.c)
  /\ f.fn = "gateway__leader_close" => f.st \in {"shutdown", "lost"}
  /\ f.fn = "conn__stop" \/ (f.fn = "gateway__leader_close" /\ f.st = "shutdown") =>
       ClosesRaft \/ Free(f.c)
  /\ f.fn = "convertSetState" \/ (f.fn = "gateway__leader_close" /\ f.st = "lost") => NoRequests
  /\ f.fn \in LeaderCloses => WaitsFired(f.c)

\* A connection waits for one thing, in a request that is not answered; if it is
\* being closed the wait is about to end.
ConnSound(c) ==
  /\ conn[c].gbar # "none" =>
       conn[c].ebar = "none" /\ ~conn[c].inflight /\ raft.transfer # c /\ raft.change # c
  /\ conn[c].ebar # "none" => ~conn[c].inflight /\ raft.transfer # c /\ raft.change # c
  /\ conn[c].inflight => raft.transfer # c /\ raft.change # c
  /\ raft.transfer = c => raft.change # c
  /\ ~Free(c) => conn[c].io \in {"handling", "closing"}
  /\ conn[c].gbar # "none" \/ conn[c].ebar # "none" \/ conn[c].inflight =>
       conn[c].req # "none" /\ conn[c].d # NoDb
  /\ conn[c].io = "closing" =>
       /\ raft.transfer = c \/ raft.change = c => ClosesRaft
       /\ InCall("gateway__leader_close", c) \/ WaitsFired(c)
  /\ conn[c].exec # "none" =>
       \/ conn[c].ebar # "none" \/ conn[c].inflight
       \/ InCall("execBarrierCb", c) \/ InCall("leaderExecV2", c)

\* An entry with a callback is what its connection waits for, and only a leader has
\* any.
EntrySound(e) ==
  e.c # NoConn =>
    /\ raft.state = "leader"
    /\ e.cmd = "frames" => conn[e.c].inflight
    /\ e.cmd = "gbarrier" => ClosesRaft \/ conn[e.c].gbar # "none"
    /\ e.cmd \notin {"frames", "gbarrier"} => ClosesRaft \/ conn[e.c].ebar # "none"

OneEntry ==
  \A j, k \in DOMAIN raft.log : raft.log[j].c = raft.log[k].c /\ raft.log[j].c # NoConn => j = k

\* The execution of connection c is about to be told that it failed.
Doomed(c) ==
  \E f \in Calls :
    f.c = c /\ f.st \in Failures /\ f.fn \in ExecCbs \cup {"execBarrierCb", "leaderApplyFramesCb"}

\* The transactions of a request are applied, or one is in the log, or it failed.
ValsSound(c) ==
  \A v \in conn[c].vals :
    v \in applied \/ (\E e \in Entries : Frames(e, c) /\ e.val = v) \/ Doomed(c)

NodeInv ==
  /\ Shape /\ InOrder(call) /\ AllEnd
  /\ \A f \in Calls : Sound(f)
  /\ \A c \in Conn : ConnSound(c) /\ ValsSound(c)
  /\ \A e \in Entries : EntrySound(e)
  /\ OneEntry
  /\ acked \subseteq applied

---------------------------------------------------------------------------
(* Sequences *)

LEMMA SeqFacts ==
  ASSUME NEW s, IsSeq(s)
  PROVE  Len(s) \in Nat /\ DOMAIN s = 1..Len(s) /\ s \in Seq(Elems(s))
  BY DEF IsSeq, Elems

LEMMA SeqOf ==
  ASSUME NEW S, NEW s \in Seq(S)
  PROVE  IsSeq(s)
<1>1. Len(s) \in Nat /\ DOMAIN s = 1..Len(s) /\ s \in [1..Len(s) -> S]
  OBVIOUS
<1> DEFINE U == {s[i] : i \in DOMAIN s}
<1>2. s \in [1..Len(s) -> U]
  BY <1>1
<1> HIDE DEF U
<1>3. s \in Seq(U)
  BY <1>1, <1>2
<1> QED BY <1>3 DEF U, IsSeq

LEMMA HeadTail ==
  ASSUME NEW s, IsSeq(s), s # << >>
  PROVE  /\ Elems(s) = {Head(s)} \cup Elems(Tail(s))
         /\ IsSeq(Tail(s))
         /\ Len(Tail(s)) = Len(s) - 1
         /\ \A i \in DOMAIN Tail(s) : i + 1 \in DOMAIN s /\ Tail(s)[i] = s[i + 1]
         /\ Len(s) <= 1 => Tail(s) = << >> /\ Elems(Tail(s)) = {}
<1>1. /\ Len(s) \in Nat /\ DOMAIN s = 1..Len(s) /\ s \in Seq(Elems(s))
  BY SeqFacts
<1>2. /\ Tail(s) \in Seq(Elems(s)) /\ Len(Tail(s)) = Len(s) - 1 /\ Head(s) = s[1]
      /\ Len(s) >= 1
      /\ \A i \in 1..Len(s) - 1 : Tail(s)[i] = s[i + 1]
  BY <1>1
<1>3. DOMAIN Tail(s) = 1..Len(s) - 1
  BY <1>1, <1>2
<1>4. Elems(s) = {Head(s)} \cup Elems(Tail(s))
  <2>1. ASSUME NEW i \in 1..Len(s) PROVE s[i] \in {Head(s)} \cup Elems(Tail(s))
    <3>1. CASE i = 1
      BY <1>2, <3>1
    <3>2. CASE i # 1
      <4>1. i - 1 \in 1..Len(s) - 1 /\ (i - 1) + 1 = i
        BY <1>1, <3>2
      <4>2. Tail(s)[i - 1] = s[i]
        BY <1>2, <4>1
      <4> QED BY <1>3, <4>1, <4>2 DEF Elems
    <3> QED BY <3>1, <3>2
  <2>2. ASSUME NEW i \in 1..Len(s) - 1 PROVE Tail(s)[i] \in Elems(s)
    <3>1. i + 1 \in 1..Len(s)
      BY <1>1
    <3> QED BY <1>1, <1>2, <3>1 DEF Elems
  <2>3. Head(s) \in Elems(s)
    <3>1. 1 \in 1..Len(s)
      BY <1>1, <1>2
    <3> QED BY <1>1, <1>2, <3>1 DEF Elems
  <2> QED BY <1>1, <1>3, <2>1, <2>2, <2>3 DEF Elems
<1>5. Len(s) <= 1 => Tail(s) = << >> /\ Elems(Tail(s)) = {}
  <2> SUFFICES ASSUME Len(s) <= 1 PROVE Tail(s) = << >> /\ Elems(Tail(s)) = {}
    OBVIOUS
  <2>1. Len(Tail(s)) = 0
    BY <1>1, <1>2
  <2>2. Tail(s) = << >>
    BY <1>2, <2>1
  <2>3. DOMAIN Tail(s) = {}
    BY <1>2, <1>3, <2>1
  <2> QED BY <2>2, <2>3 DEF Elems
<1>6. IsSeq(Tail(s))
  BY <1>2, SeqOf
<1>7. \A i \in DOMAIN Tail(s) : i + 1 \in DOMAIN s /\ Tail(s)[i] = s[i + 1]
  BY <1>1, <1>2, <1>3
<1> QED BY <1>2, <1>4, <1>5, <1>6, <1>7

LEMMA ConcatElems ==
  ASSUME NEW s, NEW t, IsSeq(s), IsSeq(t)
  PROVE  /\ IsSeq(s \o t)
         /\ Elems(s \o t) = Elems(s) \cup Elems(t)
         /\ Len(s \o t) = Len(s) + Len(t)
         /\ DOMAIN (s \o t) = 1..Len(s) + Len(t)
         /\ \A i \in 1..Len(s) : (s \o t)[i] = s[i]
         /\ \A i \in 1..Len(t) : (s \o t)[Len(s) + i] = t[i]
<1> DEFINE U == Elems(s) \cup Elems(t)
<1>1. /\ Len(s) \in Nat /\ DOMAIN s = 1..Len(s) /\ s \in Seq(Elems(s))
      /\ Len(t) \in Nat /\ DOMAIN t = 1..Len(t) /\ t \in Seq(Elems(t))
  BY SeqFacts
<1>2. s \in Seq(U) /\ t \in Seq(U)
  <2>1. s \in [1..Len(s) -> U] /\ t \in [1..Len(t) -> U]
    BY <1>1 DEF Elems
  <2> QED BY <1>1, <2>1
<1> HIDE DEF U
<1>3. /\ s \o t \in Seq(U) /\ Len(s \o t) = Len(s) + Len(t)
      /\ \A i \in 1..Len(s) : (s \o t)[i] = s[i]
      /\ \A i \in 1..Len(t) : (s \o t)[Len(s) + i] = t[i]
  <2>1. s \o t \in Seq(U) /\ Len(s \o t) = Len(s) + Len(t)
    BY <1>2
  <2>2. \A i \in 1..Len(s) + Len(t) : (s \o t)[i] = IF i <= Len(s) THEN s[i] ELSE t[i - Len(s)]
    BY <1>2, ConcatProperties
  <2>3. ASSUME NEW i \in 1..Len(t) PROVE (s \o t)[Len(s) + i] = t[i]
    <3>1. Len(s) + i \in 1..Len(s) + Len(t) /\ ~(Len(s) + i <= Len(s)) /\ (Len(s) + i) - Len(s) = i
      BY <1>1
    <3> QED BY <2>2, <3>1
  <2>4. ASSUME NEW i \in 1..Len(s) PROVE (s \o t)[i] = s[i]
    <3>1. i \in 1..Len(s) + Len(t) /\ i <= Len(s)
      BY <1>1
    <3> QED BY <2>2, <3>1
  <2> QED BY <2>1, <2>3, <2>4
<1>4. DOMAIN (s \o t) = 1..Len(s) + Len(t)
  BY <1>3
<1>5. ASSUME NEW i \in 1..Len(s) + Len(t) PROVE (s \o t)[i] \in Elems(s) \cup Elems(t)
  <2>1. CASE i \in 1..Len(s)
    BY <1>1, <1>3, <2>1 DEF Elems
  <2>2. CASE i \notin 1..Len(s)
    <3>1. i - Len(s) \in 1..Len(t) /\ Len(s) + (i - Len(s)) = i
      BY <1>1, <2>2
    <3>2. (s \o t)[i] = t[i - Len(s)]
      BY <1>3, <3>1
    <3> QED BY <1>1, <3>1, <3>2 DEF Elems
  <2> QED BY <2>1, <2>2
<1>6. ASSUME NEW i \in 1..Len(s) PROVE s[i] \in Elems(s \o t)
  <2>1. i \in DOMAIN (s \o t) /\ (s \o t)[i] = s[i]
    BY <1>1, <1>3, <1>4
  <2> QED BY <2>1 DEF Elems
<1>7. ASSUME NEW i \in 1..Len(t) PROVE t[i] \in Elems(s \o t)
  <2>1. Len(s) + i \in DOMAIN (s \o t) /\ (s \o t)[Len(s) + i] = t[i]
    BY <1>1, <1>3, <1>4
  <2> QED BY <2>1 DEF Elems
<1>8. Elems(s \o t) = Elems(s) \cup Elems(t)
  BY <1>1, <1>4, <1>5, <1>6, <1>7 DEF Elems
<1> QED BY <1>3, <1>4, <1>8, SeqOf

LEMMA NoneSeq == IsSeq(<< >>) /\ Elems(<< >>) = {} /\ Len(<< >>) = 0
  BY DEF IsSeq, Elems

LEMMA OneSeq ==
  ASSUME NEW f
  PROVE  IsSeq(<< f >>) /\ Elems(<< f >>) = {f} /\ Len(<< f >>) = 1
<1>1. << f >> \in Seq({f})
  OBVIOUS
<1>2. DOMAIN << f >> = {1} /\ << f >>[1] = f
  OBVIOUS
<1>3. Elems(<< f >>) = {f}
  BY <1>2 DEF Elems
<1> QED BY <1>1, <1>3, SeqOf

LEMMA TwoSeq ==
  ASSUME NEW f, NEW g
  PROVE  IsSeq(<< f, g >>) /\ Elems(<< f, g >>) = {f, g}
<1>1. << f, g >> \in Seq({f, g})
  OBVIOUS
<1>2. DOMAIN << f, g >> = {1, 2} /\ << f, g >>[1] = f /\ << f, g >>[2] = g
  OBVIOUS
<1>3. Elems(<< f, g >>) = {<< f, g >>[1], << f, g >>[2]}
  BY <1>2 DEF Elems
<1> QED BY <1>1, <1>2, <1>3, SeqOf

LEMMA EmptyElems ==
  ASSUME NEW s, IsSeq(s), Elems(s) = {}
  PROVE  s = << >>
<1>1. Len(s) \in Nat /\ DOMAIN s = 1..Len(s)
  BY SeqFacts
<1>2. DOMAIN s = {}
  BY DEF Elems
<1>3. Len(s) = 0
  <2>1. 1 \notin 1..Len(s)
    BY <1>1, <1>2
  <2> QED BY <1>1, <2>1
<1> QED BY <1>3

LEMMA ConcatOrder ==
  ASSUME NEW s, NEW t, IsSeq(s), IsSeq(t), InOrder(s), InOrder(t),
         \/ \A f \in Elems(s) : f.fn \notin Closes
         \/ \A f \in Elems(s) : f.fn # "raft_close" /\ \A g \in Elems(t) : g.fn \in Closes \cup ClusterCbs
         \/ t = << >>
  PROVE  InOrder(s \o t)
<1> DEFINE u == s \o t
<1>1. /\ Len(s) \in Nat /\ DOMAIN s = 1..Len(s) /\ Len(t) \in Nat /\ DOMAIN t = 1..Len(t)
  BY SeqFacts
<1>2. /\ DOMAIN u = 1..Len(s) + Len(t)
      /\ \A i \in 1..Len(s) : u[i] = s[i]
      /\ \A i \in 1..Len(t) : u[Len(s) + i] = t[i]
  BY ConcatElems
<1> HIDE DEF u
<1> SUFFICES ASSUME NEW i \in DOMAIN u, NEW j \in DOMAIN u, i < j
             PROVE  /\ u[i].fn \in Closes => u[j].fn \in Closes \cup ClusterCbs
                    /\ u[i].fn # "raft_close"
  BY DEF InOrder, u
<1>3. CASE j \in 1..Len(s)
  <2>1. i \in 1..Len(s)
    BY <1>1, <1>2, <1>3
  <2> QED BY <1>1, <1>2, <1>3, <2>1 DEF InOrder
<1>4. CASE i \in 1..Len(s) /\ j \notin 1..Len(s)
  <2>0. j \in Int /\ Len(s) < j /\ j <= Len(s) + Len(t)
    BY <1>1, <1>2, <1>4
  <2>1. j - Len(s) \in 1..Len(t) /\ Len(s) + (j - Len(s)) = j
    BY <1>1, <2>0
  <2>2. u[j] = t[j - Len(s)] /\ u[j] \in Elems(t)
    BY <1>1, <1>2, <2>1 DEF Elems
  <2>3. u[i] \in Elems(s)
    BY <1>1, <1>2, <1>4 DEF Elems
  <2>4. "raft_close" \in Closes
    BY DEF Closes
  <2>5. t # << >>
    BY <1>1, <2>1
  <2> QED BY <2>2, <2>3, <2>4, <2>5
<1>5. CASE i \notin 1..Len(s)
  <2>1. /\ i - Len(s) \in 1..Len(t) /\ Len(s) + (i - Len(s)) = i
        /\ j - Len(s) \in 1..Len(t) /\ Len(s) + (j - Len(s)) = j
        /\ i - Len(s) < j - Len(s)
    BY <1>1, <1>2, <1>5
  <2>2. u[i] = t[i - Len(s)] /\ u[j] = t[j - Len(s)]
    BY <1>2, <2>1
  <2> QED BY <1>1, <2>1, <2>2 DEF InOrder
<1> QED BY <1>2, <1>3, <1>4, <1>5

LEMMA ShortOrder ==
  /\ InOrder(<< >>)
  /\ \A f : InOrder(<< f >>)
  /\ \A f, g : f.fn # "raft_close" /\ (f.fn \in Closes => g.fn \in Closes \cup ClusterCbs) => InOrder(<< f, g >>)
<1>1. InOrder(<< >>)
  BY DEF InOrder
<1>2. ASSUME NEW f PROVE InOrder(<< f >>)
  <2>1. DOMAIN << f >> = {1}
    OBVIOUS
  <2> QED BY <2>1 DEF InOrder
<1>3. ASSUME NEW f, NEW g, f.fn # "raft_close", f.fn \in Closes => g.fn \in Closes \cup ClusterCbs
      PROVE  InOrder(<< f, g >>)
  <2>1. DOMAIN << f, g >> = {1, 2} /\ << f, g >>[1] = f /\ << f, g >>[2] = g
    OBVIOUS
  <2>2. ASSUME NEW i \in {1, 2}, NEW j \in {1, 2}, i < j
        PROVE  i = 1 /\ j = 2
    BY <2>2
  <2> QED BY <1>3, <2>1, <2>2 DEF InOrder
<1> QED BY <1>1, <1>2, <1>3

LEMMA TailOrder ==
  ASSUME NEW s, IsSeq(s), s # << >>, InOrder(s)
  PROVE  /\ InOrder(Tail(s))
         /\ Head(s).fn \in Closes => \A g \in Elems(Tail(s)) : g.fn \in Closes \cup ClusterCbs
         /\ Head(s).fn = "raft_close" => Tail(s) = << >>
<1>1. /\ Len(s) \in Nat /\ DOMAIN s = 1..Len(s) /\ Head(s) = s[1]
      /\ IsSeq(Tail(s))
      /\ Len(Tail(s)) = Len(s) - 1
      /\ \A i \in DOMAIN Tail(s) : i + 1 \in DOMAIN s /\ Tail(s)[i] = s[i + 1]
  BY SeqFacts, HeadTail
<1>2. DOMAIN Tail(s) = 1..Len(s) - 1 /\ Len(s) >= 1
  <2>1. Len(Tail(s)) \in Nat /\ DOMAIN Tail(s) = 1..Len(Tail(s))
    BY <1>1, SeqFacts
  <2> QED BY <1>1, <2>1
<1>3. \A i \in DOMAIN Tail(s) : i \in Int /\ 1 < i + 1 /\ 1 \in DOMAIN s
  BY <1>1, <1>2
<1>4. InOrder(Tail(s))
  <2> SUFFICES ASSUME NEW i \in DOMAIN Tail(s), NEW j \in DOMAIN Tail(s), i < j
               PROVE  /\ Tail(s)[i].fn \in Closes => Tail(s)[j].fn \in Closes \cup ClusterCbs
                      /\ Tail(s)[i].fn # "raft_close"
    BY DEF InOrder
  <2>1. i + 1 < j + 1 /\ i + 1 \in DOMAIN s /\ j + 1 \in DOMAIN s
    BY <1>1, <1>3
  <2> QED BY <1>1, <2>1 DEF InOrder
<1>5. Head(s).fn \in Closes => \A g \in Elems(Tail(s)) : g.fn \in Closes \cup ClusterCbs
  BY <1>1, <1>3 DEF InOrder, Elems
<1>6. Head(s).fn = "raft_close" => Tail(s) = << >>
  <2> SUFFICES ASSUME Head(s).fn = "raft_close" PROVE Elems(Tail(s)) = {}
    BY <1>1, EmptyElems
  <2> QED BY <1>1, <1>3 DEF InOrder, Elems
<1> QED BY <1>4, <1>5, <1>6

LEMMA ConcatDef ==
  ASSUME NEW ss, IsSeq(ss)
  PROVE  \E f : /\ f = [n \in 0..Len(ss) |-> IF n = 0 THEN << >> ELSE f[n - 1] \o ss[n]]
                /\ Concat(ss) = f[Len(ss)]
<1> DEFINE Rec(b, f) == f = [n \in 0..b |-> IF n = 0 THEN << >> ELSE f[n - 1] \o ss[n]]
           N == {b \in Nat : \E f : Rec(b, f)}
<1>1. 0 \in N
  <2>1. Rec(0, [n \in 0..0 |-> << >>])
    OBVIOUS
  <2> QED BY <2>1
<1>2. ASSUME NEW b \in Nat, b \in N PROVE b + 1 \in N
  <2>1. PICK f : Rec(b, f)
    BY <1>2
  <2> DEFINE e == f[b] \o ss[b + 1]
             u == [n \in 0..b + 1 |-> IF n = b + 1 THEN e ELSE f[n]]
  <2>2. \A n \in 0..b : u[n] = f[n] /\ n # b + 1
    OBVIOUS
  <2>3. u[b + 1] = e
    OBVIOUS
  <2>4. ASSUME NEW n \in 0..b + 1
        PROVE  u[n] = IF n = 0 THEN << >> ELSE u[n - 1] \o ss[n]
    <3>1. CASE n = 0
      BY <2>1, <2>2, <3>1
    <3>2. CASE n \in 1..b
      <4>1. n \in 0..b /\ n - 1 \in 0..b /\ n # 0
        BY <3>2
      <4>2. u[n] = f[n] /\ u[n - 1] = f[n - 1]
        BY <2>2, <4>1
      <4> HIDE DEF u
      <4> QED BY <2>1, <4>1, <4>2
    <3>3. CASE n = b + 1
      <4>1. u[n] = e /\ u[n - 1] = f[b] /\ n # 0
        BY <2>2, <2>3, <3>3
      <4> HIDE DEF u
      <4> QED BY <3>3, <4>1
    <3> QED BY <3>1, <3>2, <3>3
  <2>5. DOMAIN u = 0..b + 1 /\ u = [n \in 0..b + 1 |-> u[n]]
    OBVIOUS
  <2> HIDE DEF u
  <2>6. Rec(b + 1, u)
    BY <2>4, <2>5
  <2> HIDE DEF Rec
  <2> QED BY <2>6
<1>3. Len(ss) \in Nat
  BY SeqFacts
<1>4. Len(ss) \in N
  <2> HIDE DEF N
  <2>1. \A n \in 0..Len(ss) - 1 : n \in N => n + 1 \in N
    BY <1>2
  <2>2. 0..Len(ss) \subseteq N
    BY <1>1, <1>3, <2>1, InductionUpTo
  <2> QED BY <1>3, <2>2
<1>5. Concat(ss) = (CHOOSE f : Rec(Len(ss), f))[Len(ss)]
  BY DEF Concat
<1>6. Rec(Len(ss), CHOOSE f : Rec(Len(ss), f))
  <2>1. \E f : Rec(Len(ss), f)
    BY <1>4
  <2> HIDE DEF Rec
  <2> QED BY <2>1
<1> QED BY <1>5, <1>6

LEMMA ConcatAll ==
  ASSUME NEW ss, IsSeq(ss), \A i \in DOMAIN ss : IsSeq(ss[i])
  PROVE  /\ IsSeq(Concat(ss))
         /\ Elems(Concat(ss)) = UNION {Elems(ss[i]) : i \in DOMAIN ss}
<1>1. Len(ss) \in Nat /\ DOMAIN ss = 1..Len(ss)
  BY SeqFacts
<1>2. PICK f : /\ f = [n \in 0..Len(ss) |-> IF n = 0 THEN << >> ELSE f[n - 1] \o ss[n]]
               /\ Concat(ss) = f[Len(ss)]
  BY ConcatDef
<1> DEFINE All(n) == UNION {Elems(ss[i]) : i \in 1..n}
           N == {n \in 0..Len(ss) : IsSeq(f[n]) /\ Elems(f[n]) = All(n)}
<1>3. 0 \in N
  <2>1. f[0] = << >> /\ 0 \in 0..Len(ss)
    BY <1>1, <1>2
  <2>2. All(0) = {}
    OBVIOUS
  <2> QED BY <2>1, <2>2, NoneSeq
<1>4. ASSUME NEW n \in 0..Len(ss) - 1, n \in N PROVE n + 1 \in N
  <2>1. n + 1 \in 0..Len(ss) /\ n + 1 \in 1..Len(ss) /\ n + 1 # 0 /\ (n + 1) - 1 = n
    BY <1>1
  <2>2. f[n + 1] = f[n] \o ss[n + 1]
    BY <1>2, <2>1
  <2>3. IsSeq(f[n]) /\ IsSeq(ss[n + 1]) /\ Elems(f[n]) = All(n)
    BY <1>1, <1>4, <2>1
  <2>4. IsSeq(f[n + 1]) /\ Elems(f[n + 1]) = All(n) \cup Elems(ss[n + 1])
    BY <2>2, <2>3, ConcatElems
  <2>5. All(n + 1) = All(n) \cup Elems(ss[n + 1])
    <3>1. 1..n + 1 = (1..n) \cup {n + 1}
      OBVIOUS
    <3> HIDE DEF Elems
    <3> QED BY <3>1
  <2> QED BY <2>1, <2>4, <2>5
<1>5. Len(ss) \in N
  <2> HIDE DEF N
  <2>1. 0..Len(ss) \subseteq N
    BY <1>1, <1>3, <1>4, InductionUpTo
  <2> QED BY <1>1, <2>1
<1> QED BY <1>1, <1>2, <1>5

LEMMA CallbackFacts ==
  ASSUME NEW e, NEW st
  PROVE  /\ IsSeq(Callback(e, st))
         /\ e.c = NoConn => Elems(Callback(e, st)) = {}
         /\ e.c # NoConn => \E f : /\ Callback(e, st) = << f >> /\ Elems(Callback(e, st)) = {f}
                                   /\ f.fn \in Fires /\ f.c = e.c /\ f.st = st
                                   /\ f.fn = "leaderApplyFramesCb" <=> e.cmd = "frames"
                                   /\ f.fn = "raftBarrierCb" <=> e.cmd = "gbarrier"
<1>1. CASE e.c = NoConn
  BY <1>1, NoneSeq DEF Callback
<1>2. CASE e.c # NoConn
  <2> DEFINE fn == CASE e.cmd = "frames"   -> "leaderApplyFramesCb"
                     [] e.cmd = "gbarrier" -> "raftBarrierCb"
                     [] OTHER              -> "raftBarrierCbExec"
  <2>1. /\ fn \in Fires
        /\ fn = "leaderApplyFramesCb" <=> e.cmd = "frames"
        /\ fn = "raftBarrierCb" <=> e.cmd = "gbarrier"
    BY DEF Fires
  <2>2. Callback(e, st) = << Fn(fn, e.c, st) >>
    BY <1>2 DEF Callback
  <2> HIDE DEF fn
  <2>3. Fn(fn, e.c, st).fn = fn /\ Fn(fn, e.c, st).c = e.c /\ Fn(fn, e.c, st).st = st
    BY DEF Fn
  <2> HIDE DEF Fn
  <2>4. IsSeq(<< Fn(fn, e.c, st) >>) /\ Elems(<< Fn(fn, e.c, st) >>) = {Fn(fn, e.c, st)}
    BY OneSeq
  <2> QED BY <1>2, <2>1, <2>2, <2>3, <2>4
<1> QED BY <1>1, <1>2

\* What raft calls for the entries es, with status st.
LEMMA CallbacksFacts ==
  ASSUME NEW es, NEW st, IsSeq(es)
  PROVE  /\ IsSeq(Callbacks(es, st))
         /\ \A f \in Elems(Callbacks(es, st)) :
              /\ f.fn \in Fires /\ f.st = st
              /\ \E e \in Elems(es) : /\ e.c # NoConn /\ f.c = e.c
                                      /\ f.fn = "leaderApplyFramesCb" <=> e.cmd = "frames"
                                      /\ f.fn = "raftBarrierCb" <=> e.cmd = "gbarrier"
         /\ \A e \in Elems(es) : e.c # NoConn /\ e.cmd = "frames" =>
              \E f \in Elems(Callbacks(es, st)) :
                f.fn = "leaderApplyFramesCb" /\ f.c = e.c /\ f.st = st
<1> DEFINE ss == [i \in DOMAIN es |-> Callback(es[i], st)]
<1>1. Len(es) \in Nat /\ DOMAIN es = 1..Len(es)
  BY SeqFacts
<1>2. IsSeq(ss)
  <2> DEFINE U == {Callback(es[i], st) : i \in DOMAIN es}
  <2>1. ss \in [1..Len(es) -> U]
    BY <1>1
  <2> HIDE DEF ss, U
  <2>2. ss \in Seq(U)
    BY <1>1, <2>1
  <2> QED BY <2>2, SeqOf
<1>3. DOMAIN ss = DOMAIN es /\ \A i \in DOMAIN es : ss[i] = Callback(es[i], st)
  OBVIOUS
<1>4. Callbacks(es, st) = Concat(ss)
  BY DEF Callbacks
<1> HIDE DEF ss
<1>5. \A i \in DOMAIN ss : IsSeq(ss[i])
  BY <1>3, CallbackFacts
<1>6. /\ IsSeq(Concat(ss))
      /\ Elems(Concat(ss)) = UNION {Elems(ss[i]) : i \in DOMAIN ss}
  BY <1>2, <1>5, ConcatAll
<1>7. ASSUME NEW f \in Elems(Callbacks(es, st))
      PROVE  /\ f.fn \in Fires /\ f.st = st
             /\ \E e \in Elems(es) : /\ e.c # NoConn /\ f.c = e.c
                                     /\ f.fn = "leaderApplyFramesCb" <=> e.cmd = "frames"
                                     /\ f.fn = "raftBarrierCb" <=> e.cmd = "gbarrier"
  <2>1. PICK i \in DOMAIN es : f \in Elems(Callback(es[i], st))
    BY <1>3, <1>4, <1>6
  <2>2. es[i].c # NoConn
    BY <2>1, CallbackFacts
  <2>3. PICK g : /\ Elems(Callback(es[i], st)) = {g}
                 /\ g.fn \in Fires /\ g.c = es[i].c /\ g.st = st
                 /\ g.fn = "leaderApplyFramesCb" <=> es[i].cmd = "frames"
                 /\ g.fn = "raftBarrierCb" <=> es[i].cmd = "gbarrier"
    BY <2>2, CallbackFacts
  <2>4. f = g /\ es[i] \in Elems(es)
    BY <2>1, <2>3 DEF Elems
  <2> QED BY <2>2, <2>3, <2>4
<1>8. ASSUME NEW e \in Elems(es), e.c # NoConn, e.cmd = "frames"
      PROVE  \E f \in Elems(Callbacks(es, st)) :
               f.fn = "leaderApplyFramesCb" /\ f.c = e.c /\ f.st = st
  <2>1. PICK i \in DOMAIN es : e = es[i]
    BY DEF Elems
  <2>2. PICK g : /\ Elems(Callback(e, st)) = {g} /\ g.c = e.c /\ g.st = st
                 /\ g.fn = "leaderApplyFramesCb" <=> e.cmd = "frames"
    BY <1>8, CallbackFacts
  <2>3. g \in Elems(Callbacks(es, st))
    BY <1>3, <1>4, <1>6, <2>1, <2>2
  <2> QED BY <1>8, <2>2, <2>3
<1> QED BY <1>4, <1>6, <1>7, <1>8

LEMMA ConnSeqFacts == ConnSeq \in [1..Cardinality(Conn) -> Conn] /\ Cardinality(Conn) \in Nat
<1> DEFINE n == Cardinality(Conn)
           P(s) == \A i, j \in DOMAIN s : s[i] = s[j] => i = j
<1>1. n \in Nat /\ ExistsBijection(1..n, Conn)
  BY NodeAssumption, FS_CardinalityType
<1>2. PICK s \in Bijection(1..n, Conn) : TRUE
  BY <1>1 DEF ExistsBijection
<1>3. s \in [1..n -> Conn] /\ P(s)
  BY <1>2 DEF Bijection, Injection, IsInjective
<1>4. ConnSeq = CHOOSE t \in [1..n -> Conn] : P(t)
  BY DEF ConnSeq
<1> HIDE DEF P, n
<1>5. ConnSeq \in [1..n -> Conn]
  BY <1>3, <1>4
<1> QED BY <1>1, <1>5 DEF n

LEMMA ForAllFacts ==
  ASSUME NEW fn, NEW st
  PROVE  /\ IsSeq(ForAll(fn, st))
         /\ \A f \in Elems(ForAll(fn, st)) : f.fn = fn /\ f.c \in Conn /\ f.st = st
<1> DEFINE ss == [i \in DOMAIN ConnSeq |-> IF conn[ConnSeq[i]].io = "none" THEN << >>
                                            ELSE << Fn(fn, ConnSeq[i], st) >>]
           n == Cardinality(Conn)
<1>1. n \in Nat /\ DOMAIN ConnSeq = 1..n /\ \A i \in 1..n : ConnSeq[i] \in Conn
  BY ConnSeqFacts
<1> HIDE DEF n
<1>2. IsSeq(ss)
  <2> DEFINE U == {ss[i] : i \in 1..n}
  <2>1. ss \in [1..n -> U]
    BY <1>1
  <2> HIDE DEF ss, U
  <2>2. ss \in Seq(U)
    BY <1>1, <2>1
  <2> QED BY <2>2, SeqOf
<1>3. DOMAIN ss = 1..n /\ \A i \in 1..n : ss[i] = << >> \/ ss[i] = << Fn(fn, ConnSeq[i], st) >>
  BY <1>1
<1>4. ForAll(fn, st) = Concat(ss)
  BY DEF ForAll
<1> HIDE DEF ss
<1>5. \A i \in DOMAIN ss : IsSeq(ss[i])
  BY <1>3, NoneSeq, OneSeq
<1>6. /\ IsSeq(Concat(ss))
      /\ Elems(Concat(ss)) = UNION {Elems(ss[i]) : i \in DOMAIN ss}
  BY <1>2, <1>5, ConcatAll
<1>7. ASSUME NEW f \in Elems(ForAll(fn, st)) PROVE f.fn = fn /\ f.c \in Conn /\ f.st = st
  <2>1. PICK i \in 1..n : f \in Elems(ss[i])
    BY <1>3, <1>4, <1>6
  <2>2. f = Fn(fn, ConnSeq[i], st)
    BY <1>3, <2>1, NoneSeq, OneSeq
  <2> QED BY <1>1, <2>2 DEF Fn
<1> QED BY <1>4, <1>6, <1>7

---------------------------------------------------------------------------
(* One step of the loop thread *)

\* The function that is next, for connection c, runs and calls fns: it touches no
\* other connection.
StepOf(c, fns) ==
  /\ call # << >> /\ Head(call).c = c /\ Head(call).fn # "raft_close"
  /\ Leave(fns)
  /\ DOMAIN conn' = Conn /\ \A x \in Conn \ {c} : conn'[x] = conn[x]
  /\ raft'.state = raft.state
  /\ \A x \in Conn \ {c} : /\ raft'.transfer = x <=> raft.transfer = x
                           /\ raft'.change = x <=> raft.change = x
  /\ \A e : e.c \in Conn \ {c} => (e \in Entries' <=> e \in Entries)
  /\ applied' = applied /\ scenario' = scenario

\* What a connection waits for gets less, and so do its entries; the callback of
\* what it still waits for was not the function that ran.
Shrinks(c) ==
  /\ Free(c) => Free(c)'
  /\ conn'[c].gbar # "none" => conn[c].gbar # "none" /\ Head(call).fn # "raftBarrierCb"
  /\ conn'[c].ebar # "none" => conn[c].ebar # "none" /\ Head(call).fn # "raftBarrierCbExec"
  /\ conn'[c].inflight => conn[c].inflight /\ Head(call).fn # "leaderApplyFramesCb"
  /\ raft'.transfer = c => raft.transfer = c
  /\ raft'.change = c => raft.change = c
  /\ \A e \in Entries' : e.c = c => e \in Entries

LEMMA CallParts ==
  ASSUME NodeInv, call # << >>
  PROVE  /\ IsSeq(call) /\ IsSeq(Tail(call)) /\ InOrder(Tail(call))
         /\ Calls = {Head(call)} \cup Later
         /\ Sound(Head(call)) /\ \A f \in Later : Sound(f)
         /\ \/ Tail(call) = << >> /\ Later = {}
            \/ Ends(Head(call)) /\ \A f \in Later : Ends(f)
         /\ Head(call).fn \in Closes => \A f \in Later : f.fn \in Closes \cup ClusterCbs
         /\ Head(call).fn = "raft_close" => Later = {} /\ Tail(call) = << >>
<1>1. IsSeq(call) /\ InOrder(call) /\ AllEnd /\ \A f \in Calls : Sound(f)
  BY DEF NodeInv, Shape
<1>2. /\ IsSeq(Tail(call)) /\ Calls = {Head(call)} \cup Later
      /\ Len(call) <= 1 => Tail(call) = << >> /\ Later = {}
  BY <1>1, HeadTail DEF Calls, Later
<1>3. /\ InOrder(Tail(call))
      /\ Head(call).fn \in Closes => \A f \in Later : f.fn \in Closes \cup ClusterCbs
      /\ Head(call).fn = "raft_close" => Tail(call) = << >>
  BY <1>1, TailOrder DEF Later
<1>4. Tail(call) = << >> => Later = {}
  BY NoneSeq DEF Later
<1> QED BY <1>1, <1>2, <1>3, <1>4 DEF AllEnd

\* What the functions called and those left make of call.
LEMMA Leaves ==
  ASSUME NodeInv, call # << >>, NEW fns, IsSeq(fns), InOrder(fns), Leave(fns),
         \/ \A f \in Elems(fns) : f.fn \notin Closes
         \/ Head(call).fn \in Closes /\ \A f \in Elems(fns) : f.fn # "raft_close"
         \/ ~Ends(Head(call)),
         \/ Len(fns) <= 1 /\ (Ends(Head(call)) => \A f \in Elems(fns) : Ends(f))
         \/ \A f \in Elems(fns) : Ends(f) /\ Ends(Head(call))
  PROVE  /\ IsSeq(call)' /\ InOrder(call)' /\ AllEnd'
         /\ Calls' = Elems(fns) \cup Later
<1>1. /\ IsSeq(call) /\ IsSeq(Tail(call)) /\ InOrder(Tail(call))
      /\ \/ Tail(call) = << >> /\ Later = {}
         \/ Ends(Head(call)) /\ \A f \in Later : Ends(f)
      /\ Head(call).fn \in Closes => \A f \in Later : f.fn \in Closes \cup ClusterCbs
  BY CallParts
<1>2. call' = fns \o Tail(call)
  BY DEF Leave
<1>3. /\ IsSeq(fns \o Tail(call)) /\ Elems(fns \o Tail(call)) = Elems(fns) \cup Elems(Tail(call))
      /\ Len(fns \o Tail(call)) = Len(fns) + Len(Tail(call))
  BY <1>1, ConcatElems
<1>4. InOrder(fns \o Tail(call))
  BY <1>1, ConcatOrder DEF Later
<1>5. Calls' = Elems(fns) \cup Later
  BY <1>2, <1>3 DEF Calls, Later
<1>6. AllEnd'
  <2>1. CASE \A f \in Elems(fns) \cup Later : Ends(f)
    BY <1>5, <2>1 DEF AllEnd, Ends
  <2>2. CASE Tail(call) = << >> /\ Len(fns) <= 1
    <3>1. Len(call') = Len(fns)
      <4>1. Len(fns) \in Nat
        BY SeqFacts
      <4>2. Len(call') = Len(fns) + 0
        BY <1>2, <1>3, <2>2, NoneSeq
      <4> QED BY <4>1, <4>2
    <3> QED BY <2>2, <3>1 DEF AllEnd
  <2>3. (\A f \in Elems(fns) \cup Later : Ends(f)) \/ (Tail(call) = << >> /\ Len(fns) <= 1)
    BY <1>1
  <2> QED BY <2>1, <2>2, <2>3
<1> QED BY <1>2, <1>3, <1>4, <1>5, <1>6 DEF IsSeq, InOrder

\* The other connections, their entries and their functions.
LEMMA OthersSound ==
  ASSUME NodeInv, NEW c \in Conn, NEW fns, StepOf(c, fns), Calls' = Elems(fns) \cup Later,
         RaftShape(raft'), Later = {} \/ Shrinks(c)
  PROVE  /\ \A x \in Conn \ {c} : ConnShape(conn[x])' /\ ConnSound(x)' /\ ValsSound(x)'
         /\ \A e \in Entries' : e.c \in Conn \ {c} => EntrySound(e)'
         /\ \A f \in Later : Sound(f)'
<1>1. /\ Calls = {Head(call)} \cup Later /\ Head(call).c = c /\ Head(call).fn # "raft_close"
      /\ \A f \in Later : Sound(f)
      /\ \A x \in Conn : ConnShape(conn[x]) /\ ConnSound(x) /\ ValsSound(x)
      /\ \A e \in Entries : EntrySound(e)
  BY CallParts DEF StepOf, NodeInv, Shape
<1>2. \A fn : \A x \in Conn \ {c} : InCall(fn, x) => InCall(fn, x)'
  BY <1>1 DEF InCall
<1>3. ClosesRaft => ClosesRaft'
  BY <1>1 DEF ClosesRaft
<1>4. ASSUME NEW x \in Conn \ {c}
      PROVE  /\ conn'[x] = conn[x]
             /\ raft'.transfer = x <=> raft.transfer = x
             /\ raft'.change = x <=> raft.change = x
             /\ Free(x)' = Free(x)
             /\ WaitsFired(x) => WaitsFired(x)'
             /\ Doomed(x) => Doomed(x)'
             /\ \A e \in Entries : e.c = x => e \in Entries'
             /\ \A e \in Entries' : e.c = x => e \in Entries
  <2>1. /\ conn'[x] = conn[x]
        /\ raft'.transfer = x <=> raft.transfer = x
        /\ raft'.change = x <=> raft.change = x
        /\ \A e \in Entries : e.c = x => e \in Entries'
        /\ \A e \in Entries' : e.c = x => e \in Entries
    BY DEF StepOf
  <2>2. Free(x)' = Free(x)
    BY <2>1 DEF Free
  <2>3. WaitsFired(x) => WaitsFired(x)'
    BY <1>2, <2>1 DEF WaitsFired
  <2>4. Doomed(x) => Doomed(x)'
    BY <1>1 DEF Doomed
  <2> QED BY <2>1, <2>2, <2>3, <2>4
<1>5. ASSUME NEW x \in Conn \ {c} PROVE ConnShape(conn[x])' /\ ConnSound(x)' /\ ValsSound(x)'
  <2>1. ConnShape(conn[x])'
    BY <1>1, <1>4 DEF ConnShape
  <2>2. ConnSound(x)'
    BY <1>1, <1>2, <1>3, <1>4 DEF ConnSound
  <2>3. ValsSound(x)'
    BY <1>1, <1>4 DEF ValsSound, Frames, StepOf
  <2> QED BY <2>1, <2>2, <2>3
<1>6. ASSUME NEW e \in Entries', e.c \in Conn \ {c} PROVE EntrySound(e)'
  BY <1>1, <1>3, <1>4, <1>6 DEF EntrySound, StepOf
<1>7. ASSUME NEW f \in Later PROVE Sound(f)'
  <2>1. Shrinks(c) /\ Sound(f) /\ Ends(f)
    BY CallParts DEF StepOf
  <2>2. NoRequests => NoRequests'
    <3> SUFFICES ASSUME NoRequests, NEW e \in Entries', e.c # NoConn PROVE FALSE
      BY DEF NoRequests
    <3>1. e.c \in Conn
      BY DEF RaftShape, EntryShape, Entries
    <3>2. e \in Entries
      BY <1>4, <2>1, <3>1 DEF Shrinks
    <3> QED BY <3>2 DEF NoRequests
  <2>3. CASE f.c \in Conn \ {c}
    BY <1>3, <1>4, <2>1, <2>2, <2>3 DEF Sound, Frames, GBarrier, EBarrier
  <2>4. CASE f.c = c
    <3>1. /\ Free(c) => Free(c)'
          /\ conn'[c].gbar # "none" => conn[c].gbar # "none" /\ Head(call).fn # "raftBarrierCb"
          /\ conn'[c].ebar # "none" => conn[c].ebar # "none" /\ Head(call).fn # "raftBarrierCbExec"
          /\ conn'[c].inflight => conn[c].inflight /\ Head(call).fn # "leaderApplyFramesCb"
          /\ raft'.transfer = c => raft.transfer = c
          /\ raft'.change = c => raft.change = c
          /\ \A e \in Entries' : e.c = c => e \in Entries
      BY <2>1 DEF Shrinks
    <3>2. WaitsFired(c) => WaitsFired(c)'
      <4>1. \A fn : InCall(fn, c) /\ Head(call).fn # fn => InCall(fn, c)'
        BY <1>1 DEF InCall
      <4> QED BY <3>1, <4>1 DEF WaitsFired
    <3>3. Sound(f)
      BY <2>1
    <3> QED BY <1>3, <2>1, <2>2, <2>4, <3>1, <3>2, <3>3 DEF Sound, Frames, GBarrier, EBarrier
  <2>5. CASE f.c \notin Conn
    <3>1. f.fn \in {"convertSetState", "raft_close"}
      BY <2>1, <2>5 DEF Sound
    <3>2. Sound(f) /\ (NoRequests => NoRequests')
      BY <2>1, <2>2
    <3>3. f.fn \notin Runs \cup Fires \cup LeaderCloses /\ f.fn \notin Resumed
      BY <3>1 DEF Runs, Fires, LeaderCloses, Resumed, RequestTypes, BarrierCbs, ExecCbs, ClusterCbs
    <3> QED BY <3>1, <3>2, <3>3 DEF Sound
  <2> QED BY <2>3, <2>4, <2>5
<1> QED BY <1>5, <1>6, <1>7

\* A step of one connection preserves the invariant if it does so for its own state.
LEMMA StepInv ==
  ASSUME NodeInv, NEW c \in Conn, NEW fns, StepOf(c, fns), IsSeq(fns), InOrder(fns),
         \/ \A f \in Elems(fns) : f.fn \notin Closes
         \/ Head(call).fn \in Closes /\ \A f \in Elems(fns) : f.fn # "raft_close"
         \/ ~Ends(Head(call)),
         \/ Len(fns) <= 1 /\ (Ends(Head(call)) => \A f \in Elems(fns) : Ends(f))
         \/ \A f \in Elems(fns) : Ends(f) /\ Ends(Head(call)),
         Ends(Head(call)) => Shrinks(c),
         RaftShape(raft'), ConnShape(conn'[c]),
         Calls' = Elems(fns) \cup Later =>
           /\ \A f \in Elems(fns) : Sound(f)'
           /\ ConnSound(c)' /\ ValsSound(c)'
           /\ \A e \in Entries' : e.c = c => EntrySound(e)',
         OneEntry', acked' \subseteq applied
  PROVE  NodeInv'
<1>1. call # << >> /\ Leave(fns) /\ scenario' = scenario /\ applied' = applied /\ DOMAIN conn' = Conn
  BY DEF StepOf
<1>2. /\ IsSeq(call)' /\ InOrder(call)' /\ AllEnd' /\ Calls' = Elems(fns) \cup Later
  BY <1>1, Leaves
<1>3. Later = {} \/ Ends(Head(call))
  BY <1>1, CallParts
<1>4. /\ \A x \in Conn \ {c} : ConnShape(conn[x])' /\ ConnSound(x)' /\ ValsSound(x)'
      /\ \A e \in Entries' : e.c \in Conn \ {c} => EntrySound(e)'
      /\ \A f \in Later : Sound(f)'
  BY <1>2, <1>3, OthersSound
<1>5. \A f \in Calls' : Sound(f)'
  BY <1>2, <1>4
<1>6. \A x \in Conn : ConnShape(conn[x])' /\ ConnSound(x)' /\ ValsSound(x)'
  <2>1. ConnShape(conn[c])'
    BY DEF ConnShape
  <2> QED BY <1>2, <1>4, <2>1
<1>7. \A e \in Entries' : EntrySound(e)'
  <2> SUFFICES ASSUME NEW e \in Entries' PROVE EntrySound(e)'
    OBVIOUS
  <2>1. e.c \in Conn \cup {NoConn}
    BY DEF RaftShape, EntryShape, Entries
  <2>2. CASE e.c = NoConn
    BY <2>2 DEF EntrySound
  <2> QED BY <1>2, <1>4, <2>1, <2>2
<1>8. Shape'
  <2>1. RaftShape(raft)'
    BY DEF RaftShape, EntryShape
  <2>2. scenario \in DOMAIN Scenarios
    BY DEF NodeInv, Shape
  <2> QED BY <1>1, <1>2, <1>6, <2>1, <2>2 DEF Shape
<1> QED BY <1>1, <1>2, <1>5, <1>6, <1>7, <1>8 DEF NodeInv

LEMMA Names ==
  /\ \A fn \in Runs : fn \notin Closes /\ fn \notin Fires
  /\ \A fn \in Fires : fn \notin Closes /\ fn \notin Resumed
  /\ Resumed \subseteq Runs /\ ClusterCbs \subseteq Runs /\ RequestTypes \subseteq Runs
  /\ BarrierCbs \subseteq Resumed /\ ExecCbs \subseteq Resumed /\ LeaderCloses \subseteq Closes
  /\ {"execBarrierCb", "leaderExecV2", "handle_exec_sql_next"} \subseteq Resumed
  /\ "query_batch" \in Runs \ Resumed
  /\ {"conn__stop", "gateway__leader_close", "convertSetState", "raft_close"} \subseteq Closes \ LeaderCloses
  /\ Fires = {"leaderApplyFramesCb", "raftBarrierCb", "raftBarrierCbExec"}
  BY DEF Runs, Resumed, Fires, Closes, LeaderCloses, ClusterCbs, BarrierCbs, ExecCbs, RequestTypes

\* A function that runs for a request: its connection waits for nothing.
LEMMA RunsFree ==
  ASSUME NodeInv, call # << >>, Head(call).fn \in Runs
  PROVE  /\ self \in Conn /\ Free(self) /\ ConnShape(conn[self]) /\ DOMAIN conn = Conn
         /\ ConnSound(self) /\ ValsSound(self)
         /\ Head(call).fn \notin Closes /\ Head(call).fn \notin Fires
         /\ \A e \in Entries : EntrySound(e)
         /\ ~Ends(Head(call)) => conn[self].io = "handling" /\ Later = {} /\ Tail(call) = << >>
         /\ ~Ends(Head(call)) /\ Head(call).fn \in Resumed => conn[self].req # "none" /\ conn[self].d # NoDb
<1>1. Sound(Head(call))
  BY CallParts
<1>2. Head(call).fn \notin Closes /\ Head(call).fn \notin Fires
  BY Names
<1>3. self \in Conn /\ Free(self)
  BY <1>1, <1>2 DEF Sound, Closes, self
<1>4. ~Ends(Head(call)) => conn[self].io = "handling" /\ Later = {} /\ Tail(call) = << >>
  BY <1>1, CallParts DEF Sound, self
<1>5. ~Ends(Head(call)) /\ Head(call).fn \in Resumed => conn[self].req # "none" /\ conn[self].d # NoDb
  BY <1>1 DEF Sound, self
<1> QED BY <1>2, <1>3, <1>4, <1>5 DEF NodeInv, Shape

\* The connection record r waits for what s does.
SameWaits(r, s) ==
  DOMAIN r = ConnFields /\ r.gbar = s.gbar /\ r.ebar = s.ebar /\ r.inflight = s.inflight

IsDoom(f) ==
  f.st \in Failures /\ f.fn \in ExecCbs \cup {"execBarrierCb", "leaderApplyFramesCb"}

\* The function that runs answers, or calls at most one function that goes on.
LEMMA Goes ==
  ASSUME NodeInv, call # << >>, Head(call).fn \in Runs, NEW fns, NEW r,
         Leave(fns), raft' = raft,
         conn' = [conn EXCEPT ![self] = r] \/ (conn' = conn /\ r = conn[self]),
         applied' = applied, scenario' = scenario, acked' \subseteq applied,
         SameWaits(r, conn[self]), r.exec \in ExecCbs, r.vals \subseteq conn[self].vals,
         \/ fns = << >> /\ r.io \in {conn[self].io, "writing"}
         \/ \E f : /\ fns = << f >> /\ f.c = self /\ r.io = conn[self].io
                   /\ \/ f.fn = "conn__stop" /\ ~Ends(Head(call))
                      \/ f.fn \in Resumed \cup {"query_batch"} /\ (Ends(Head(call)) => Ends(f))
                   /\ f.fn \in Resumed /\ ~Ends(f) => r.req # "none" /\ r.d # NoDb,
         r.exec # "none" =>
           \/ r.exec = conn[self].exec /\ Head(call).fn \notin {"execBarrierCb", "leaderExecV2"}
           \/ \E f \in Elems(fns) : f.fn \in {"execBarrierCb", "leaderExecV2"} /\ f.c = self,
         IsDoom(Head(call)) => r.vals = {} \/ \E f \in Elems(fns) : IsDoom(f) /\ f.c = self
  PROVE  NodeInv'
<1>0. PICK c \in Conn : c = self
  BY RunsFree
<1>1. /\ c \in Conn /\ Free(c) /\ ConnShape(conn[c]) /\ DOMAIN conn = Conn
      /\ ConnSound(c) /\ ValsSound(c)
      /\ Head(call).fn \notin Closes /\ Head(call).fn \notin Fires
      /\ \A e \in Entries : EntrySound(e)
      /\ ~Ends(Head(call)) => conn[c].io = "handling"
  BY <1>0, RunsFree
<1>2. Head(call).c = c
  BY <1>0 DEF self
<1>3. conn'[c] = r /\ DOMAIN conn' = Conn /\ \A x \in Conn \ {c} : conn'[x] = conn[x]
  BY <1>0, <1>1
<1>4. Entries' = Entries
  BY DEF Entries
<1>5. StepOf(c, fns)
  <2>1. Head(call).fn # "raft_close"
    BY <1>1, Names
  <2> QED BY <1>2, <1>3, <1>4, <2>1 DEF StepOf
<1>6. Free(c)'
  BY <1>0, <1>1, <1>3 DEF Free, SameWaits
<1>7. Ends(Head(call)) => Shrinks(c)
  BY <1>1, <1>3, <1>4, <1>6 DEF Shrinks, Free
<1>8. /\ IsSeq(fns) /\ InOrder(fns) /\ Len(fns) <= 1
      /\ (\A f \in Elems(fns) : f.fn \notin Closes) \/ ~Ends(Head(call))
      /\ Ends(Head(call)) => \A f \in Elems(fns) : Ends(f)
  <2>1. CASE fns = << >>
    BY <2>1, NoneSeq, ShortOrder
  <2>2. CASE fns # << >>
    <3>1. PICK f : fns = << f >> /\ (\/ f.fn = "conn__stop" /\ ~Ends(Head(call))
                                     \/ f.fn \in Resumed \cup {"query_batch"} /\ (Ends(Head(call)) => Ends(f)))
      BY <2>2
    <3>2. f.fn \in Resumed \cup {"query_batch"} => f.fn \notin Closes
      BY Names
    <3>3. IsSeq(<< f >>) /\ InOrder(<< f >>) /\ Elems(<< f >>) = {f} /\ Len(<< f >>) = 1
      BY OneSeq, ShortOrder
    <3> QED BY <3>1, <3>2, <3>3
  <2> QED BY <2>1, <2>2
<1>9. ASSUME Calls' = Elems(fns) \cup Later, NEW f \in Elems(fns) PROVE Sound(f)'
  <2>1. fns # << >>
    BY NoneSeq
  <2>2. PICK g : /\ fns = << g >> /\ g.c = c /\ r.io = conn[c].io
                 /\ \/ g.fn = "conn__stop" /\ ~Ends(Head(call))
                    \/ g.fn \in Resumed \cup {"query_batch"} /\ (Ends(Head(call)) => Ends(g))
                 /\ g.fn \in Resumed /\ ~Ends(g) => r.req # "none" /\ r.d # NoDb
    BY <1>0, <2>1
  <2>3. f = g
    BY <2>2, OneSeq
  <2>4. CASE f.fn = "conn__stop"
    BY <1>1, <1>6, <2>2, <2>3, <2>4, Names DEF Sound
  <2>5. CASE f.fn \in Resumed \cup {"query_batch"}
    <3>1. /\ f.fn \in Runs /\ f.fn \notin Fires /\ f.fn \notin Closes
      BY <2>5, Names
    <3>2. ~Ends(f) => conn'[c].io = "handling"
      BY <1>0, <1>1, <1>3, <2>2, <2>3, <2>5, Names
    <3>3. f.fn \in Resumed /\ ~Ends(f) => conn'[c].req # "none" /\ conn'[c].d # NoDb
      BY <1>3, <2>2, <2>3
    <3> QED BY <1>1, <1>6, <2>2, <2>3, <3>1, <3>2, <3>3, Names DEF Sound
  <2> QED BY <2>2, <2>3, <2>4, <2>5
<1>10. ASSUME Calls' = Elems(fns) \cup Later PROVE ConnSound(c)'
  <2>1. /\ conn'[c].gbar = "none" /\ conn'[c].ebar = "none" /\ ~conn'[c].inflight
        /\ raft'.transfer # c /\ raft'.change # c
    BY <1>6 DEF Free
  <2>2. conn'[c].exec # "none" => InCall("execBarrierCb", c)' \/ InCall("leaderExecV2", c)'
    <3>1. CASE \E f \in Elems(fns) : f.fn \in {"execBarrierCb", "leaderExecV2"} /\ f.c = c
      BY <1>10, <3>1 DEF InCall
    <3>2. CASE r.exec = conn[c].exec /\ Head(call).fn \notin {"execBarrierCb", "leaderExecV2"}
      <4>1. conn[c].exec # "none" => InCall("execBarrierCb", c) \/ InCall("leaderExecV2", c)
        BY <1>1 DEF ConnSound, Free
      <4>2. Calls = {Head(call)} \cup Later
        BY CallParts
      <4> QED BY <1>3, <1>10, <3>2, <4>1, <4>2 DEF InCall
    <3> QED BY <1>0, <1>3, <3>1, <3>2
  <2> QED BY <1>6, <2>1, <2>2 DEF ConnSound, WaitsFired
<1>11. ASSUME Calls' = Elems(fns) \cup Later PROVE ValsSound(c)'
  <2> SUFFICES ASSUME NEW v \in r.vals
               PROVE  v \in applied \/ (\E e \in Entries : Frames(e, c) /\ e.val = v) \/ Doomed(c)'
    BY <1>3, <1>4 DEF ValsSound
  <2>1. v \in applied \/ (\E e \in Entries : Frames(e, c) /\ e.val = v) \/ Doomed(c)
    BY <1>0, <1>1 DEF ValsSound
  <2>2. ASSUME Doomed(c) PROVE Doomed(c)'
    <3>1. PICK f \in Calls : f.c = c /\ IsDoom(f)
      BY <2>2 DEF Doomed, IsDoom
    <3>2. Calls = {Head(call)} \cup Later
      BY CallParts
    <3>3. CASE f = Head(call)
      BY <1>0, <1>11, <3>1, <3>3 DEF Doomed, IsDoom
    <3>4. CASE f \in Later
      BY <1>11, <3>1, <3>4 DEF Doomed, IsDoom
    <3> QED BY <3>1, <3>2, <3>3, <3>4
  <2> QED BY <2>1, <2>2
<1>12. ASSUME Calls' = Elems(fns) \cup Later, NEW e \in Entries', e.c = c PROVE EntrySound(e)'
  <2>1. EntrySound(e) /\ Calls = {Head(call)} \cup Later
    BY <1>1, <1>4, CallParts
  <2>2. ClosesRaft => ClosesRaft'
    BY <1>1, <1>12, <2>1, Names DEF ClosesRaft
  <2> QED BY <1>1, <1>6, <1>12, <2>1, <2>2 DEF EntrySound, Free
<1>13. RaftShape(raft') /\ ConnShape(conn'[c]) /\ OneEntry'
  <2>1. RaftShape(raft) /\ OneEntry
    BY DEF NodeInv, Shape
  <2>2. ConnShape(conn'[c])
    BY <1>0, <1>1, <1>3 DEF ConnShape, SameWaits
  <2> QED BY <2>1, <2>2 DEF OneEntry
<1> HIDE DEF Ends
<1> QED BY <1>1, <1>5, <1>7, <1>8, <1>9, <1>10, <1>11, <1>12, <1>13, StepInv

LEMMA AppendElems ==
  ASSUME NEW s, NEW e, IsSeq(s)
  PROVE  /\ IsSeq(Append(s, e)) /\ Elems(Append(s, e)) = Elems(s) \cup {e}
         /\ Len(Append(s, e)) = Len(s) + 1 /\ DOMAIN Append(s, e) = 1..Len(s) + 1
         /\ \A i \in 1..Len(s) : Append(s, e)[i] = s[i]
         /\ Append(s, e)[Len(s) + 1] = e
<1>1. Len(s) \in Nat /\ DOMAIN s = 1..Len(s) /\ s \in Seq(Elems(s))
  BY SeqFacts
<1> DEFINE U == Elems(s) \cup {e}
<1>2. s \in Seq(U) /\ e \in U
  <2>1. s \in [1..Len(s) -> U]
    BY <1>1 DEF Elems
  <2> QED BY <1>1, <2>1
<1> HIDE DEF U
<1>3. /\ Append(s, e) \in Seq(U) /\ Len(Append(s, e)) = Len(s) + 1
      /\ \A i \in 1..Len(s) : Append(s, e)[i] = s[i]
      /\ Append(s, e)[Len(s) + 1] = e
  BY <1>2, AppendProperties
<1>4. DOMAIN Append(s, e) = 1..Len(s) + 1
  BY <1>3
<1>5. 1..Len(s) + 1 = (1..Len(s)) \cup {Len(s) + 1}
  BY <1>1
<1>6. Elems(Append(s, e)) = Elems(s) \cup {e}
  BY <1>1, <1>3, <1>4, <1>5 DEF Elems
<1> QED BY <1>3, <1>4, <1>6, SeqOf

\* A request starts to wait, and may have an entry appended: no other function is left.
LEMMA Waits ==
  ASSUME NodeInv, call # << >>, Head(call).fn \in Runs, ~Ends(Head(call)), NEW r, NEW es,
         Leave(<< >>), conn' = [conn EXCEPT ![self] = r], ConnShape(r), r.io = conn[self].io,
         DOMAIN raft' = DOMAIN raft, raft'.state = raft.state,
         raft'.transfer = raft.transfer \/ (raft.transfer = NoConn /\ raft'.transfer = self),
         raft'.change = raft.change \/ (raft.change = NoConn /\ raft'.change = self),
         (es = {} /\ raft'.log = raft.log) \/ \E e : es = {e} /\ raft'.log = Append(raft.log, e),
         \A e \in es :
           /\ EntryShape(e) /\ e.c \in {self, NoConn}
           /\ e.c = self => /\ raft.state = "leader"
                            /\ e.cmd = "frames" => r.inflight
                            /\ e.cmd = "gbarrier" => r.gbar # "none"
                            /\ e.cmd \notin {"frames", "gbarrier"} => r.ebar # "none",
         r.gbar # "none" => /\ r.ebar = "none" /\ ~r.inflight
                            /\ raft'.transfer # self /\ raft'.change # self,
         r.ebar # "none" => ~r.inflight /\ raft'.transfer # self /\ raft'.change # self,
         r.inflight => raft'.transfer # self /\ raft'.change # self,
         raft'.transfer = self => raft'.change # self,
         r.gbar # "none" \/ r.ebar # "none" \/ r.inflight => r.req # "none" /\ r.d # NoDb,
         r.exec # "none" => r.ebar # "none" \/ r.inflight,
         \A v \in r.vals : \/ v \in conn[self].vals
                           \/ \E e \in es : e.c = self /\ e.cmd = "frames" /\ e.val = v,
         applied' = applied, scenario' = scenario, acked' = acked
  PROVE  NodeInv'
<1>0. PICK c \in Conn : c = self
  BY RunsFree
<1>1. /\ Free(c) /\ ConnShape(conn[c]) /\ DOMAIN conn = Conn
      /\ ValsSound(c)
      /\ Head(call).fn \notin Closes /\ Head(call).fn \notin Fires
      /\ \A e \in Entries : EntrySound(e)
      /\ conn[c].io = "handling" /\ Later = {}
  BY <1>0, RunsFree
<1>2. Head(call).c = c /\ Calls = {Head(call)} /\ ~ClosesRaft
  BY <1>0, <1>1, CallParts, Names DEF self, ClosesRaft
<1>3. conn'[c] = r /\ DOMAIN conn' = Conn /\ \A x \in Conn \ {c} : conn'[x] = conn[x]
  BY <1>0, <1>1
<1>4. Entries' = Entries \cup es /\ RaftShape(raft')
  <2>1. RaftShape(raft)
    BY DEF NodeInv, Shape
  <2>2. CASE es = {} /\ raft'.log = raft.log
    BY <1>0, <2>1, <2>2 DEF Entries, RaftShape
  <2>3. ASSUME NEW e, es = {e}, raft'.log = Append(raft.log, e)
        PROVE  Entries' = Entries \cup es /\ RaftShape(raft')
    <3>1. IsSeq(raft'.log) /\ Elems(raft'.log) = Elems(raft.log) \cup {e}
      BY <2>1, <2>3, AppendElems DEF RaftShape
    <3> QED BY <1>0, <2>1, <2>3, <3>1 DEF Entries, RaftShape
  <2> QED BY <2>2, <2>3
<1>5. \A e \in Entries : e.c # c
  <2> SUFFICES ASSUME NEW e \in Entries, e.c = c PROVE FALSE
    OBVIOUS
  <2>1. EntrySound(e) /\ c # NoConn
    BY <1>1, NodeAssumption
  <2> QED BY <1>1, <1>2, <2>1 DEF EntrySound, Free
<1>6. StepOf(c, << >>)
  <2>1. Head(call).fn # "raft_close"
    BY <1>1, Names
  <2>2. \A e : e.c \in Conn \ {c} => (e \in Entries' <=> e \in Entries)
    BY <1>0, <1>4, NodeAssumption
  <2>3. \A x \in Conn \ {c} : /\ raft'.transfer = x <=> raft.transfer = x
                              /\ raft'.change = x <=> raft.change = x
    BY <1>0, NodeAssumption
  <2> QED BY <1>2, <1>3, <2>1, <2>2, <2>3 DEF StepOf
<1>7. ASSUME Calls' = Elems(<< >>) \cup Later
      PROVE  ConnSound(c)' /\ ValsSound(c)' /\ \A e \in Entries' : e.c = c => EntrySound(e)'
  <2>1. ConnSound(c)'
    BY <1>0, <1>1, <1>3 DEF ConnSound
  <2>2. ValsSound(c)'
    <3> SUFFICES ASSUME NEW v \in r.vals
                 PROVE  v \in applied' \/ \E e \in Entries' : Frames(e, c) /\ e.val = v
      BY <1>3 DEF ValsSound
    <3>1. CASE v \in conn[c].vals
      <4>1. ~Doomed(c)
        <5>1. ASSUME Doomed(c) PROVE Ends(Head(call))
          BY <1>1, <1>2, <5>1, Names DEF Doomed, Ends
        <5> QED BY <5>1
      <4>2. v \in applied
        BY <1>1, <1>5, <3>1, <4>1 DEF ValsSound, Frames
      <4> QED BY <4>2
    <3>2. CASE v \notin conn[c].vals
      BY <1>0, <1>4, <3>2 DEF Frames
    <3> QED BY <3>1, <3>2
  <2>3. ASSUME NEW e \in Entries', e.c = c PROVE EntrySound(e)'
    <3>1. e \in es
      BY <1>4, <1>5, <2>3
    <3> QED BY <1>0, <1>3, <2>3, <3>1 DEF EntrySound
  <2> QED BY <2>1, <2>2, <2>3
<1>8. OneEntry'
  <2>1. OneEntry /\ IsSeq(raft.log)
    BY DEF NodeInv, Shape, RaftShape
  <2>2. CASE raft'.log = raft.log
    BY <2>1, <2>2 DEF OneEntry
  <2>3. ASSUME NEW e, es = {e}, raft'.log = Append(raft.log, e) PROVE OneEntry'
    <3> DEFINE l == raft.log  n == Len(raft.log)
    <3>1. /\ n \in Nat /\ DOMAIN l = 1..n
          /\ DOMAIN Append(l, e) = 1..n + 1
          /\ \A i \in 1..n : Append(l, e)[i] = l[i]
          /\ Append(l, e)[n + 1] = e
      BY <2>1, AppendElems, SeqFacts
    <3>2. \A i \in 1..n : l[i].c # c
      BY <1>5, <3>1 DEF Entries, Elems
    <3>3. e.c \in {c, NoConn}
      BY <1>0, <2>3
    <3>4. \A j, k \in 1..n : l[j].c = l[k].c /\ l[j].c # NoConn => j = k
      BY <2>1, <3>1 DEF OneEntry
    <3> HIDE DEF l, n
    <3>5. \A i \in 1..n + 1 : i \in 1..n \/ i = n + 1
      BY <3>1
    <3>6. ASSUME NEW j \in 1..n + 1, NEW k \in 1..n + 1,
                 Append(l, e)[j].c = Append(l, e)[k].c, Append(l, e)[j].c # NoConn
          PROVE  j = k
      <4>1. CASE j \in 1..n /\ k \in 1..n
        BY <3>1, <3>4, <3>6, <4>1
      <4>2. CASE j = n + 1 /\ k \in 1..n
        BY <3>1, <3>2, <3>3, <3>6, <4>2
      <4>3. CASE k = n + 1 /\ j \in 1..n
        BY <3>1, <3>2, <3>3, <3>6, <4>3
      <4> QED BY <3>5, <4>1, <4>2, <4>3
    <3>7. raft'.log = Append(l, e)
      BY <2>3 DEF l
    <3> QED BY <3>1, <3>6, <3>7 DEF OneEntry
  <2> QED BY <2>2, <2>3
<1>9. acked' \subseteq applied
  BY DEF NodeInv
<1>10. ConnShape(conn'[c])
  BY <1>3
<1> QED BY <1>4, <1>6, <1>7, <1>8, <1>9, <1>10, NoneSeq, ShortOrder, StepInv

LEMMA DoomEnds ==
  ASSUME NEW f, IsDoom(f)
  PROVE  Ends(f)
  BY Names DEF IsDoom, Ends

\* A function that goes on is not one that closes or fails.
LEMMA GoesOn ==
  ASSUME NEW f
  PROVE  /\ f.fn \in RequestTypes \cup {"leaderExecV2", "handle_exec_sql_next", "query_batch"} => ~Ends(f)
         /\ f.st \notin Failures /\ f.fn \in Resumed => ~Ends(f)
<1>1. f.fn \in RequestTypes \cup {"leaderExecV2", "handle_exec_sql_next", "query_batch"} => ~Ends(f)
  BY DEF Ends, RequestTypes, Closes, LeaderCloses, ClusterCbs, Fires, BarrierCbs, ExecCbs
<1>2. f.fn \in Resumed => f.fn \notin Closes \cup ClusterCbs
  BY DEF Resumed, Closes, LeaderCloses, ClusterCbs, BarrierCbs, ExecCbs
<1> QED BY <1>1, <1>2 DEF Ends

LEMMA FnFields ==
  ASSUME NEW fn, NEW c, NEW st
  PROVE  Fn(fn, c, st).fn = fn /\ Fn(fn, c, st).c = c /\ Fn(fn, c, st).st = st
  BY DEF Fn

\* The nothing that a step leaves alone, as far as the invariant is concerned.
Unconcerned == applied' = applied /\ scenario' = scenario

\* What a function that may wait for a barrier makes of its connection.
LEMMA BarrierStep ==
  ASSUME NodeInv, call # << >>, Head(call).fn \in Runs, ~Ends(Head(call)),
         Head(call).fn \notin {"execBarrierCb", "leaderExecV2"},
         NEW r, NEW which, NEW cb, NEW failed, NEW fns, NEW busy \in BOOLEAN,
         Barrier(self, r, which, cb, failed, fns, busy), Unconcerned, acked' = acked,
         SameWaits(r, conn[self]), r.io = conn[self].io, r.req # "none", r.d # NoDb,
         r.vals \subseteq conn[self].vals, r.exec \in ExecCbs,
         \/ which = "gbarrier" /\ cb \in BarrierCbs /\ r.exec = conn[self].exec
         \/ which = "ebarrier" /\ cb = "execBarrierCb",
         SameWaits(failed, conn[self]), failed.exec = conn[self].exec,
         failed.vals \subseteq conn[self].vals,
         \/ fns = << >> /\ failed.io \in {conn[self].io, "writing"}
         \/ fns = StopConn /\ failed.io = conn[self].io
  PROVE  NodeInv'
<1>1. /\ self \in Conn /\ Free(self) /\ ConnShape(conn[self]) /\ DOMAIN conn = Conn
      /\ ConnSound(self) /\ Later = {} /\ Calls = {Head(call)}
  BY RunsFree, CallParts
<1>2. conn[self].exec = "none"
  BY <1>1 DEF ConnSound, Free, InCall
<1>3. ~IsDoom(Head(call)) /\ acked' \subseteq applied
  BY DoomEnds DEF NodeInv
<1>4. CASE /\ conn' = [conn EXCEPT ![self] = r] /\ Leave(<< Fn(cb, self, "ok") >>) /\ raft' = raft
  <2>1. cb \in Resumed
    BY Names
  <2>2. Elems(<< Fn(cb, self, "ok") >>) = {Fn(cb, self, "ok")}
    BY OneSeq
  <2>3. r.exec # "none" =>
           \/ r.exec = conn[self].exec /\ Head(call).fn \notin {"execBarrierCb", "leaderExecV2"}
           \/ \E f \in Elems(<< Fn(cb, self, "ok") >>) :
                f.fn \in {"execBarrierCb", "leaderExecV2"} /\ f.c = self
    BY <2>2, FnFields
  <2>4. \E f : /\ << Fn(cb, self, "ok") >> = << f >> /\ f.c = self /\ r.io = conn[self].io
               /\ \/ f.fn = "conn__stop" /\ ~Ends(Head(call))
                  \/ f.fn \in Resumed \cup {"query_batch"} /\ (Ends(Head(call)) => Ends(f))
               /\ f.fn \in Resumed /\ ~Ends(f) => r.req # "none" /\ r.d # NoDb
    BY <2>1, FnFields
  <2> QED BY <1>3, <1>4, <2>3, <2>4, Goes DEF Unconcerned
<1>5. CASE /\ CanSubmit /\ Leave(<< >>)
           /\ conn' = [conn EXCEPT ![self] = IF which = "gbarrier" THEN [r EXCEPT !.gbar = cb]
                                             ELSE [r EXCEPT !.ebar = cb]]
           /\ Submit(Entry(which, NoDb, 0, self))
  <2> DEFINE q == IF which = "gbarrier" THEN [r EXCEPT !.gbar = cb] ELSE [r EXCEPT !.ebar = cb]
             e == Entry(which, NoDb, 0, self)
  <2>1. /\ ConnShape(q) /\ q.io = conn[self].io /\ q.req # "none" /\ q.d # NoDb /\ ~q.inflight
        /\ q.vals \subseteq conn[self].vals
        /\ which = "gbarrier" => q.gbar # "none" /\ q.ebar = "none" /\ q.exec = "none"
        /\ which # "gbarrier" => q.gbar = "none" /\ q.ebar # "none"
    <3>1. "none" \notin BarrierCbs
      BY DEF BarrierCbs
    <3> QED BY <1>1, <1>2, <3>1 DEF ConnShape, SameWaits, Free, ConnFields
  <2>2. EntryShape(e) /\ e.c = self /\ e.cmd = which
    BY <1>1 DEF EntryShape, Entry
  <2>3. /\ DOMAIN raft' = DOMAIN raft /\ raft'.state = raft.state
        /\ raft'.transfer = raft.transfer /\ raft'.change = raft.change
        /\ raft'.log = Append(raft.log, e) /\ raft.state = "leader"
    <3>1. DOMAIN raft = {"state", "log", "transfer", "change"}
      BY DEF NodeInv, Shape, RaftShape
    <3> QED BY <1>5, <3>1 DEF Submit, CanSubmit
  <2>4. conn' = [conn EXCEPT ![self] = q] /\ Leave(<< >>)
    BY <1>5
  <2>5. raft'.transfer # self /\ raft'.change # self
    BY <1>1, <2>3 DEF Free
  <2> HIDE DEF q, e
  <2>6. ({e} = {} /\ raft'.log = raft.log) \/ \E d : {e} = {d} /\ raft'.log = Append(raft.log, d)
    BY <2>3
  <2>7. \A d \in {e} :
          /\ EntryShape(d) /\ d.c \in {self, NoConn}
          /\ d.c = self => /\ raft.state = "leader"
                           /\ d.cmd = "frames" => q.inflight
                           /\ d.cmd = "gbarrier" => q.gbar # "none"
                           /\ d.cmd \notin {"frames", "gbarrier"} => q.ebar # "none"
    BY <2>1, <2>2, <2>3
  <2>8. \A v \in q.vals : \/ v \in conn[self].vals
                          \/ \E d \in {e} : d.c = self /\ d.cmd = "frames" /\ d.val = v
    BY <2>1
  <2>9. /\ q.gbar # "none" => /\ q.ebar = "none" /\ ~q.inflight
                              /\ raft'.transfer # self /\ raft'.change # self
        /\ q.ebar # "none" => ~q.inflight /\ raft'.transfer # self /\ raft'.change # self
        /\ q.inflight => raft'.transfer # self /\ raft'.change # self
        /\ raft'.transfer = self => raft'.change # self
        /\ q.gbar # "none" \/ q.ebar # "none" \/ q.inflight => q.req # "none" /\ q.d # NoDb
        /\ q.exec # "none" => q.ebar # "none" \/ q.inflight
    BY <2>1, <2>5
  <2> QED BY <2>1, <2>3, <2>4, <2>6, <2>7, <2>8, <2>9, Waits DEF Unconcerned
<1>6. CASE conn' = [conn EXCEPT ![self] = failed] /\ Leave(fns) /\ raft' = raft
  <2>1. failed.exec \in ExecCbs
    BY <1>1 DEF ConnShape
  <2>2. \/ fns = << >> /\ failed.io \in {conn[self].io, "writing"}
        \/ \E f : /\ fns = << f >> /\ f.c = self /\ failed.io = conn[self].io
                  /\ \/ f.fn = "conn__stop" /\ ~Ends(Head(call))
                     \/ f.fn \in Resumed \cup {"query_batch"} /\ (Ends(Head(call)) => Ends(f))
                  /\ f.fn \in Resumed /\ ~Ends(f) => failed.req # "none" /\ failed.d # NoDb
    <3>1. CASE fns = StopConn /\ failed.io = conn[self].io
      <4>1. fns = << Fn("conn__stop", self, "ok") >>
        BY <3>1 DEF StopConn
      <4>2. "conn__stop" \notin Resumed
        BY Names
      <4> QED BY <3>1, <4>1, <4>2, FnFields
    <3> QED BY <3>1
  <2> QED BY <1>3, <1>6, <2>1, <2>2, Goes DEF Unconcerned
<1> QED BY <1>4, <1>5, <1>6 DEF Barrier

---------------------------------------------------------------------------
(* The gateway *)

\* The record of the connection that runs, with what it waits for.
Keeps(r) ==
  /\ SameWaits(r, conn[self]) /\ r.exec = conn[self].exec /\ r.io = conn[self].io
  /\ r.vals \subseteq conn[self].vals

LEMMA Entered ==
  ASSUME NodeInv, NEW fn \in Runs, Enter(fn)
  PROVE  /\ call # << >> /\ Head(call).fn = fn /\ Head(call).fn \in Runs
         /\ self \in Conn /\ Free(self) /\ ConnShape(conn[self]) /\ DOMAIN conn[self] = ConnFields
         /\ DOMAIN conn = Conn /\ Keeps(conn[self]) /\ acked \subseteq applied
<1>1. call # << >> /\ Head(call).fn = fn
  BY DEF Enter
<1>2. self \in Conn /\ Free(self) /\ ConnShape(conn[self]) /\ DOMAIN conn = Conn
  BY <1>1, RunsFree
<1> QED BY <1>1, <1>2 DEF ConnShape, Keeps, SameWaits, NodeInv

\* Outside of a failure, what the request replicated is applied.
LEMMA GoodVals ==
  ASSUME NodeInv, call # << >>, Head(call).fn \in Runs, ~Ends(Head(call))
  PROVE  conn[self].vals \subseteq applied
<1>1. /\ self \in Conn /\ Free(self) /\ ValsSound(self) /\ Later = {}
      /\ \A e \in Entries : EntrySound(e)
  BY RunsFree
<1>2. Calls = {Head(call)}
  BY <1>1, CallParts
<1>3. ~Doomed(self)
  <2>1. ~IsDoom(Head(call))
    BY DoomEnds
  <2> QED BY <1>2, <2>1 DEF Doomed, IsDoom
<1>4. \A e \in Entries : ~Frames(e, self)
  <2> SUFFICES ASSUME NEW e \in Entries, Frames(e, self) PROVE FALSE
    OBVIOUS
  <2>1. EntrySound(e) /\ e.c = self /\ e.cmd = "frames" /\ self # NoConn
    BY <1>1, NodeAssumption DEF Frames
  <2> QED BY <1>1, <2>1 DEF EntrySound, Free
<1> QED BY <1>1, <1>3, <1>4 DEF ValsSound

LEMMA Answers ==
  ASSUME NodeInv, call # << >>, Head(call).fn \in Runs,
         Head(call).fn \notin {"execBarrierCb", "leaderExecV2"},
         NEW r, AnswerNow(self, r), Unconcerned, acked' \subseteq applied, Keeps(r),
         IsDoom(Head(call)) => r.vals = {}
  PROVE  NodeInv'
<1> DEFINE q == Answer(r)
<1>1. self \in Conn /\ ConnShape(conn[self])
  BY RunsFree
<1>2. /\ SameWaits(q, conn[self]) /\ q.exec = conn[self].exec /\ q.exec \in ExecCbs
      /\ q.vals = r.vals /\ q.io \in {conn[self].io, "writing"}
  BY <1>1 DEF Answer, Keeps, SameWaits, ConnShape, ConnFields
<1>3. Leave(<< >>) /\ conn' = [conn EXCEPT ![self] = q] /\ raft' = raft
  BY DEF AnswerNow
<1>4. q.vals \subseteq conn[self].vals
  BY <1>2 DEF Keeps
<1> HIDE DEF q
<1> QED BY <1>2, <1>3, <1>4, Goes DEF Unconcerned

\* Functions that only answer.
LEMMA PlainAnswers ==
  ASSUME NodeInv,
         \/ handle_leader \/ handle_client \/ handle_cluster \/ handle_weight
         \/ handle_dump \/ handle_interrupt \/ handle_finalize
  PROVE  NodeInv'
<1>1. PICK fn \in {"handle_leader", "handle_client", "handle_cluster", "handle_weight",
                   "handle_dump", "handle_interrupt", "handle_finalize"} :
        Enter(fn) /\ Unconcerned /\ acked' = acked /\ \E r : AnswerNow(self, r) /\ (Keeps(conn[self]) => Keeps(r)) /\ r.vals = conn[self].vals
  <2>1. CASE handle_leader \/ handle_client \/ handle_cluster \/ handle_weight
    BY <2>1 DEF handle_leader, handle_client, handle_cluster, handle_weight, AnswerOnly, Unconcerned, ghosts
  <2>2. CASE handle_dump
    BY <2>2 DEF handle_dump, Unconcerned, ghosts
  <2>3. CASE handle_interrupt
    <3> DEFINE r == [conn[self] EXCEPT !.req = "none", !.tmp = "none"]
    <3>1. (Keeps(conn[self]) => Keeps(r)) /\ r.vals = conn[self].vals
      BY DEF Keeps, SameWaits, ConnFields
    <3> HIDE DEF r
    <3>2. Enter("handle_interrupt") /\ AnswerNow(self, r) /\ Unconcerned /\ acked' = acked
      BY <2>3 DEF handle_interrupt, Unconcerned, ghosts, r
    <3> QED BY <3>1, <3>2
  <2>4. CASE handle_finalize
    <3> DEFINE r == [conn[self] EXCEPT !.stmt = "none", !.q = Finalized(self).s]
    <3>1. (Keeps(conn[self]) => Keeps(r)) /\ r.vals = conn[self].vals
      BY DEF Keeps, SameWaits, ConnFields
    <3> HIDE DEF r
    <3>2. Enter("handle_finalize") /\ (AnswerNow(self, conn[self]) \/ AnswerNow(self, r)) /\ Unconcerned /\ acked' = acked
      BY <2>4 DEF handle_finalize, Unconcerned, ghosts, r
    <3> QED BY <3>1, <3>2
  <2> QED BY <2>1, <2>2, <2>3, <2>4
<1>2. fn \in RequestTypes /\ fn \in Runs
  BY Names DEF RequestTypes
<1>3. call # << >> /\ Head(call).fn = fn /\ Keeps(conn[self]) /\ acked \subseteq applied
  BY <1>1, <1>2, Entered
<1>4. ~IsDoom(Head(call)) /\ Head(call).fn \notin {"execBarrierCb", "leaderExecV2"}
  BY <1>2, <1>3, DoomEnds, GoesOn DEF RequestTypes
<1> QED BY <1>1, <1>2, <1>3, <1>4, Answers

\* A handler is not a function that fails, and no execution goes on.
LEMMA HandlerFacts ==
  ASSUME NodeInv, NEW fn \in RequestTypes, Enter(fn)
  PROVE  /\ call # << >> /\ Head(call).fn = fn /\ Head(call).fn \in Runs
         /\ self \in Conn /\ DOMAIN conn[self] = ConnFields /\ DOMAIN conn = Conn
         /\ Keeps(conn[self]) /\ acked \subseteq applied
         /\ ~Ends(Head(call)) /\ ~IsDoom(Head(call))
         /\ Head(call).fn \notin {"execBarrierCb", "leaderExecV2"}
<1>1. fn \in Runs
  BY Names
<1>2. call # << >> /\ Head(call).fn = fn
  BY DEF Enter
<1>3. ~Ends(Head(call)) /\ ~IsDoom(Head(call))
  BY <1>2, GoesOn, DoomEnds
<1>4. fn \notin {"execBarrierCb", "leaderExecV2"}
  BY DEF RequestTypes
<1> QED BY <1>1, <1>2, <1>3, <1>4, Entered

LEMMA StopStep ==
  ASSUME NodeInv, call # << >>, Head(call).fn \in Runs, ~Ends(Head(call)),
         Head(call).fn \notin {"execBarrierCb", "leaderExecV2"},
         Leave(StopConn), conn' = conn, raft' = raft, Unconcerned, acked' = acked
  PROVE  NodeInv'
<1>1. self \in Conn /\ ConnShape(conn[self]) /\ DOMAIN conn = Conn
  BY RunsFree
<1>2. Keeps(conn[self])
  BY <1>1 DEF Keeps, SameWaits, ConnShape
<1>4. StopConn = << Fn("conn__stop", self, "ok") >> /\ "conn__stop" \notin Resumed
  BY Names DEF StopConn
<1>5. \E f : /\ StopConn = << f >> /\ f.c = self /\ conn[self].io = conn[self].io
             /\ \/ f.fn = "conn__stop" /\ ~Ends(Head(call))
                \/ f.fn \in Resumed \cup {"query_batch"} /\ (Ends(Head(call)) => Ends(f))
             /\ f.fn \in Resumed /\ ~Ends(f) => conn[self].req # "none" /\ conn[self].d # NoDb
  BY <1>4, FnFields
<1>6. ~IsDoom(Head(call)) /\ acked' \subseteq applied
  BY DoomEnds DEF NodeInv
<1>7. SameWaits(conn[self], conn[self]) /\ conn[self].exec \in ExecCbs
  BY <1>1, <1>2 DEF Keeps, ConnShape
<1> QED BY <1>5, <1>6, <1>7, Goes DEF Unconcerned

LEMMA handle_openInv ==
  ASSUME NodeInv, handle_open
  PROVE  NodeInv'
<1>1. "handle_open" \in RequestTypes /\ Enter("handle_open") /\ Unconcerned /\ acked' = acked
  BY DEF RequestTypes, handle_open, Unconcerned, ghosts
<1>2. /\ call # << >> /\ Head(call).fn \in Runs
      /\ DOMAIN conn[self] = ConnFields /\ Keeps(conn[self]) /\ acked \subseteq applied
      /\ ~Ends(Head(call)) /\ ~IsDoom(Head(call))
      /\ Head(call).fn \notin {"execBarrierCb", "leaderExecV2"}
  BY <1>1, HandlerFacts
<1>3. CASE AnswerNow(self, conn[self])
  BY <1>1, <1>2, <1>3, Answers
<1>4. ASSUME NEW d, NEW q, AnswerNow(self, [conn[self] EXCEPT !.d = d, !.q = q]) PROVE NodeInv'
  <2> DEFINE r == [conn[self] EXCEPT !.d = d, !.q = q]
  <2>1. Keeps(r)
    BY <1>2 DEF Keeps, SameWaits, ConnFields
  <2> HIDE DEF r
  <2>2. AnswerNow(self, r)
    BY <1>4 DEF r
  <2> QED BY <1>1, <1>2, <2>1, <2>2, Answers
<1>5. CASE Leave(StopConn) /\ conn' = conn /\ raft' = raft
  BY <1>1, <1>2, <1>5, StopStep
<1>6. \/ AnswerNow(self, conn[self])
      \/ \E d, q : AnswerNow(self, [conn[self] EXCEPT !.d = d, !.q = q])
      \/ Leave(StopConn) /\ conn' = conn /\ raft' = raft
  BY DEF handle_open
<1> QED BY <1>3, <1>4, <1>5, <1>6

\* A handler that needs a barrier of the gateway.
LEMMA GBarrierStep ==
  ASSUME NodeInv, call # << >>, Head(call).fn \in Runs, ~Ends(Head(call)),
         Head(call).fn \notin {"execBarrierCb", "leaderExecV2"},
         NEW r, NEW cb \in BarrierCbs, leader__barrier(self, r, cb, conn[self], StopConn),
         Keeps(r), r.req # "none", r.d # NoDb, Unconcerned, acked' = acked
  PROVE  NodeInv'
<1>1. ConnShape(conn[self])
  BY RunsFree
<1>2. Barrier(self, r, "gbarrier", cb, conn[self], StopConn, FALSE)
  BY DEF leader__barrier
<1>3. SameWaits(conn[self], conn[self]) /\ conn[self].exec \in ExecCbs
  BY <1>1 DEF SameWaits, ConnShape
<1>4. SameWaits(r, conn[self]) /\ r.io = conn[self].io /\ r.vals \subseteq conn[self].vals
      /\ r.exec = conn[self].exec
  BY DEF Keeps
<1> QED BY <1>2, <1>3, <1>4, BarrierStep

\* A function that starts an execution.
LEMMA ExecStep ==
  ASSUME NodeInv, call # << >>, Head(call).fn \in Runs, ~Ends(Head(call)),
         Head(call).fn \notin {"execBarrierCb", "leaderExecV2"},
         NEW r, NEW cb \in ExecCbs, NEW failed, NEW fns, leader__exec(self, r, cb, failed, fns),
         Keeps(r), r.req # "none", r.d # NoDb, Unconcerned, acked' = acked,
         SameWaits(failed, conn[self]), failed.exec = conn[self].exec,
         failed.vals \subseteq conn[self].vals,
         \/ fns = << >> /\ failed.io \in {conn[self].io, "writing"}
         \/ fns = StopConn /\ failed.io = conn[self].io
  PROVE  NodeInv'
<1> DEFINE q == [r EXCEPT !.exec = cb]
           busy == conn[self].exec # "none"
<1>1. Barrier(self, q, "ebarrier", "execBarrierCb", failed, fns, busy)
  BY DEF leader__exec
<1>2. /\ SameWaits(q, conn[self]) /\ q.io = conn[self].io /\ q.vals \subseteq conn[self].vals
      /\ q.exec = cb /\ q.req # "none" /\ q.d # NoDb
  BY DEF Keeps, SameWaits, ConnFields
<1>3. busy \in BOOLEAN
  OBVIOUS
<1> HIDE DEF q, busy
<1> QED BY <1>1, <1>2, <1>3, BarrierStep

\* A handler refuses the request, or waits for a barrier, or starts an execution.
LEMMA HandlerStep ==
  ASSUME NodeInv, NEW fn \in RequestTypes, Enter(fn), Unconcerned, acked' = acked,
         NEW r, Keeps(conn[self]) => Keeps(r) /\ r.req # "none" /\ r.d = conn[self].d,
         \/ AnswerNow(self, conn[self])
         \/ ~NoDatabase /\ \E cb \in BarrierCbs : leader__barrier(self, r, cb, conn[self], StopConn)
         \/ ~NoDatabase /\ \E cb \in ExecCbs : leader__exec(self, r, cb, conn[self], StopConn)
  PROVE  NodeInv'
<1>1. /\ call # << >> /\ Head(call).fn \in Runs
      /\ Keeps(conn[self]) /\ acked' \subseteq applied
      /\ ~Ends(Head(call)) /\ ~IsDoom(Head(call))
      /\ Head(call).fn \notin {"execBarrierCb", "leaderExecV2"}
  BY HandlerFacts
<1>2. CASE AnswerNow(self, conn[self])
  BY <1>1, <1>2, Answers
<1>3. Keeps(r) /\ r.req # "none" /\ r.d = conn[self].d
  BY <1>1
<1>4. ASSUME NEW cb \in BarrierCbs, ~NoDatabase, leader__barrier(self, r, cb, conn[self], StopConn)
      PROVE  NodeInv'
  BY <1>1, <1>3, <1>4, GBarrierStep DEF NoDatabase
<1>5. ASSUME NEW cb \in ExecCbs, ~NoDatabase, leader__exec(self, r, cb, conn[self], StopConn)
      PROVE  NodeInv'
  <2>1. SameWaits(conn[self], conn[self])
    BY <1>1 DEF Keeps
  <2> QED BY <1>1, <1>3, <1>5, <2>1, ExecStep DEF NoDatabase
<1> QED BY <1>2, <1>4, <1>5

LEMMA handle_prepareInv ==
  ASSUME NodeInv, handle_prepare
  PROVE  NodeInv'
<1> DEFINE r == [conn[self] EXCEPT !.req = "prepare", !.stmt = "unprepared", !.sql = status]
<1>1. Keeps(conn[self]) => Keeps(r) /\ r.req # "none" /\ r.d = conn[self].d
  BY DEF Keeps, SameWaits, ConnFields
<1>2. "handle_prepare" \in RequestTypes /\ "prepareBarrierCb" \in BarrierCbs
  BY DEF RequestTypes, BarrierCbs
<1> HIDE DEF r
<1>3. /\ Enter("handle_prepare") /\ Unconcerned /\ acked' = acked
      /\ \/ AnswerNow(self, conn[self])
         \/ ~NoDatabase /\ leader__barrier(self, r, "prepareBarrierCb", conn[self], StopConn)
  BY DEF handle_prepare, Unconcerned, ghosts, r
<1> QED BY <1>1, <1>2, <1>3, HandlerStep

LEMMA handle_execInv ==
  ASSUME NodeInv, handle_exec
  PROVE  NodeInv'
<1> DEFINE r == [conn[self] EXCEPT !.req = "exec"]
<1>1. Keeps(conn[self]) => Keeps(r) /\ r.req # "none" /\ r.d = conn[self].d
  BY DEF Keeps, SameWaits, ConnFields
<1>2. "handle_exec" \in RequestTypes /\ "leader_exec_cb" \in ExecCbs
  BY DEF RequestTypes, ExecCbs
<1> HIDE DEF r
<1>3. /\ Enter("handle_exec") /\ Unconcerned /\ acked' = acked
      /\ \/ AnswerNow(self, conn[self])
         \/ ~NoDatabase /\ leader__exec(self, r, "leader_exec_cb", conn[self], StopConn)
  BY DEF handle_exec, Unconcerned, ghosts, r
<1> QED BY <1>1, <1>2, <1>3, HandlerStep

LEMMA handle_queryInv ==
  ASSUME NodeInv, handle_query
  PROVE  NodeInv'
<1> DEFINE r == [conn[self] EXCEPT !.req = "query"]
<1>1. Keeps(conn[self]) => Keeps(r) /\ r.req # "none" /\ r.d = conn[self].d
  BY DEF Keeps, SameWaits, ConnFields
<1>2. /\ "handle_query" \in RequestTypes /\ "query_barrier_cb" \in BarrierCbs
      /\ "leaderModifyingQueryCb" \in ExecCbs
  BY DEF RequestTypes, BarrierCbs, ExecCbs
<1> HIDE DEF r
<1>3. /\ Enter("handle_query") /\ Unconcerned /\ acked' = acked
      /\ \/ AnswerNow(self, conn[self])
         \/ ~NoDatabase /\ leader__barrier(self, r, "query_barrier_cb", conn[self], StopConn)
         \/ ~NoDatabase /\ leader__exec(self, r, "leaderModifyingQueryCb", conn[self], StopConn)
  BY DEF handle_query, Unconcerned, ghosts, r
<1> QED BY <1>1, <1>2, <1>3, HandlerStep

LEMMA handle_exec_sqlInv ==
  ASSUME NodeInv, handle_exec_sql
  PROVE  NodeInv'
<1> DEFINE r == [conn[self] EXCEPT !.req = "exec_sql", !.sql = status]
<1>1. Keeps(conn[self]) => Keeps(r) /\ r.req # "none" /\ r.d = conn[self].d
  BY DEF Keeps, SameWaits, ConnFields
<1>2. "handle_exec_sql" \in RequestTypes /\ "execSqlBarrierCb" \in BarrierCbs
  BY DEF RequestTypes, BarrierCbs
<1> HIDE DEF r
<1>3. /\ Enter("handle_exec_sql") /\ Unconcerned /\ acked' = acked
      /\ \/ AnswerNow(self, conn[self])
         \/ ~NoDatabase /\ leader__barrier(self, r, "execSqlBarrierCb", conn[self], StopConn)
  BY DEF handle_exec_sql, Unconcerned, ghosts, r
<1> QED BY <1>1, <1>2, <1>3, HandlerStep

LEMMA handle_query_sqlInv ==
  ASSUME NodeInv, handle_query_sql
  PROVE  NodeInv'
<1> DEFINE r == [conn[self] EXCEPT !.req = "query_sql", !.sql = status]
<1>1. Keeps(conn[self]) => Keeps(r) /\ r.req # "none" /\ r.d = conn[self].d
  BY DEF Keeps, SameWaits, ConnFields
<1>2. "handle_query_sql" \in RequestTypes /\ "querySqlBarrierCb" \in BarrierCbs
  BY DEF RequestTypes, BarrierCbs
<1> HIDE DEF r
<1>3. /\ Enter("handle_query_sql") /\ Unconcerned /\ acked' = acked
      /\ \/ AnswerNow(self, conn[self])
         \/ ~NoDatabase /\ leader__barrier(self, r, "querySqlBarrierCb", conn[self], StopConn)
  BY DEF handle_query_sql, Unconcerned, ghosts, r
<1> QED BY <1>1, <1>2, <1>3, HandlerStep

---------------------------------------------------------------------------
(* Callbacks of barriers and executions *)

\* The function of a request that goes on calls the next one.
LEMMA Calls1 ==
  ASSUME NodeInv, call # << >>, Head(call).fn \in Runs,
         Head(call).fn \notin {"execBarrierCb", "leaderExecV2"}, ~Ends(Head(call)),
         NEW fn \in {"query_batch", "handle_exec_sql_next"}, NEW r,
         Leave(<< Fn(fn, self, "ok") >>), raft' = raft, Unconcerned, acked' = acked,
         conn' = [conn EXCEPT ![self] = r] \/ (conn' = conn /\ r = conn[self]),
         Keeps(r), r.req # "none" /\ r.d # NoDb
  PROVE  NodeInv'
<1>1. ~IsDoom(Head(call)) /\ acked' \subseteq applied
  BY DoomEnds DEF NodeInv
<1>2. fn \in Resumed \cup {"query_batch"}
  BY Names
<1>3. \E f : /\ << Fn(fn, self, "ok") >> = << f >> /\ f.c = self /\ r.io = conn[self].io
             /\ \/ f.fn = "conn__stop" /\ ~Ends(Head(call))
                \/ f.fn \in Resumed \cup {"query_batch"} /\ (Ends(Head(call)) => Ends(f))
             /\ f.fn \in Resumed /\ ~Ends(f) => r.req # "none" /\ r.d # NoDb
  BY <1>2, FnFields DEF Keeps
<1>4. SameWaits(r, conn[self]) /\ r.exec = conn[self].exec /\ r.exec \in ExecCbs
      /\ r.vals \subseteq conn[self].vals
  <2>1. ConnShape(conn[self])
    BY RunsFree
  <2> QED BY <2>1 DEF Keeps, ConnShape
<1> QED BY <1>1, <1>3, <1>4, Goes DEF Unconcerned

\* Facts about a callback with status st.
LEMMA ResumedFacts ==
  ASSUME NodeInv, NEW fn \in Resumed, Enter(fn)
  PROVE  /\ call # << >> /\ Head(call).fn = fn /\ Head(call).fn \in Runs
         /\ self \in Conn /\ DOMAIN conn[self] = ConnFields /\ DOMAIN conn = Conn
         /\ Keeps(conn[self]) /\ acked \subseteq applied /\ conn[self].exec \in ExecCbs
         /\ status \notin Failures \/ fn = "handle_exec_sql_next" =>
              /\ ~Ends(Head(call)) /\ conn[self].req # "none" /\ conn[self].d # NoDb
              /\ conn[self].vals \subseteq applied
<1>1. fn \in Runs
  BY Names
<1>2. call # << >> /\ Head(call).fn = fn
  BY DEF Enter
<1>3. status \notin Failures \/ fn = "handle_exec_sql_next" => ~Ends(Head(call))
  BY <1>2, GoesOn DEF status
<1>4. ConnShape(conn[self])
  BY <1>1, <1>2, RunsFree
<1>5. ~Ends(Head(call)) =>
              /\ conn[self].req # "none" /\ conn[self].d # NoDb
              /\ conn[self].vals \subseteq applied
  BY <1>1, <1>2, RunsFree, GoodVals
<1> QED BY <1>1, <1>2, <1>3, <1>4, <1>5, Entered DEF ConnShape

\* A callback of a barrier or of an execution answers.
LEMMA CallbackAnswers ==
  ASSUME NodeInv, NEW fn \in BarrierCbs \cup ExecCbs \cup {"handle_exec_sql_next"}, Enter(fn),
         NEW r, AnswerNow(self, r), Unconcerned,
         acked' = acked \/ (acked' = acked \cup conn[self].vals /\ (status \notin Failures \/ fn = "handle_exec_sql_next")),
         Keeps(conn[self]) => Keeps(r), fn \in BarrierCbs \/ r.vals = {}
  PROVE  NodeInv'
<1>1. fn \in Resumed /\ fn \notin {"execBarrierCb", "leaderExecV2"}
  BY DEF Resumed, BarrierCbs, ExecCbs
<1>2. /\ call # << >> /\ Head(call).fn = fn /\ Head(call).fn \in Runs
      /\ Keeps(conn[self]) /\ acked \subseteq applied
      /\ status \notin Failures \/ fn = "handle_exec_sql_next" => conn[self].vals \subseteq applied
  BY <1>1, ResumedFacts
<1>3. acked' \subseteq applied
  BY <1>2
<1>4. IsDoom(Head(call)) => r.vals = {}
  BY <1>2 DEF IsDoom, BarrierCbs, ExecCbs
<1> QED BY <1>1, <1>2, <1>3, <1>4, Answers

LEMMA prepareBarrierCbInv ==
  ASSUME NodeInv, prepareBarrierCb
  PROVE  NodeInv'
<1> DEFINE x == IF status = "ok" /\ Head(conn[self].sql) # "bad" THEN Head(conn[self].sql) ELSE "none"
           r == [conn[self] EXCEPT !.req = "none", !.sql = <<>>, !.stmt = x]
<1>1. Keeps(conn[self]) => Keeps(r)
  BY DEF Keeps, SameWaits, ConnFields
<1>2. "prepareBarrierCb" \in BarrierCbs
  BY DEF BarrierCbs
<1>3. Enter("prepareBarrierCb") /\ Unconcerned /\ acked' = acked /\ AnswerNow(self, r)
  BY DEF prepareBarrierCb, Unconcerned, ghosts
<1> HIDE DEF r
<1> QED BY <1>1, <1>2, <1>3, CallbackAnswers

LEMMA query_barrier_cbInv ==
  ASSUME NodeInv, query_barrier_cb
  PROVE  NodeInv'
<1> DEFINE r == [conn[self] EXCEPT !.req = "none"]
<1>1. Keeps(conn[self]) => Keeps(r)
  BY DEF Keeps, SameWaits, ConnFields
<1>2. "query_barrier_cb" \in BarrierCbs /\ "query_barrier_cb" \in Resumed
  BY DEF BarrierCbs, Resumed
<1>3. Enter("query_barrier_cb") /\ Unconcerned /\ acked' = acked
  BY DEF query_barrier_cb, Unconcerned, ghosts
<1>4. \/ AnswerNow(self, r)
      \/ status = "ok" /\ Leave(<< Fn("query_batch", self, "ok") >>) /\ conn' = conn /\ raft' = raft
  BY DEF query_barrier_cb
<1> HIDE DEF r
<1>5. CASE AnswerNow(self, r)
  BY <1>1, <1>2, <1>3, <1>5, CallbackAnswers
<1>6. CASE status = "ok" /\ Leave(<< Fn("query_batch", self, "ok") >>) /\ conn' = conn /\ raft' = raft
  <2>1. status \notin Failures
    BY <1>6 DEF Failures
  <2>2. /\ call # << >> /\ Head(call).fn \in Runs /\ ~Ends(Head(call))
        /\ Head(call).fn \notin {"execBarrierCb", "leaderExecV2"}
        /\ Keeps(conn[self]) /\ conn[self].req # "none" /\ conn[self].d # NoDb
    BY <1>2, <1>3, <2>1, ResumedFacts
  <2> QED BY <1>3, <1>6, <2>2, Calls1
<1> QED BY <1>4, <1>5, <1>6

LEMMA execSqlBarrierCbInv ==
  ASSUME NodeInv, execSqlBarrierCb
  PROVE  NodeInv'
<1> DEFINE r == [conn[self] EXCEPT !.req = "none", !.sql = <<>>]
<1>1. Keeps(conn[self]) => Keeps(r)
  BY DEF Keeps, SameWaits, ConnFields
<1>2. "execSqlBarrierCb" \in BarrierCbs /\ "execSqlBarrierCb" \in Resumed
  BY DEF BarrierCbs, Resumed
<1>3. Enter("execSqlBarrierCb") /\ Unconcerned /\ acked' = acked
  BY DEF execSqlBarrierCb, Unconcerned, ghosts
<1>4. \/ AnswerNow(self, r)
      \/ status = "ok" /\ Leave(<< Fn("handle_exec_sql_next", self, "ok") >>) /\ conn' = conn /\ raft' = raft
  BY DEF execSqlBarrierCb
<1> HIDE DEF r
<1>5. CASE AnswerNow(self, r)
  BY <1>1, <1>2, <1>3, <1>5, CallbackAnswers
<1>6. CASE status = "ok" /\ Leave(<< Fn("handle_exec_sql_next", self, "ok") >>) /\ conn' = conn /\ raft' = raft
  <2>1. status \notin Failures
    BY <1>6 DEF Failures
  <2>2. /\ call # << >> /\ Head(call).fn \in Runs /\ ~Ends(Head(call))
        /\ Head(call).fn \notin {"execBarrierCb", "leaderExecV2"}
        /\ Keeps(conn[self]) /\ conn[self].req # "none" /\ conn[self].d # NoDb
    BY <1>2, <1>3, <2>1, ResumedFacts
  <2> QED BY <1>3, <1>6, <2>2, Calls1
<1> QED BY <1>4, <1>5, <1>6

\* An execution that could not start: the request is over.
LEMMA SqlExecStep ==
  ASSUME NodeInv, NEW fn \in {"querySqlBarrierCb", "handle_exec_sql_next"}, Enter(fn),
         status \notin Failures \/ fn = "handle_exec_sql_next", NEW r, NEW cb \in ExecCbs,
         leader__exec(self, r, cb, Answer(Over(conn[self])), <<>>),
         Keeps(conn[self]) => Keeps(r), r.req = conn[self].req, r.d = conn[self].d,
         Unconcerned, acked' = acked
  PROVE  NodeInv'
<1>1. fn \in Resumed
  BY DEF Resumed, BarrierCbs
<1>2. /\ call # << >> /\ Head(call).fn = fn /\ Head(call).fn \in Runs /\ ~Ends(Head(call))
      /\ DOMAIN conn[self] = ConnFields
      /\ Keeps(conn[self]) /\ conn[self].req # "none" /\ conn[self].d # NoDb
  BY <1>1, ResumedFacts
<1> DEFINE failed == Answer(Over(conn[self]))
<1>3. /\ SameWaits(failed, conn[self]) /\ failed.exec = conn[self].exec
      /\ failed.vals \subseteq conn[self].vals /\ failed.io \in {conn[self].io, "writing"}
  BY <1>2 DEF Answer, Over, SameWaits, ConnFields
<1> HIDE DEF failed
<1>4. leader__exec(self, r, cb, failed, <<>>)
  BY DEF failed
<1> QED BY <1>2, <1>3, <1>4, ExecStep

\* A request that is over, whatever became of its statement.
LEMMA OverKeeps ==
  ASSUME NEW q
  PROVE  /\ Keeps(conn[self]) => Keeps(Over(conn[self])) /\ Keeps([Over(conn[self]) EXCEPT !.q = q])
         /\ Keeps(conn[self]) => /\ Over(conn[self]).vals = {}
                                 /\ [Over(conn[self]) EXCEPT !.q = q].vals = {}
BY DEF Keeps, SameWaits, ConnFields, Over

LEMMA querySqlBarrierCbInv ==
  ASSUME NodeInv, querySqlBarrierCb
  PROVE  NodeInv'
<1> DEFINE r == [conn[self] EXCEPT !.tmp = Head(conn[self].sql), !.sql = <<>>]
           o == Over(conn[self])
<1>1. /\ Keeps(conn[self]) => Keeps(r) /\ r.req = conn[self].req /\ r.d = conn[self].d
      /\ Keeps(conn[self]) => Keeps(o)
  BY OverKeeps DEF Keeps, SameWaits, ConnFields
<1>2. /\ "querySqlBarrierCb" \in BarrierCbs /\ "querySqlBarrierCb" \in Resumed
      /\ "leaderModifyingQuerySqlCb" \in ExecCbs
  BY DEF BarrierCbs, Resumed, ExecCbs
<1>3. Enter("querySqlBarrierCb") /\ Unconcerned /\ acked' = acked
  BY DEF querySqlBarrierCb, Unconcerned, ghosts
<1>4. \/ AnswerNow(self, o)
      \/ status = "ok" /\ Leave(<< Fn("query_batch", self, "ok") >>) /\ raft' = raft
         /\ conn' = [conn EXCEPT ![self].tmp = Head(conn[self].sql), ![self].sql = <<>>]
      \/ status = "ok" /\ leader__exec(self, r, "leaderModifyingQuerySqlCb", Answer(Over(conn[self])), <<>>)
  BY DEF querySqlBarrierCb
<1>5. /\ DOMAIN conn = Conn /\ self \in Conn /\ Keeps(conn[self])
      /\ call # << >> /\ Head(call).fn \in Runs
      /\ Head(call).fn = "querySqlBarrierCb"
  BY <1>2, <1>3, ResumedFacts
<1>6. CASE AnswerNow(self, o)
  <2> HIDE DEF o
  <2> QED BY <1>1, <1>2, <1>3, <1>6, CallbackAnswers
<1>7. ASSUME status = "ok"
      PROVE  /\ status \notin Failures /\ ~Ends(Head(call))
             /\ conn[self].req # "none" /\ conn[self].d # NoDb
  <2>1. status \notin Failures
    BY <1>7 DEF Failures
  <2> QED BY <1>2, <1>3, <2>1, ResumedFacts
<1>8. CASE status = "ok" /\ Leave(<< Fn("query_batch", self, "ok") >>) /\ raft' = raft
           /\ conn' = [conn EXCEPT ![self].tmp = Head(conn[self].sql), ![self].sql = <<>>]
  <2>1. conn' = [conn EXCEPT ![self] = r]
    BY <1>5, <1>8
  <2>2. Keeps(r) /\ r.req # "none" /\ r.d # NoDb
    BY <1>1, <1>5, <1>7, <1>8
  <2> HIDE DEF r
  <2> QED BY <1>3, <1>5, <1>7, <1>8, <2>1, <2>2, Calls1
<1>9. CASE status = "ok" /\ leader__exec(self, r, "leaderModifyingQuerySqlCb", Answer(Over(conn[self])), <<>>)
  <2>1. Keeps(r) /\ r.req = conn[self].req /\ r.d = conn[self].d
    BY <1>1, <1>5
  <2> HIDE DEF r
  <2> QED BY <1>2, <1>3, <1>7, <1>9, <2>1, SqlExecStep
<1> QED BY <1>4, <1>6, <1>8, <1>9

LEMMA ExecCbInv ==
  ASSUME NodeInv, leader_exec_cb \/ leaderModifyingQueryCb
  PROVE  NodeInv'
<1>1. PICK fn \in {"leader_exec_cb", "leaderModifyingQueryCb"} : ExecCb(fn)
  BY DEF leader_exec_cb, leaderModifyingQueryCb
<1>2. fn \in ExecCbs /\ fn \in Resumed
  BY DEF ExecCbs, Resumed
<1> DEFINE r == [conn[self] EXCEPT !.req = "none", !.vals = {}]
           s == [conn[self] EXCEPT !.req = "none", !.vals = {}, !.q = Finalized(self).s]
<1>3. /\ Enter(fn) /\ Unconcerned
      /\ \/ AnswerNow(self, r) /\ status = "done" /\ acked' = acked \cup conn[self].vals
         \/ AnswerNow(self, s) /\ acked' = acked
  BY <1>1 DEF ExecCb, Unconcerned
<1>4. Keeps(conn[self])
  BY <1>2, <1>3, ResumedFacts
<1>5. Keeps(r) /\ Keeps(s) /\ r.vals = {} /\ s.vals = {}
  BY <1>4 DEF Keeps, SameWaits, ConnFields
<1> HIDE DEF r, s
<1>6. CASE AnswerNow(self, r) /\ status = "done" /\ acked' = acked \cup conn[self].vals
  <2>1. status \notin Failures
    BY <1>6 DEF Failures
  <2> QED BY <1>2, <1>3, <1>5, <1>6, <2>1, CallbackAnswers
<1>7. CASE AnswerNow(self, s) /\ acked' = acked
  BY <1>2, <1>3, <1>5, <1>7, CallbackAnswers
<1> QED BY <1>3, <1>6, <1>7

LEMMA handle_exec_sql_nextInv ==
  ASSUME NodeInv, handle_exec_sql_next
  PROVE  NodeInv'
<1> DEFINE fn == "handle_exec_sql_next"
           r == [conn[self] EXCEPT !.sql = Tail(@), !.tmp = Head(conn[self].sql)]
           o == Over(conn[self])
<1>1. fn \in Resumed /\ "handle_exec_sql_cb" \in ExecCbs
  BY DEF Resumed, ExecCbs
<1>2. Enter(fn) /\ Unconcerned
  BY DEF handle_exec_sql_next, Unconcerned
<1>3. \/ AnswerNow(self, o) /\ acked' \in {acked, acked \cup conn[self].vals}
      \/ leader__exec(self, r, "handle_exec_sql_cb", Answer(Over(conn[self])), <<>>) /\ acked' = acked
  BY DEF handle_exec_sql_next
<1>4. Keeps(conn[self])
  BY <1>1, <1>2, ResumedFacts
<1>5. Keeps(r) /\ r.req = conn[self].req /\ r.d = conn[self].d /\ Keeps(o) /\ o.vals = {}
  BY <1>4, OverKeeps DEF Keeps, SameWaits, ConnFields
<1>6. CASE AnswerNow(self, o) /\ acked' \in {acked, acked \cup conn[self].vals}
  <2> HIDE DEF o
  <2> QED BY <1>2, <1>5, <1>6, CallbackAnswers
<1>7. CASE leader__exec(self, r, "handle_exec_sql_cb", Answer(Over(conn[self])), <<>>) /\ acked' = acked
  <2> HIDE DEF r
  <2> QED BY <1>1, <1>2, <1>5, <1>7, SqlExecStep
<1> QED BY <1>3, <1>6, <1>7

LEMMA handle_exec_sql_cbInv ==
  ASSUME NodeInv, handle_exec_sql_cb
  PROVE  NodeInv'
<1> DEFINE fn == "handle_exec_sql_cb"
           r == [conn[self] EXCEPT !.tmp = "none", !.q = Finalized(self).s]
           o == [Over(conn[self]) EXCEPT !.q = Finalized(self).s]
<1>1. fn \in Resumed /\ fn \in ExecCbs
  BY DEF Resumed, ExecCbs
<1>2. Enter(fn) /\ Unconcerned /\ acked' = acked
  BY DEF handle_exec_sql_cb, Unconcerned, ghosts
<1>3. /\ call # << >> /\ Head(call).fn = fn /\ Head(call).fn \in Runs
      /\ DOMAIN conn = Conn /\ self \in Conn /\ Keeps(conn[self])
  BY <1>1, <1>2, ResumedFacts
<1>4. Keeps(r) /\ r.req = conn[self].req /\ r.d = conn[self].d /\ Keeps(o) /\ o.vals = {}
  BY <1>3, OverKeeps DEF Keeps, SameWaits, ConnFields
<1>5. CASE AnswerNow(self, o)
  <2> HIDE DEF o
  <2> QED BY <1>1, <1>2, <1>4, <1>5, CallbackAnswers
<1>6. CASE /\ status = "done" /\ Leave(<<Fn("handle_exec_sql_next", self, "ok")>>) /\ raft' = raft
           /\ conn' = [conn EXCEPT ![self].tmp = "none", ![self].q = Finalized(self).s]
  <2>1. conn' = [conn EXCEPT ![self] = r]
    BY <1>3, <1>6
  <2>2. status \notin Failures
    BY <1>6 DEF Failures
  <2>3. ~Ends(Head(call)) /\ conn[self].req # "none" /\ conn[self].d # NoDb
    BY <1>1, <1>2, <2>2, ResumedFacts
  <2> HIDE DEF r
  <2> QED BY <1>2, <1>3, <1>4, <1>6, <2>1, <2>3, Calls1
<1> QED BY <1>5, <1>6 DEF handle_exec_sql_cb

LEMMA leaderModifyingQuerySqlCbInv ==
  ASSUME NodeInv, leaderModifyingQuerySqlCb
  PROVE  NodeInv'
<1> DEFINE fn == "leaderModifyingQuerySqlCb"
           o == [Over(conn[self]) EXCEPT !.q = Finalized(self).s]
<1>1. fn \in Resumed /\ fn \in ExecCbs
  BY DEF Resumed, ExecCbs
<1>2. /\ Enter(fn) /\ Unconcerned /\ AnswerNow(self, o)
      /\ acked' = acked \/ (status = "done" /\ acked' = acked \cup conn[self].vals)
  BY DEF leaderModifyingQuerySqlCb, Unconcerned
<1>3. Keeps(conn[self])
  BY <1>1, <1>2, ResumedFacts
<1>4. Keeps(o) /\ o.vals = {}
  BY <1>3, OverKeeps
<1>5. status = "done" => status \notin Failures
  BY DEF Failures
<1> HIDE DEF o
<1> QED BY <1>1, <1>2, <1>4, <1>5, CallbackAnswers

LEMMA query_batchInv ==
  ASSUME NodeInv, query_batch
  PROVE  NodeInv'
<1>1. Enter("query_batch") /\ Unconcerned /\ acked' = acked
  BY DEF query_batch, Unconcerned, ghosts
<1>2. "query_batch" \in Runs
  BY Names
<1>3. /\ call # << >> /\ Head(call).fn = "query_batch" /\ Head(call).fn \in Runs
      /\ DOMAIN conn[self] = ConnFields /\ Keeps(conn[self]) /\ acked \subseteq applied
  BY <1>1, <1>2, Entered
<1>4. ~IsDoom(Head(call))
  BY <1>3, GoesOn, DoomEnds
<1>5. CASE Leave(<<>>) /\ conn' = conn /\ raft' = raft
  <2>1. ConnShape(conn[self])
    BY <1>3, RunsFree
  <2>2. SameWaits(conn[self], conn[self]) /\ conn[self].exec \in ExecCbs
    BY <2>1 DEF SameWaits, ConnShape
  <2> QED BY <1>1, <1>3, <1>4, <1>5, <2>2, Goes DEF Unconcerned
<1>6. ASSUME NEW q,
             \/ AnswerNow(self, [conn[self] EXCEPT !.q = q])
             \/ AnswerNow(self, [conn[self] EXCEPT !.q = q, !.req = "none", !.tmp = "none"])
      PROVE  NodeInv'
  <2> DEFINE r == [conn[self] EXCEPT !.q = q]
             s == [conn[self] EXCEPT !.q = q, !.req = "none", !.tmp = "none"]
  <2>1. Keeps(r) /\ Keeps(s)
    BY <1>3 DEF Keeps, SameWaits, ConnFields
  <2>2. AnswerNow(self, r) \/ AnswerNow(self, s)
    BY <1>6
  <2> HIDE DEF r, s
  <2> QED BY <1>1, <1>3, <1>4, <2>1, <2>2, Answers
<1>7. \/ Leave(<<>>) /\ conn' = conn /\ raft' = raft
      \/ \E x : Batch(self, x)
  BY DEF query_batch
<1>8. ASSUME NEW x, Batch(self, x) PROVE NodeInv'
  <2> DEFINE y == IF x.rc = "row" THEN x ELSE Halt(x.v, x.s)
  <2>1. \/ AnswerNow(self, [conn[self] EXCEPT !.q = y.s])
        \/ AnswerNow(self, [conn[self] EXCEPT !.q = y.s, !.req = "none", !.tmp = "none"])
    BY <1>8 DEF Batch
  <2> HIDE DEF y
  <2> QED BY <2>1, <1>6
<1> QED BY <1>5, <1>7, <1>8

---------------------------------------------------------------------------
(* Requests about the cluster *)

\* The record of a connection that waits for a change or a transfer.
LEMMA ClusterWaits ==
  ASSUME NodeInv, NEW fn \in RequestTypes, Enter(fn), NEW req
  PROVE  /\ Free(self) /\ conn[self].exec = "none"
         /\ conn[self].gbar = "none" /\ conn[self].ebar = "none" /\ conn[self].inflight = FALSE
         /\ ConnShape([conn[self] EXCEPT !.req = req])
         /\ DOMAIN raft = {"state", "log", "transfer", "change"}
<1>1. /\ call # << >> /\ Head(call).fn = fn /\ Head(call).fn \in Runs /\ ~Ends(Head(call))
  BY HandlerFacts
<1>2. Free(self) /\ ConnShape(conn[self]) /\ ConnSound(self) /\ Later = {}
  BY <1>1, RunsFree
<1>3. Calls = {Head(call)} /\ fn \notin {"execBarrierCb", "leaderExecV2"}
  BY <1>1, <1>2, CallParts DEF RequestTypes
<1>4. ~InCall("execBarrierCb", self) /\ ~InCall("leaderExecV2", self)
  BY <1>1, <1>3 DEF InCall
<1>5. conn[self].exec = "none"
  BY <1>2, <1>4 DEF ConnSound, Free
<1>6. conn[self].gbar = "none" /\ conn[self].ebar = "none" /\ conn[self].inflight = FALSE
  BY <1>2 DEF Free, ConnShape
<1>7. ConnShape([conn[self] EXCEPT !.req = req])
  BY <1>2 DEF ConnShape, ConnFields
<1>8. RaftShape(raft)
  BY DEF NodeInv, Shape
<1> QED BY <1>2, <1>5, <1>6, <1>7, <1>8 DEF RaftShape

LEMMA ChangeRequestInv ==
  ASSUME NodeInv, NEW fn \in RequestTypes, NEW cmd, ChangeRequest(fn, cmd)
  PROVE  NodeInv'
<1>1. Enter(fn) /\ Unconcerned /\ acked' = acked
  BY DEF ChangeRequest, Unconcerned, ghosts
<1>2. /\ call # << >> /\ Head(call).fn = fn /\ Head(call).fn \in Runs
      /\ self \in Conn /\ DOMAIN conn[self] = ConnFields /\ DOMAIN conn = Conn
      /\ Keeps(conn[self]) /\ acked \subseteq applied
      /\ ~Ends(Head(call)) /\ ~IsDoom(Head(call))
      /\ Head(call).fn \notin {"execBarrierCb", "leaderExecV2"}
  BY <1>1, HandlerFacts
<1>3. CASE AnswerNow(self, conn[self])
  BY <1>1, <1>2, <1>3, Answers
<1>4. CASE /\ CanSubmit /\ raft.change = NoConn
           /\ conn' = [conn EXCEPT ![self].req = "change"]
           /\ raft' = [raft EXCEPT !.change = self,
                                   !.log = Append(@, Entry(cmd, NoDb, 0, NoConn))]
           /\ Leave(<<>>)
  <2> DEFINE r == [conn[self] EXCEPT !.req = "change"]
             e == Entry(cmd, NoDb, 0, NoConn)
  <2>1. /\ Free(self) /\ conn[self].exec = "none"
        /\ conn[self].gbar = "none" /\ conn[self].ebar = "none" /\ conn[self].inflight = FALSE
        /\ ConnShape(r) /\ DOMAIN raft = {"state", "log", "transfer", "change"}
    BY <1>1, ClusterWaits
  <2>2. /\ r.exec = "none" /\ r.gbar = "none" /\ r.ebar = "none" /\ r.inflight = FALSE
        /\ r.io = conn[self].io /\ r.vals = conn[self].vals
    BY <1>2, <2>1 DEF ConnFields
  <2>3. EntryShape(e) /\ e.c = NoConn /\ NoConn # self
    BY <1>2, NodeAssumption DEF EntryShape, Entry
  <2>4. conn' = [conn EXCEPT ![self] = r]
    BY <1>2, <1>4
  <2>5. /\ DOMAIN raft' = DOMAIN raft /\ raft'.state = raft.state
        /\ raft'.transfer = NoConn /\ raft.transfer = NoConn
        /\ raft'.change = self /\ raft'.log = Append(raft.log, e)
    BY <1>4, <2>1 DEF CanSubmit
  <2> DEFINE es == {e}
  <2> HIDE DEF r, e
  <2>6. (es = {} /\ raft'.log = raft.log) \/ \E f : es = {f} /\ raft'.log = Append(raft.log, f)
    BY <2>5
  <2>7. \A f \in es :
           /\ EntryShape(f) /\ f.c \in {self, NoConn}
           /\ f.c = self => /\ raft.state = "leader"
                            /\ f.cmd = "frames" => r.inflight
                            /\ f.cmd = "gbarrier" => r.gbar # "none"
                            /\ f.cmd \notin {"frames", "gbarrier"} => r.ebar # "none"
    BY <2>3
  <2> HIDE DEF es
  <2>8. Leave(<<>>)
    BY <1>4
  <2>9. /\ call # << >> /\ Head(call).fn \in Runs /\ ~Ends(Head(call))
        /\ applied' = applied /\ scenario' = scenario /\ acked' = acked
    BY <1>1, <1>2 DEF Unconcerned
  <2>10. ConnShape(r) /\ raft'.transfer # self /\ (raft'.transfer = self => raft'.change # self)
         /\ raft'.transfer = raft.transfer
    BY <2>1, <2>3, <2>5
  <2>11. raft'.change = raft.change \/ (raft.change = NoConn /\ raft'.change = self)
    BY <1>4, <2>5
  <2>12. \A v \in r.vals : \/ v \in conn[self].vals
                            \/ \E f \in es : f.c = self /\ f.cmd = "frames" /\ f.val = v
    BY <2>2
  <2> QED BY <2>2, <2>4, <2>5, <2>6, <2>7, <2>8, <2>9, <2>10, <2>11, <2>12, Waits
<1> QED BY <1>3, <1>4 DEF ChangeRequest

LEMMA handle_transferInv ==
  ASSUME NodeInv, handle_transfer
  PROVE  NodeInv'
<1> DEFINE fn == "handle_transfer"
<1>1. fn \in RequestTypes /\ Enter(fn) /\ Unconcerned /\ acked' = acked
  BY DEF handle_transfer, Unconcerned, ghosts, RequestTypes
<1>2. /\ call # << >> /\ Head(call).fn = fn /\ Head(call).fn \in Runs
      /\ self \in Conn /\ DOMAIN conn[self] = ConnFields /\ DOMAIN conn = Conn
      /\ Keeps(conn[self]) /\ acked \subseteq applied
      /\ ~Ends(Head(call)) /\ ~IsDoom(Head(call))
      /\ Head(call).fn \notin {"execBarrierCb", "leaderExecV2"}
  BY <1>1, HandlerFacts
<1>3. CASE AnswerNow(self, conn[self])
  BY <1>1, <1>2, <1>3, Answers
<1>4. CASE /\ CanSubmit
           /\ conn' = [conn EXCEPT ![self].req = "transfer"]
           /\ raft' = [raft EXCEPT !.transfer = self]
           /\ Leave(<<>>)
  <2> DEFINE r == [conn[self] EXCEPT !.req = "transfer"]
  <2>1. /\ Free(self) /\ conn[self].exec = "none"
        /\ conn[self].gbar = "none" /\ conn[self].ebar = "none" /\ conn[self].inflight = FALSE
        /\ ConnShape(r) /\ DOMAIN raft = {"state", "log", "transfer", "change"}
    BY <1>1, ClusterWaits
  <2>2. /\ r.exec = "none" /\ r.gbar = "none" /\ r.ebar = "none" /\ r.inflight = FALSE
        /\ r.io = conn[self].io /\ r.vals = conn[self].vals
    BY <1>2, <2>1 DEF ConnFields
  <2>3. conn' = [conn EXCEPT ![self] = r]
    BY <1>2, <1>4
  <2>4. /\ DOMAIN raft' = DOMAIN raft /\ raft'.state = raft.state
        /\ raft'.transfer = self /\ raft.transfer = NoConn
        /\ raft'.change = raft.change /\ raft'.log = raft.log
    BY <1>4, <2>1 DEF CanSubmit
  <2>5. raft.change # self
    BY <2>1 DEF Free
  <2> DEFINE es == {}
  <2>6. \A e \in es :
           /\ EntryShape(e) /\ e.c \in {self, NoConn}
           /\ e.c = self => /\ raft.state = "leader"
                            /\ e.cmd = "frames" => r.inflight
                            /\ e.cmd = "gbarrier" => r.gbar # "none"
                            /\ e.cmd \notin {"frames", "gbarrier"} => r.ebar # "none"
    OBVIOUS
  <2>7. (es = {} /\ raft'.log = raft.log) \/ \E e : es = {e} /\ raft'.log = Append(raft.log, e)
    BY <2>4
  <2>8. Leave(<<>>)
    BY <1>4
  <2>9. \A v \in r.vals : \/ v \in conn[self].vals
                          \/ \E e \in es : e.c = self /\ e.cmd = "frames" /\ e.val = v
    BY <2>2
  <2> HIDE DEF r, es
  <2> QED BY <1>1, <1>2, <2>1, <2>2, <2>3, <2>4, <2>5, <2>6, <2>7, <2>8, <2>9, Waits DEF Unconcerned
<1> QED BY <1>3, <1>4 DEF handle_transfer

\* The callbacks of a change and of a transfer answer.
LEMMA ClusterCbInv ==
  ASSUME NodeInv, raftChangeCb \/ raftTransferCb
  PROVE  NodeInv'
<1> DEFINE r == [conn[self] EXCEPT !.req = "none"]
<1>1. PICK fn \in ClusterCbs : Enter(fn) /\ AnswerNow(self, r) /\ Unconcerned /\ acked' = acked
  BY DEF raftChangeCb, raftTransferCb, ClusterCbs, Unconcerned, ghosts
<1>2. fn \in Runs /\ fn \notin {"execBarrierCb", "leaderExecV2", "leaderApplyFramesCb"} /\ fn \notin ExecCbs
  BY Names DEF ClusterCbs, ExecCbs
<1>3. /\ call # << >> /\ Head(call).fn = fn /\ Keeps(conn[self]) /\ acked \subseteq applied
  BY <1>1, <1>2, Entered
<1>4. Keeps(r)
  BY <1>3 DEF Keeps, SameWaits, ConnFields
<1>5. ~IsDoom(Head(call))
  BY <1>2, <1>3 DEF IsDoom
<1> HIDE DEF r
<1> QED BY <1>1, <1>2, <1>3, <1>4, <1>5, Answers

---------------------------------------------------------------------------
(* Executions *)

\* The execution of a function that runs ends with st.
LEMMA ExecDone ==
  ASSUME NodeInv, NEW fn \in {"execBarrierCb", "leaderExecV2"}, Enter(fn), NEW q, NEW st,
         leaderExecDone(self, q, st), q = conn[self] \/ \E s : q = [conn[self] EXCEPT !.q = s],
         Ends(Head(call)) => st = status, raft' = raft, Unconcerned, acked' = acked
  PROVE  NodeInv'
<1>1. fn \in Resumed /\ fn \in Runs
  BY Names DEF Resumed
<1>2. /\ call # << >> /\ Head(call).fn = fn /\ Head(call).fn \in Runs /\ self \in Conn
      /\ ConnShape(conn[self]) /\ DOMAIN conn[self] = ConnFields /\ acked \subseteq applied
  BY <1>1, Entered
<1> DEFINE r == [q EXCEPT !.exec = "none"]
           f == Fn(conn[self].exec, self, st)
<1>3. /\ SameWaits(r, conn[self]) /\ r.exec = "none" /\ r.vals = conn[self].vals
      /\ r.io = conn[self].io /\ r.req = conn[self].req /\ r.d = conn[self].d
  <2>1. CASE q = conn[self]
    BY <1>2, <2>1 DEF SameWaits, ConnFields
  <2>2. ASSUME NEW s, q = [conn[self] EXCEPT !.q = s] PROVE <1>3!:
    BY <1>2, <2>2 DEF SameWaits, ConnFields
  <2> QED BY <2>1, <2>2
<1>4. f.fn = conn[self].exec /\ f.c = self /\ f.st = st /\ f.fn \in ExecCbs /\ f.fn \in Resumed
  BY <1>2, FnFields, Names DEF ConnShape
<1>5. Leave(<< f >>) /\ conn' = [conn EXCEPT ![self] = r]
  BY DEF leaderExecDone
<1> HIDE DEF r, f
<1>6. Ends(Head(call)) => Ends(f) /\ IsDoom(f)
  <2>1. ASSUME Ends(Head(call)) PROVE st \in Failures
    <3>1. fn \notin Closes \cup ClusterCbs
      BY DEF Closes, LeaderCloses, ClusterCbs
    <3>2. fn = "execBarrierCb"
      BY <1>2, <2>1, GoesOn
    <3>3. Head(call).st \in Failures
      BY <1>2, <2>1, <3>1, <3>2 DEF Ends
    <3> QED BY <2>1, <3>3 DEF status
  <2> QED BY <1>4, <2>1, DoomEnds DEF IsDoom
<1>7. ~Ends(f) => r.req # "none" /\ r.d # NoDb
  BY <1>1, <1>2, <1>3, <1>6, RunsFree
<1>8. \E g : /\ << f >> = << g >> /\ g.c = self /\ r.io = conn[self].io
             /\ \/ g.fn = "conn__stop" /\ ~Ends(Head(call))
                \/ g.fn \in Resumed \cup {"query_batch"} /\ (Ends(Head(call)) => Ends(g))
             /\ g.fn \in Resumed /\ ~Ends(g) => r.req # "none" /\ r.d # NoDb
  BY <1>3, <1>4, <1>6, <1>7
<1>9. IsDoom(Head(call)) => r.vals = {} \/ \E g \in Elems(<< f >>) : IsDoom(g) /\ g.c = self
  BY <1>4, <1>6, DoomEnds, OneSeq
<1>10. r.exec \in ExecCbs /\ acked' \subseteq applied
  BY <1>2, <1>3 DEF ExecCbs
<1> QED BY <1>2, <1>3, <1>5, <1>8, <1>9, <1>10, Goes DEF Unconcerned

LEMMA execBarrierCbInv ==
  ASSUME NodeInv, execBarrierCb
  PROVE  NodeInv'
<1>1. Enter("execBarrierCb") /\ raft' = raft /\ Unconcerned /\ acked' = acked
  BY DEF execBarrierCb, Unconcerned, ghosts
<1>2. CASE leaderExecDone(self, conn[self], status)
  BY <1>1, <1>2, ExecDone
<1>3. CASE status = "ok" /\ Leave(<<Fn("leaderExecV2", self, "ok")>>) /\ conn' = conn
  <2> DEFINE f == Fn("leaderExecV2", self, "ok")
  <2>1. "execBarrierCb" \in Resumed /\ "leaderExecV2" \in Resumed /\ status \notin Failures
    BY <1>3, Names DEF Failures
  <2>2. /\ call # << >> /\ Head(call).fn \in Runs /\ ~Ends(Head(call))
        /\ Keeps(conn[self]) /\ acked \subseteq applied /\ conn[self].exec \in ExecCbs
        /\ conn[self].req # "none" /\ conn[self].d # NoDb
    BY <1>1, <2>1, ResumedFacts
  <2>3. f.fn = "leaderExecV2" /\ f.c = self
    BY FnFields
  <2>4. Leave(<< f >>)
    BY <1>3
  <2> HIDE DEF f
  <2>5. \E g : /\ << f >> = << g >> /\ g.c = self /\ conn[self].io = conn[self].io
               /\ \/ g.fn = "conn__stop" /\ ~Ends(Head(call))
                  \/ g.fn \in Resumed \cup {"query_batch"} /\ (Ends(Head(call)) => Ends(g))
               /\ g.fn \in Resumed /\ ~Ends(g) => conn[self].req # "none" /\ conn[self].d # NoDb
    BY <2>1, <2>2, <2>3
  <2>6. \E g \in Elems(<< f >>) : g.fn \in {"execBarrierCb", "leaderExecV2"} /\ g.c = self
    BY <2>3, OneSeq
  <2>7. ~IsDoom(Head(call)) /\ acked' \subseteq applied /\ SameWaits(conn[self], conn[self])
    BY <1>1, <2>2, DoomEnds DEF Keeps
  <2> QED BY <1>1, <1>3, <2>2, <2>4, <2>5, <2>6, <2>7, Goes DEF Unconcerned
<1> QED BY <1>2, <1>3 DEF execBarrierCb

LEMMA leaderApplyFramesInv ==
  ASSUME NodeInv, Enter("leaderExecV2"), NEW p, NEW s, leaderApplyFrames(self, p, s),
         Unconcerned, acked' = acked
  PROVE  NodeInv'
<1>1. "leaderExecV2" \in Resumed /\ "leaderExecV2" \in Runs
  BY Names
<1>2. /\ call # << >> /\ Head(call).fn = "leaderExecV2" /\ Head(call).fn \in Runs /\ self \in Conn
      /\ Free(self) /\ ConnShape(conn[self]) /\ DOMAIN conn[self] = ConnFields /\ DOMAIN conn = Conn
  BY <1>1, Entered
<1>3. ~Ends(Head(call))
  BY <1>2, GoesOn
<1>4. conn[self].req # "none" /\ conn[self].d # NoDb
  BY <1>1, <1>2, <1>3, RunsFree
<1> DEFINE v == ValOf(p.frames)
           r == [conn[self] EXCEPT !.inflight = TRUE, !.vals = @ \cup {v}, !.q = s]
           e == Entry("frames", conn[self].d, v, self)
<1>5. /\ r.inflight = TRUE /\ r.vals = conn[self].vals \cup {v} /\ r.gbar = "none" /\ r.ebar = "none"
      /\ r.io = conn[self].io /\ r.req # "none" /\ r.d # NoDb /\ ConnShape(r)
  <2> HIDE DEF v
  <2>1. conn[self].gbar = "none" /\ conn[self].ebar = "none"
    BY <1>2 DEF Free
  <2> QED BY <1>2, <1>4, <2>1 DEF ConnFields, ConnShape
<1>6. conn' = [conn EXCEPT ![self] = r]
  <2> HIDE DEF v
  <2>1. conn' = [conn EXCEPT ![self].inflight = TRUE, ![self].vals = @ \cup {v}, ![self].q = s]
    BY DEF leaderApplyFrames, v
  <2> QED BY <1>2, <2>1
<1>7. EntryShape(e) /\ e.c = self /\ e.cmd = "frames" /\ e.val = v
  <2> HIDE DEF v
  <2> QED BY <1>2 DEF Entry, EntryShape
<1> HIDE DEF v, r
<1>8. RaftShape(raft)
  BY DEF NodeInv, Shape
<1>9. /\ DOMAIN raft' = DOMAIN raft /\ raft'.state = raft.state /\ raft.state = "leader"
      /\ raft'.transfer = raft.transfer /\ raft.transfer = NoConn
      /\ raft'.change = raft.change /\ raft'.log = Append(raft.log, e)
  <2>1. CanSubmit /\ raft' = [raft EXCEPT !.log = Append(@, e)]
    BY DEF leaderApplyFrames, Submit, v
  <2> HIDE DEF e
  <2> QED BY <1>8, <2>1 DEF RaftShape, CanSubmit
<1> HIDE DEF e
<1>10. raft.change # self /\ raft.transfer # self
  BY <1>2 DEF Free
<1>11. ({e} = {} /\ raft'.log = raft.log) \/ \E f : {e} = {f} /\ raft'.log = Append(raft.log, f)
  BY <1>9
<1>12. \A f \in {e} :
           /\ EntryShape(f) /\ f.c \in {self, NoConn}
           /\ f.c = self => /\ raft.state = "leader"
                            /\ f.cmd = "frames" => r.inflight
                            /\ f.cmd = "gbarrier" => r.gbar # "none"
                            /\ f.cmd \notin {"frames", "gbarrier"} => r.ebar # "none"
  BY <1>5, <1>7, <1>9
<1>13. \A w \in r.vals : \/ w \in conn[self].vals
                         \/ \E f \in {e} : f.c = self /\ f.cmd = "frames" /\ f.val = w
  BY <1>5, <1>7
<1>14. Leave(<<>>)
  BY DEF leaderApplyFrames
<1>15. /\ r.gbar # "none" => /\ r.ebar = "none" /\ ~r.inflight
                              /\ raft'.transfer # self /\ raft'.change # self
       /\ r.ebar # "none" => ~r.inflight /\ raft'.transfer # self /\ raft'.change # self
       /\ r.inflight => raft'.transfer # self /\ raft'.change # self
       /\ raft'.transfer = self => raft'.change # self
       /\ r.gbar # "none" \/ r.ebar # "none" \/ r.inflight => r.req # "none" /\ r.d # NoDb
       /\ r.exec # "none" => r.ebar # "none" \/ r.inflight
  BY <1>5, <1>9, <1>10
<1> DEFINE es == {e}
<1>16. /\ (es = {} /\ raft'.log = raft.log) \/ \E f : es = {f} /\ raft'.log = Append(raft.log, f)
       /\ \A w \in r.vals : \/ w \in conn[self].vals
                            \/ \E f \in es : f.c = self /\ f.cmd = "frames" /\ f.val = w
  BY <1>11, <1>13
<1>17. \A f \in es :
           /\ EntryShape(f) /\ f.c \in {self, NoConn}
           /\ f.c = self => /\ raft.state = "leader"
                            /\ f.cmd = "frames" => r.inflight
                            /\ f.cmd = "gbarrier" => r.gbar # "none"
                            /\ f.cmd \notin {"frames", "gbarrier"} => r.ebar # "none"
  BY <1>12
<1> HIDE DEF es
<1> QED BY <1>2, <1>3, <1>5, <1>6, <1>9, <1>14, <1>15, <1>16, <1>17, Waits DEF Unconcerned

LEMMA leaderExecV2Inv ==
  ASSUME NodeInv, leaderExecV2
  PROVE  NodeInv'
<1>1. Enter("leaderExecV2") /\ Unconcerned /\ acked' = acked
  BY DEF leaderExecV2, Unconcerned, ghosts
<1>2. \/ \E s, st : leaderExecDone(self, [conn[self] EXCEPT !.q = s], st) /\ raft' = raft
      \/ \E p, s : leaderApplyFrames(self, p, s)
  BY ZenonT(60) DEF leaderExecV2
<1>3. ~Ends(Head(call))
  BY <1>1, GoesOn DEF Enter
<1>4. ASSUME NEW s, NEW st, leaderExecDone(self, [conn[self] EXCEPT !.q = s], st), raft' = raft
      PROVE  NodeInv'
  BY <1>1, <1>3, <1>4, ExecDone
<1>5. ASSUME NEW p, NEW s, leaderApplyFrames(self, p, s) PROVE NodeInv'
  BY <1>1, <1>5, leaderApplyFramesInv
<1> QED BY <1>2, <1>4, <1>5

---------------------------------------------------------------------------
(* The callbacks of raft *)

\* The function that is next, when it is the callback of a wait.
LEMMA FiredFacts ==
  ASSUME NodeInv, call # << >>, Head(call).fn \in Fires
  PROVE  /\ self \in Conn /\ ConnShape(conn[self]) /\ DOMAIN conn = Conn
         /\ ConnSound(self) /\ ValsSound(self) /\ Sound(Head(call)) /\ RaftShape(raft)
         /\ \A e \in Entries : EntrySound(e)
         /\ OneEntry /\ acked \subseteq applied
         /\ Head(call).fn \notin Closes /\ Head(call).fn \notin Runs
         /\ Ends(Head(call)) <=> status \in Failures
         /\ ~Ends(Head(call)) => /\ conn[self].io = "handling" /\ conn[self].req # "none"
                                 /\ conn[self].d # NoDb
         /\ Calls = {Head(call)} \cup Later
<1>1. Sound(Head(call)) /\ Calls = {Head(call)} \cup Later
  BY CallParts
<1>2. Head(call).fn \notin {"convertSetState", "raft_close"} /\ Head(call).fn \notin Closes
      /\ Head(call).fn \notin Runs /\ Head(call).fn \notin ClusterCbs
  BY DEF Fires, Closes, LeaderCloses, Runs, RequestTypes, Resumed, BarrierCbs, ExecCbs, ClusterCbs
<1>3. self \in Conn
  BY <1>1, <1>2 DEF Sound, self
<1>4. Ends(Head(call)) <=> status \in Failures
  BY <1>2, Names DEF Ends, status
<1>5. ~Ends(Head(call)) => /\ conn[self].io = "handling" /\ conn[self].req # "none"
                           /\ conn[self].d # NoDb
  BY <1>1 DEF Sound, self
<1> QED BY <1>1, <1>2, <1>3, <1>4, <1>5 DEF NodeInv, Shape

LEMMA raftBarrierCbInv ==
  ASSUME NodeInv, raftBarrierCb("raftBarrierCb", "gbar")
  PROVE  NodeInv'
<1>1. /\ call # << >> /\ Head(call).fn = "raftBarrierCb" /\ Head(call).fn \in Fires
      /\ raft' = raft /\ Unconcerned /\ acked' = acked
  BY Names DEF raftBarrierCb, Enter, Unconcerned, ghosts
<1>2. PICK c \in Conn : c = self
  BY <1>1, FiredFacts
<1>3. /\ ConnShape(conn[c]) /\ DOMAIN conn = Conn
      /\ ConnSound(c) /\ ValsSound(c) /\ Sound(Head(call)) /\ RaftShape(raft)
      /\ \A e \in Entries : EntrySound(e)
      /\ OneEntry /\ acked \subseteq applied
      /\ Ends(Head(call)) <=> status \in Failures
      /\ ~Ends(Head(call)) => conn[c].io = "handling" /\ conn[c].req # "none" /\ conn[c].d # NoDb
      /\ Calls = {Head(call)} \cup Later /\ Head(call).c = c
  BY <1>1, <1>2, FiredFacts DEF self
<1> DEFINE st == IF status \in {"ok", "lost"} THEN status ELSE "error"
           f == Fn(conn[c].gbar, c, st)
           fns == IF conn[c].gbar = "none" THEN << >> ELSE << f >>
<1>4. /\ f.fn = conn[c].gbar /\ f.c = c /\ f.st = st
      /\ conn[c].gbar # "none" => f.fn \in BarrierCbs /\ f.fn \in Resumed /\ f.fn \in Runs /\ f.fn \notin Closes
  BY <1>3, FnFields, Names DEF ConnShape
<1>5. /\ conn'[c] = [conn[c] EXCEPT !.gbar = "none"]
      /\ DOMAIN conn' = Conn /\ \A x \in Conn \ {c} : conn'[x] = conn[x]
  BY <1>2, <1>3 DEF raftBarrierCb, ConnShape, ConnFields
<1>6. /\ DOMAIN conn'[c] = ConnFields /\ conn'[c].gbar = "none" /\ conn'[c].ebar = conn[c].ebar
      /\ conn'[c].exec = conn[c].exec /\ conn'[c].inflight = conn[c].inflight
      /\ conn'[c].io = conn[c].io /\ conn'[c].req = conn[c].req /\ conn'[c].d = conn[c].d
      /\ conn'[c].vals = conn[c].vals
  BY <1>3, <1>5 DEF ConnShape, ConnFields
<1>7. Leave(fns)
  BY <1>2 DEF raftBarrierCb
<1>8. status \in Failures => st \in Failures
  BY DEF Failures
<1>9. st \notin Failures => status = "ok"
  BY DEF Failures
<1> HIDE DEF f, st
<1>10. \A g \in Elems(fns) : g = f /\ conn[c].gbar # "none"
  BY NoneSeq, OneSeq
<1>11. IsSeq(fns) /\ InOrder(fns) /\ Len(fns) <= 1 /\ (conn[c].gbar # "none" => f \in Elems(fns))
  BY NoneSeq, OneSeq, ShortOrder
<1> HIDE DEF fns
<1>12. StepOf(c, fns)
  BY <1>1, <1>3, <1>5, <1>7 DEF StepOf, Unconcerned, Entries
<1>13. conn[c].gbar # "none" /\ Ends(Head(call)) => Ends(f)
  BY <1>3, <1>4, <1>8 DEF Ends
<1>14. Shrinks(c)
  BY <1>1, <1>6 DEF Shrinks, Free, Entries
<1>15. ConnShape(conn'[c])
  BY <1>3, <1>6 DEF ConnShape
<1>16. ASSUME Calls' = Elems(fns) \cup Later
       PROVE  /\ \A g \in Elems(fns) : Sound(g)'
              /\ ConnSound(c)' /\ ValsSound(c)'
              /\ \A e \in Entries' : e.c = c => EntrySound(e)'
  <2>1. /\ ClosesRaft => ClosesRaft'
        /\ \A fn : fn # "raftBarrierCb" /\ InCall(fn, c) => InCall(fn, c)'
    BY <1>1, <1>3, <1>16 DEF ClosesRaft, InCall
  <2>2. WaitsFired(c) => WaitsFired(c)'
    BY <1>6, <2>1 DEF WaitsFired
  <2>3. conn[c].gbar # "none" => Free(c)'
    BY <1>1, <1>3, <1>6 DEF ConnSound, Free
  <2>4. ASSUME NEW g \in Elems(fns) PROVE Sound(g)'
    <3>1. g = f /\ conn[c].gbar # "none"
      BY <1>10
    <3>2. g.fn \notin Fires /\ g.fn \notin Closes /\ g.fn \in Runs
      BY <1>4, <3>1, Names
    <3>3. ~Ends(g) => conn'[c].io = "handling" /\ conn'[c].req # "none" /\ conn'[c].d # NoDb
      <4>1. ~Ends(g) => ~Ends(Head(call))
        BY <1>13, <3>1
      <4> QED BY <1>3, <1>6, <4>1
    <3>4. g.fn \notin {"leaderApplyFramesCb", "raftBarrierCb", "raftBarrierCbExec"}
          /\ g.fn \notin LeaderCloses /\ g.fn \notin {"conn__stop", "gateway__leader_close", "convertSetState", "raft_close"}
      BY <3>2, Names
    <3> QED BY <1>4, <2>3, <3>1, <3>2, <3>3, <3>4 DEF Sound
  <2>5. ConnSound(c)'
    BY <1>1, <1>3, <1>6, <2>1, <2>2 DEF ConnSound, Free
  <2>6. ValsSound(c)'
    <3>1. Doomed(c) => Doomed(c)'
      BY <1>1, <1>3, <1>16 DEF Doomed, ExecCbs
    <3> QED BY <1>1, <1>3, <1>6, <3>1 DEF ValsSound, Entries, Unconcerned
  <2>7. ASSUME NEW e \in Entries', e.c = c PROVE EntrySound(e)'
    <3>1. e \in Entries /\ EntrySound(e) /\ c # NoConn
      BY <1>1, <1>3, NodeAssumption DEF Entries
    <3>2. GBarrier(e, c) => ClosesRaft
      BY <1>1, <1>3, <3>1 DEF Sound
    <3> QED BY <1>1, <1>6, <2>1, <2>7, <3>1, <3>2 DEF EntrySound, GBarrier
  <2> QED BY <2>4, <2>5, <2>6, <2>7
<1>17. \A g \in Elems(fns) : g.fn \notin Closes
  BY <1>4, <1>10
<1>18. Ends(Head(call)) => \A g \in Elems(fns) : Ends(g)
  BY <1>10, <1>13
<1>19. OneEntry' /\ acked' \subseteq applied /\ RaftShape(raft')
  BY <1>1, <1>3 DEF OneEntry
<1> QED BY <1>11, <1>12, <1>14, <1>15, <1>16, <1>17, <1>18, <1>19, StepInv

LEMMA raftBarrierCbExecInv ==
  ASSUME NodeInv, raftBarrierCb("raftBarrierCbExec", "ebar")
  PROVE  NodeInv'
<1>1. /\ call # << >> /\ Head(call).fn = "raftBarrierCbExec" /\ Head(call).fn \in Fires
      /\ raft' = raft /\ Unconcerned /\ acked' = acked
  BY Names DEF raftBarrierCb, Enter, Unconcerned, ghosts
<1>2. PICK c \in Conn : c = self
  BY <1>1, FiredFacts
<1>3. /\ ConnShape(conn[c]) /\ DOMAIN conn = Conn
      /\ ConnSound(c) /\ ValsSound(c) /\ Sound(Head(call)) /\ RaftShape(raft)
      /\ \A e \in Entries : EntrySound(e)
      /\ OneEntry /\ acked \subseteq applied
      /\ Ends(Head(call)) <=> status \in Failures
      /\ ~Ends(Head(call)) => conn[c].io = "handling" /\ conn[c].req # "none" /\ conn[c].d # NoDb
      /\ Calls = {Head(call)} \cup Later /\ Head(call).c = c
  BY <1>1, <1>2, FiredFacts DEF self
<1> DEFINE st == IF status \in {"ok", "lost"} THEN status ELSE "error"
           f == Fn(conn[c].ebar, c, st)
           fns == IF conn[c].ebar = "none" THEN << >> ELSE << f >>
<1>4. /\ f.fn = conn[c].ebar /\ f.c = c /\ f.st = st
      /\ conn[c].ebar # "none" => f.fn = "execBarrierCb" /\ f.fn \in Resumed /\ f.fn \in Runs /\ f.fn \notin Closes
  BY <1>3, FnFields, Names DEF ConnShape
<1>5. /\ conn'[c] = [conn[c] EXCEPT !.ebar = "none"]
      /\ DOMAIN conn' = Conn /\ \A x \in Conn \ {c} : conn'[x] = conn[x]
  BY <1>2, <1>3 DEF raftBarrierCb, ConnShape, ConnFields
<1>6. /\ DOMAIN conn'[c] = ConnFields /\ conn'[c].ebar = "none" /\ conn'[c].gbar = conn[c].gbar
      /\ conn'[c].exec = conn[c].exec /\ conn'[c].inflight = conn[c].inflight
      /\ conn'[c].io = conn[c].io /\ conn'[c].req = conn[c].req /\ conn'[c].d = conn[c].d
      /\ conn'[c].vals = conn[c].vals
  BY <1>3, <1>5 DEF ConnShape, ConnFields
<1>7. Leave(fns)
  BY <1>2 DEF raftBarrierCb
<1>8. status \in Failures => st \in Failures
  BY DEF Failures
<1>9. st \notin Failures => status = "ok"
  BY DEF Failures
<1> HIDE DEF f, st
<1>10. \A g \in Elems(fns) : g = f /\ conn[c].ebar # "none"
  BY NoneSeq, OneSeq
<1>11. IsSeq(fns) /\ InOrder(fns) /\ Len(fns) <= 1 /\ (conn[c].ebar # "none" => f \in Elems(fns))
  BY NoneSeq, OneSeq, ShortOrder
<1> HIDE DEF fns
<1>12. StepOf(c, fns)
  BY <1>1, <1>3, <1>5, <1>7 DEF StepOf, Unconcerned, Entries
<1>13. conn[c].ebar # "none" /\ Ends(Head(call)) => Ends(f)
  BY <1>3, <1>4, <1>8 DEF Ends
<1>14. Shrinks(c)
  BY <1>1, <1>6 DEF Shrinks, Free, Entries
<1>15. ConnShape(conn'[c])
  BY <1>3, <1>6 DEF ConnShape
<1>16. ASSUME Calls' = Elems(fns) \cup Later
       PROVE  /\ \A g \in Elems(fns) : Sound(g)'
              /\ ConnSound(c)' /\ ValsSound(c)'
              /\ \A e \in Entries' : e.c = c => EntrySound(e)'
  <2>1. /\ ClosesRaft => ClosesRaft'
        /\ \A fn : fn # "raftBarrierCbExec" /\ InCall(fn, c) => InCall(fn, c)'
    BY <1>1, <1>3, <1>16 DEF ClosesRaft, InCall
  <2>2. WaitsFired(c) => WaitsFired(c)'
    BY <1>6, <2>1 DEF WaitsFired
  <2>3. conn[c].ebar # "none" => Free(c)'
    BY <1>1, <1>3, <1>6 DEF ConnSound, Free
  <2>4. ASSUME NEW g \in Elems(fns) PROVE Sound(g)'
    <3>1. g = f /\ conn[c].ebar # "none"
      BY <1>10
    <3>2. g.fn \notin Fires /\ g.fn \notin Closes /\ g.fn \in Runs
      BY <1>4, <3>1, Names
    <3>3. ~Ends(g) => conn'[c].io = "handling" /\ conn'[c].req # "none" /\ conn'[c].d # NoDb
      <4>1. ~Ends(g) => ~Ends(Head(call))
        BY <1>13, <3>1
      <4> QED BY <1>3, <1>6, <4>1
    <3>4. g.fn \notin {"leaderApplyFramesCb", "raftBarrierCb", "raftBarrierCbExec"}
          /\ g.fn \notin LeaderCloses /\ g.fn \notin {"conn__stop", "gateway__leader_close", "convertSetState", "raft_close"}
      BY <3>2, Names
    <3> QED BY <1>4, <2>3, <3>1, <3>2, <3>3, <3>4 DEF Sound
  <2>5. ConnSound(c)'
    <3>1. conn[c].ebar # "none" => InCall("execBarrierCb", c)'
      BY <1>4, <1>11, <1>16 DEF InCall
    <3> QED BY <3>1, <1>1, <1>3, <1>6, <2>1, <2>2 DEF ConnSound, Free
  <2>6. ValsSound(c)'
    <3>1. Doomed(c) => Doomed(c)'
      BY <1>1, <1>3, <1>16 DEF Doomed, ExecCbs
    <3> QED BY <1>1, <1>3, <1>6, <3>1 DEF ValsSound, Entries, Unconcerned
  <2>7. ASSUME NEW e \in Entries', e.c = c PROVE EntrySound(e)'
    <3>1. e \in Entries /\ EntrySound(e) /\ c # NoConn
      BY <1>1, <1>3, NodeAssumption DEF Entries
    <3>2. EBarrier(e, c) => ClosesRaft
      BY <1>1, <1>3, <3>1 DEF Sound
    <3> QED BY <1>1, <1>6, <2>1, <2>7, <3>1, <3>2 DEF EntrySound, EBarrier
  <2> QED BY <2>4, <2>5, <2>6, <2>7
<1>17. \A g \in Elems(fns) : g.fn \notin Closes
  BY <1>4, <1>10
<1>18. Ends(Head(call)) => \A g \in Elems(fns) : Ends(g)
  BY <1>10, <1>13
<1>19. OneEntry' /\ acked' \subseteq applied /\ RaftShape(raft')
  BY <1>1, <1>3 DEF OneEntry
<1> QED BY <1>11, <1>12, <1>14, <1>15, <1>16, <1>17, <1>18, <1>19, StepInv

\* The entries of a log, mapped one by one.
LEMMA MapSeq ==
  ASSUME NEW s, IsSeq(s), NEW t, t = [i \in DOMAIN s |-> t[i]]
  PROVE  IsSeq(t) /\ DOMAIN t = DOMAIN s
<1>1. Len(s) \in Nat /\ DOMAIN s = 1..Len(s)
  BY SeqFacts
<1>2. t \in [1..Len(s) -> {t[i] : i \in DOMAIN t}]
  BY <1>1
<1> QED BY <1>1, <1>2 DEF IsSeq

\* What the callback of a transaction makes of the log.
LEMMA FramesLog ==
  ASSUME NodeInv, call # << >>, Head(call).fn = "leaderApplyFramesCb", NEW c \in Conn, c = self,
         \/ status = "ok" /\ leaderMaybeCheckpointLegacy(self)
         \/ status \in {"lost", "ioerr"} /\ raft' = raft
         \/ status = "shutdown" /\ ForgetFrames
  PROVE  /\ RaftShape(raft') /\ OneEntry'
         /\ raft'.state = raft.state /\ raft'.transfer = raft.transfer /\ raft'.change = raft.change
         /\ \A e : e.c \in Conn \ {c} => (e \in Entries' <=> e \in Entries)
         /\ \A e \in Entries' : e.c = c => e \in Entries /\ e.cmd # "frames"
<1>1. Sound(Head(call)) /\ RaftShape(raft) /\ OneEntry /\ Head(call).c = c /\ c # NoConn
  BY Names, FiredFacts, NodeAssumption DEF self
<1>2. status # "shutdown" => \A e \in Entries : ~Frames(e, c)
  BY <1>1 DEF Sound, status
<1>3. CASE raft' = raft /\ status # "shutdown"
  BY <1>1, <1>2, <1>3 DEF Entries, OneEntry, Frames
<1>4. CASE status = "ok" /\ Submit(Entry("checkpoint", conn[c].d, 0, NoConn))
  <2> DEFINE e == Entry("checkpoint", conn[c].d, 0, NoConn)
             l == raft.log
  <2>1. EntryShape(e) /\ e.c = NoConn
    BY DEF EntryShape, Entry
  <2>2. raft' = [raft EXCEPT !.log = Append(l, e)]
    BY <1>4 DEF Submit
  <2> HIDE DEF e
  <2>3. /\ raft'.state = raft.state /\ raft'.transfer = raft.transfer /\ raft'.change = raft.change
        /\ DOMAIN raft' = DOMAIN raft /\ raft'.log = Append(l, e)
    BY <1>1, <2>2 DEF RaftShape
  <2>4. /\ IsSeq(l)
        /\ IsSeq(Append(l, e)) /\ Elems(Append(l, e)) = Elems(l) \cup {e}
        /\ Len(l) \in Nat /\ DOMAIN l = 1..Len(l)
        /\ DOMAIN Append(l, e) = 1..Len(l) + 1
        /\ \A i \in 1..Len(l) : Append(l, e)[i] = l[i]
        /\ Append(l, e)[Len(l) + 1] = e
    BY <1>1, AppendElems, SeqFacts DEF RaftShape
  <2>5. Entries' = Entries \cup {e}
    BY <2>3, <2>4 DEF Entries
  <2>6. RaftShape(raft')
    BY <1>1, <2>1, <2>3, <2>4 DEF RaftShape
  <2>7. OneEntry'
    <3> SUFFICES ASSUME NEW j \in 1..Len(l) + 1, NEW k \in 1..Len(l) + 1,
                        Append(l, e)[j].c = Append(l, e)[k].c, Append(l, e)[j].c # NoConn
                 PROVE  j = k
      BY <2>3, <2>4 DEF OneEntry
    <3>1. j # Len(l) + 1 /\ k # Len(l) + 1
      BY <2>1, <2>4
    <3>2. j \in 1..Len(l) /\ k \in 1..Len(l)
      BY <2>4, <3>1
    <3> QED BY <1>1, <2>4, <3>2 DEF OneEntry
  <2>8. status # "shutdown"
    BY <1>4
  <2> QED BY <1>1, <1>2, <2>1, <2>3, <2>5, <2>6, <2>7, <2>8, NodeAssumption DEF Frames
<1>5. CASE status = "shutdown" /\ ForgetFrames
  <2> DEFINE l == raft.log
             g(e) == IF e.cmd = "frames" /\ e.c = c THEN [e EXCEPT !.c = NoConn] ELSE e
             t == [i \in DOMAIN l |-> g(l[i])]
  <2>1. raft' = [raft EXCEPT !.log = t]
    BY <1>5 DEF ForgetFrames
  <2>2. t = [i \in DOMAIN l |-> t[i]]
    OBVIOUS
  <2>3. \A i \in DOMAIN l : t[i] = g(l[i])
    OBVIOUS
  <2>4. \A e \in Entries : /\ g(e).c = e.c \/ g(e).c = NoConn
                           /\ g(e).c # NoConn => g(e) = e
                           /\ g(e).c = c => e.cmd # "frames"
    BY <1>1 DEF RaftShape, EntryShape, Entries
  <2>4a. \A e \in Entries : EntryShape(g(e))
    BY <1>1 DEF RaftShape, EntryShape, Entries
  <2>5. \A e \in Entries : e.c \in Conn \ {c} => g(e) = e
    OBVIOUS
  <2> HIDE DEF t, g
  <2>6. IsSeq(l) /\ IsSeq(t) /\ DOMAIN t = DOMAIN l
    BY <1>1, <2>2, MapSeq DEF RaftShape
  <2>7. /\ raft'.state = raft.state /\ raft'.transfer = raft.transfer /\ raft'.change = raft.change
        /\ DOMAIN raft' = DOMAIN raft /\ raft'.log = t
    BY <1>1, <2>1 DEF RaftShape
  <2>8. \A i \in DOMAIN l : l[i] \in Entries
    BY DEF Entries, Elems
  <2>9. Entries' = {g(e) : e \in Entries}
    BY <2>3, <2>6, <2>7 DEF Entries, Elems
  <2>10. RaftShape(raft')
    <3>1. \A e \in Elems(t) : EntryShape(e)
      BY <2>4a, <2>7, <2>9 DEF Entries
    <3> QED BY <1>1, <2>6, <2>7, <3>1 DEF RaftShape
  <2>11. OneEntry'
    BY <1>1, <2>3, <2>4, <2>6, <2>7, <2>8 DEF OneEntry
  <2>12. \A e : e.c \in Conn \ {c} => (e \in Entries' <=> e \in Entries)
    BY <2>4, <2>5, <2>9, NodeAssumption
  <2>13. \A e \in Entries' : e.c = c => e \in Entries /\ e.cmd # "frames"
    BY <1>1, <2>4, <2>9
  <2> QED BY <2>7, <2>10, <2>11, <2>12, <2>13
<1>6. status \in {"lost", "ioerr"} => status # "shutdown"
  OBVIOUS
<1> QED BY <1>3, <1>4, <1>5, <1>6 DEF leaderMaybeCheckpointLegacy

LEMMA leaderApplyFramesCbInv ==
  ASSUME NodeInv, leaderApplyFramesCb
  PROVE  NodeInv'
<1>1. /\ call # << >> /\ Head(call).fn = "leaderApplyFramesCb" /\ Head(call).fn \in Fires
      /\ Unconcerned /\ acked' = acked
      /\ \/ status = "ok" /\ leaderMaybeCheckpointLegacy(self)
         \/ status \in {"lost", "ioerr"} /\ raft' = raft
         \/ status = "shutdown" /\ ForgetFrames
  BY Names DEF leaderApplyFramesCb, Enter, Unconcerned, ghosts
<1>2. PICK c \in Conn : c = self
  BY <1>1, FiredFacts
<1>3. /\ ConnShape(conn[c]) /\ DOMAIN conn = Conn
      /\ ConnSound(c) /\ ValsSound(c) /\ Sound(Head(call))
      /\ \A e \in Entries : EntrySound(e)
      /\ acked \subseteq applied
      /\ Ends(Head(call)) <=> status \in Failures
      /\ ~Ends(Head(call)) => conn[c].io = "handling" /\ conn[c].req # "none" /\ conn[c].d # NoDb
      /\ Calls = {Head(call)} \cup Later /\ Head(call).c = c
  BY <1>1, <1>2, FiredFacts DEF self
<1>4. /\ RaftShape(raft') /\ OneEntry'
      /\ raft'.state = raft.state /\ raft'.transfer = raft.transfer /\ raft'.change = raft.change
      /\ \A e : e.c \in Conn \ {c} => (e \in Entries' <=> e \in Entries)
      /\ \A e \in Entries' : e.c = c => e \in Entries /\ e.cmd # "frames"
  BY <1>1, <1>2, FramesLog
<1> DEFINE st == CASE status = "ok" -> "done"
                   [] status = "shutdown" -> "abort"
                   [] OTHER -> status
<1>5a. PICK f : f = Fn(conn[c].exec, c, st)
  OBVIOUS
<1>5. /\ f.fn = conn[c].exec /\ f.c = c /\ f.st = st
      /\ f.fn \in ExecCbs /\ f.fn \in Resumed /\ f.fn \in Runs /\ f.fn \notin Closes /\ f.fn \notin Fires
  BY <1>3, <1>5a, FnFields, Names DEF ConnShape
<1>6. /\ conn'[c] = [conn[c] EXCEPT !.inflight = FALSE, !.exec = "none"]
      /\ DOMAIN conn' = Conn /\ \A x \in Conn \ {c} : conn'[x] = conn[x]
  BY <1>2, <1>3 DEF leaderApplyFramesCb, leaderExecDone, ConnShape, ConnFields
<1>7. /\ DOMAIN conn'[c] = ConnFields /\ conn'[c].gbar = conn[c].gbar /\ conn'[c].ebar = conn[c].ebar
      /\ conn'[c].exec = "none" /\ conn'[c].inflight = FALSE
      /\ conn'[c].io = conn[c].io /\ conn'[c].req = conn[c].req /\ conn'[c].d = conn[c].d
      /\ conn'[c].vals = conn[c].vals
  BY <1>3, <1>6 DEF ConnShape, ConnFields
<1>8. Leave(<< f >>)
  BY <1>2, <1>5a DEF leaderApplyFramesCb, leaderExecDone
<1>9. status \in Failures <=> st \in Failures
  BY <1>1 DEF Failures
<1> HIDE DEF st
<1>10. IsSeq(<< f >>) /\ InOrder(<< f >>) /\ Len(<< f >>) = 1 /\ Elems(<< f >>) = {f}
  BY OneSeq, ShortOrder
<1>11. StepOf(c, << f >>)
  BY <1>1, <1>3, <1>4, <1>6, <1>8 DEF StepOf, Unconcerned
<1>12. Ends(Head(call)) <=> Ends(f)
  <2>1. f.fn \notin ClusterCbs
    BY <1>5 DEF ExecCbs, ClusterCbs
  <2>2. Ends(f) <=> st \in Failures
    BY <1>5, <2>1 DEF Ends
  <2> QED BY <2>2, <1>3, <1>9
<1>13. /\ conn[c].gbar = "none" /\ conn[c].ebar = "none"
       /\ raft.transfer # c /\ raft.change # c
  BY <1>1, <1>3 DEF Sound
<1>14. Free(c)'
  BY <1>4, <1>7, <1>13 DEF Free
<1>15. Shrinks(c)
  BY <1>1, <1>4, <1>7, <1>13, <1>14 DEF Shrinks
<1>16. ConnShape(conn'[c])
  BY <1>3, <1>7 DEF ConnShape, ExecCbs
<1>17. ASSUME Calls' = Elems(<< f >>) \cup Later
       PROVE  /\ \A g \in Elems(<< f >>) : Sound(g)'
              /\ ConnSound(c)' /\ ValsSound(c)'
              /\ \A e \in Entries' : e.c = c => EntrySound(e)'
  <2>1. ClosesRaft => ClosesRaft'
    BY <1>1, <1>3, <1>17 DEF ClosesRaft
  <2>2. WaitsFired(c)'
    BY <1>7, <1>13 DEF WaitsFired
  <2>3. Sound(f)'
    <3>1. f.fn \notin {"leaderApplyFramesCb", "raftBarrierCb", "raftBarrierCbExec"}
          /\ f.fn \notin LeaderCloses /\ f.fn \notin {"conn__stop", "gateway__leader_close", "convertSetState", "raft_close"}
      BY <1>5, Names
    <3>2. ~Ends(f) => conn'[c].io = "handling" /\ conn'[c].req # "none" /\ conn'[c].d # NoDb
      BY <1>3, <1>7, <1>12
    <3> QED BY <1>5, <1>14, <3>1, <3>2 DEF Sound
  <2>4. ConnSound(c)'
    BY <1>4, <1>7, <1>13, <1>14, <2>2 DEF ConnSound
  <2>5. ValsSound(c)'
    <3>1. Doomed(c) => Doomed(c)'
      <4>1. ASSUME NEW g \in Calls, g.c = c, IsDoom(g) PROVE Doomed(c)'
        <5>1. CASE g \in Later
          BY <1>17, <4>1, <5>1 DEF Doomed, IsDoom
        <5>2. CASE g = Head(call)
          <6>1. f \in Calls' /\ f.st \in Failures
            BY <1>3, <1>5, <1>9, <1>10, <1>12, <1>17, <4>1, <5>2, DoomEnds
          <6> QED BY <1>5, <6>1 DEF Doomed
        <5> QED BY <1>3, <5>1, <5>2
      <4> QED BY <4>1 DEF Doomed, IsDoom
    <3>2. ASSUME NEW e \in Entries, Frames(e, c) PROVE Doomed(c)'
      <4>1. status = "shutdown"
        BY <1>1, <1>3, <3>2 DEF Sound, status
      <4>2. st \in Failures
        BY <1>9, <4>1 DEF Failures
      <4> QED BY <1>5, <1>10, <1>17, <4>2 DEF Doomed
    <3> QED BY <1>1, <1>3, <1>7, <3>1, <3>2 DEF ValsSound, Unconcerned
  <2>6. ASSUME NEW e \in Entries', e.c = c PROVE EntrySound(e)'
    <3>1. e \in Entries /\ EntrySound(e) /\ c # NoConn /\ e.cmd # "frames"
      BY <1>3, <1>4, <2>6, NodeAssumption
    <3> QED BY <1>4, <1>7, <1>13, <2>1, <2>6, <3>1 DEF EntrySound
  <2> QED BY <1>10, <2>3, <2>4, <2>5, <2>6
<1>18. \A g \in Elems(<< f >>) : g.fn \notin Closes
  BY <1>5, <1>10
<1>19. Ends(Head(call)) => \A g \in Elems(<< f >>) : Ends(g)
  BY <1>10, <1>12
<1>20. acked' \subseteq applied
  BY <1>1, <1>3
<1> DEFINE fns == << f >>
<1>21. IsSeq(fns) /\ InOrder(fns) /\ Len(fns) <= 1 /\ StepOf(c, fns)
  BY <1>10, <1>11
<1>22. /\ \A g \in Elems(fns) : g.fn \notin Closes
       /\ Ends(Head(call)) => \A g \in Elems(fns) : Ends(g)
  BY <1>18, <1>19
<1>23. Calls' = Elems(fns) \cup Later =>
              /\ \A g \in Elems(fns) : Sound(g)'
              /\ ConnSound(c)' /\ ValsSound(c)'
              /\ \A e \in Entries' : e.c = c => EntrySound(e)'
  BY <1>17
<1> HIDE DEF fns
<1> QED BY <1>4, <1>15, <1>16, <1>20, <1>21, <1>22, <1>23, StepInv

---------------------------------------------------------------------------
(* Closing *)

\* A function that closes something of connection c.
LEMMA CloseFacts ==
  ASSUME NodeInv, call # << >>, Head(call).fn \in Closes,
         Head(call).fn \notin {"convertSetState", "raft_close"}
  PROVE  /\ self \in Conn /\ ConnShape(conn[self]) /\ DOMAIN conn = Conn
         /\ ConnSound(self) /\ ValsSound(self) /\ Sound(Head(call)) /\ RaftShape(raft)
         /\ \A e \in Entries : EntrySound(e)
         /\ OneEntry /\ acked \subseteq applied
         /\ Head(call).fn \notin Runs /\ Head(call).fn \notin Fires /\ Ends(Head(call))
         /\ Calls = {Head(call)} \cup Later
         /\ \A f \in Later : f.fn \in Closes \cup ClusterCbs
<1>1. /\ Sound(Head(call)) /\ Calls = {Head(call)} \cup Later
      /\ \A f \in Later : f.fn \in Closes \cup ClusterCbs
  BY CallParts
<1>2. Head(call).fn \notin Runs /\ Head(call).fn \notin Fires /\ Ends(Head(call))
  BY Names DEF Ends
<1>3. self \in Conn
  BY <1>1 DEF Sound, self
<1> QED BY <1>1, <1>2, <1>3 DEF NodeInv, Shape

LEMMA CloseStep ==
  ASSUME NodeInv, call # << >>, Head(call).fn \in Closes,
         Head(call).fn \notin {"convertSetState", "raft_close"},
         NEW c \in Conn, c = self, NEW fns, NEW r,
         Leave(fns), raft' = raft, Unconcerned, acked' = acked,
         conn' = [conn EXCEPT ![c] = r] \/ (conn' = conn /\ r = conn[c]),
         IsSeq(fns), InOrder(fns), \A f \in Elems(fns) : Ends(f) /\ f.fn # "raft_close",
         SameWaits(r, conn[c]), r.exec = conn[c].exec, r.vals \subseteq conn[c].vals,
         r.io \in {conn[c].io, "closing"},
         r.gbar # "none" \/ r.ebar # "none" \/ r.inflight => r.req # "none" /\ r.d # NoDb,
         r.io = "closing" /\ (raft.transfer = c \/ raft.change = c) => ClosesRaft,
         Calls' = Elems(fns) \cup Later =>
           /\ \A f \in Elems(fns) : Sound(f)'
           /\ r.io = "closing" => InCall("gateway__leader_close", c)' \/ WaitsFired(c)'
  PROVE  NodeInv'
<1>1. /\ ConnShape(conn[c]) /\ DOMAIN conn = Conn
      /\ ConnSound(c) /\ ValsSound(c) /\ RaftShape(raft)
      /\ \A e \in Entries : EntrySound(e)
      /\ OneEntry /\ acked \subseteq applied /\ Head(call).c = c
      /\ Head(call).fn \notin Runs /\ Head(call).fn \notin Fires /\ Ends(Head(call))
      /\ Calls = {Head(call)} \cup Later
  BY CloseFacts DEF self
<1>2. conn'[c] = r /\ DOMAIN conn' = Conn /\ \A x \in Conn \ {c} : conn'[x] = conn[x]
  BY <1>1
<1>3. DOMAIN r = ConnFields /\ r.gbar = conn[c].gbar /\ r.ebar = conn[c].ebar /\ r.inflight = conn[c].inflight
  BY DEF SameWaits
<1>4. StepOf(c, fns)
  BY <1>1, <1>2 DEF StepOf, Unconcerned, Entries
<1>5. Shrinks(c)
  BY <1>1, <1>2, <1>3, Names DEF Shrinks, Free, Entries
<1>6. ConnShape(r)
  BY <1>1, <1>3 DEF ConnShape
<1>7. ASSUME Calls' = Elems(fns) \cup Later
      PROVE  ConnSound(c)' /\ ValsSound(c)' /\ \A e \in Entries' : e.c = c => EntrySound(e)'
  <2>1. /\ ClosesRaft => ClosesRaft'
        /\ \A fn : fn # Head(call).fn /\ InCall(fn, c) => InCall(fn, c)'
    BY <1>1, <1>7 DEF ClosesRaft, InCall
  <2>2. Free(c) <=> Free(c)'
    BY <1>2, <1>3 DEF Free
  <2>3. ConnSound(c)'
    <3>1. Head(call).fn # "execBarrierCb" /\ Head(call).fn # "leaderExecV2"
      BY <1>1, Names
    <3> QED BY <1>1, <1>2, <1>3, <1>7, <2>1, <2>2, <3>1 DEF ConnSound
  <2>4. ValsSound(c)'
    <3>1. Doomed(c) => Doomed(c)'
      <4>1. Head(call).fn \notin ExecCbs \cup {"execBarrierCb", "leaderApplyFramesCb"}
        BY <1>1, Names
      <4> QED BY <1>1, <1>7, <4>1 DEF Doomed
    <3> QED BY <1>1, <1>2, <3>1 DEF ValsSound, Entries, Unconcerned
  <2>5. ASSUME NEW e \in Entries', e.c = c PROVE EntrySound(e)'
    <3>1. e \in Entries /\ EntrySound(e) /\ c # NoConn
      BY <1>1, NodeAssumption DEF Entries
    <3> QED BY <1>2, <1>3, <2>1, <2>5, <3>1 DEF EntrySound
  <2> QED BY <2>3, <2>4, <2>5
<1>8. OneEntry' /\ acked' \subseteq applied
  BY <1>1 DEF OneEntry
<1>9. Calls' = Elems(fns) \cup Later =>
           /\ \A f \in Elems(fns) : Sound(f)'
           /\ ConnSound(c)' /\ ValsSound(c)'
           /\ \A e \in Entries' : e.c = c => EntrySound(e)'
  BY <1>7
<1> QED BY <1>1, <1>2, <1>4, <1>5, <1>6, <1>8, <1>9, StepInv

\* When the leader of a connection closes, the connection waits for nothing that has
\* its callback to come.
LEMMA LeaderCloseFacts ==
  ASSUME NodeInv, call # << >>, Head(call).fn \in LeaderCloses
  PROVE  /\ Head(call).fn \in Closes /\ Head(call).fn \notin {"convertSetState", "raft_close"}
         /\ self \in Conn /\ ConnShape(conn[self]) /\ DOMAIN conn = Conn
         /\ conn[self].gbar = "none" /\ conn[self].ebar = "none" /\ conn[self].inflight = FALSE
         /\ conn[self].exec = "none"
         /\ conn[self].io = "closing" /\ (raft.transfer = self \/ raft.change = self) => ClosesRaft
<1>1. Head(call).fn \in Closes /\ Head(call).fn \notin {"convertSetState", "raft_close"}
  BY DEF LeaderCloses, Closes
<1>2. /\ self \in Conn /\ ConnShape(conn[self]) /\ DOMAIN conn = Conn
      /\ ConnSound(self) /\ Sound(Head(call))
      /\ Head(call).fn \notin Runs /\ Head(call).fn \notin Fires
      /\ Calls = {Head(call)} \cup Later
      /\ \A f \in Later : f.fn \in Closes \cup ClusterCbs
  BY <1>1, CloseFacts
<1>3. WaitsFired(self)
  BY <1>2 DEF Sound, self
<1>4. \A f \in Calls : f.fn \notin Fires \cup {"execBarrierCb", "leaderExecV2"}
  BY <1>2, Names DEF ClusterCbs, Closes, LeaderCloses, Fires
<1>5. \A fn \in Fires \cup {"execBarrierCb", "leaderExecV2"} : ~InCall(fn, self)
  BY <1>4 DEF InCall
<1>6. conn[self].gbar = "none" /\ conn[self].ebar = "none" /\ ~conn[self].inflight
  BY <1>3, <1>5 DEF WaitsFired, Fires
<1>7. conn[self].exec = "none" /\ (conn[self].io = "closing" /\ (raft.transfer = self \/ raft.change = self) => ClosesRaft)
  BY <1>2, <1>5, <1>6 DEF ConnSound
<1>8. conn[self].inflight = FALSE
  BY <1>2, <1>6 DEF ConnShape
<1> QED BY <1>1, <1>2, <1>6, <1>7, <1>8

LEMMA LeaderCloseStep ==
  ASSUME NodeInv, call # << >>, Head(call).fn \in LeaderCloses, NEW fns, NEW r,
         Leave(fns), raft' = raft, Unconcerned, acked' = acked,
         conn' = [conn EXCEPT ![self] = r] \/ (conn' = conn /\ r = conn[self]),
         fns = << >> \/ \E f : fns = << f >> /\ f.fn \in LeaderCloses /\ f.c = self,
         SameWaits(r, conn[self]), r.exec = conn[self].exec, r.vals = conn[self].vals,
         r.io = conn[self].io
  PROVE  NodeInv'
<1>1. /\ Head(call).fn \in Closes /\ Head(call).fn \notin {"convertSetState", "raft_close"}
      /\ self \in Conn /\ ConnShape(conn[self]) /\ DOMAIN conn = Conn
      /\ conn[self].gbar = "none" /\ conn[self].ebar = "none" /\ conn[self].inflight = FALSE
      /\ conn[self].io = "closing" /\ (raft.transfer = self \/ raft.change = self) => ClosesRaft
  BY LeaderCloseFacts
<1>2. PICK c \in Conn : c = self
  BY <1>1
<1>3. /\ \A f \in Elems(fns) : /\ f.fn \in LeaderCloses /\ f.c = c
                               /\ f.fn \in Closes /\ f.fn # "raft_close" /\ Ends(f)
      /\ IsSeq(fns) /\ InOrder(fns)
  <2>1. CASE fns = << >>
    BY <2>1, NoneSeq, ShortOrder
  <2>2. ASSUME NEW f, fns = << f >>, f.fn \in LeaderCloses, f.c = self PROVE <1>3!:
    BY <1>2, <2>2, OneSeq, ShortOrder DEF Ends, Closes, LeaderCloses
  <2> QED BY <2>1, <2>2
<1>4. r.gbar = "none" /\ r.ebar = "none" /\ r.inflight = FALSE
  BY <1>1 DEF SameWaits
<1>5. WaitsFired(c)'
  BY <1>1, <1>2, <1>4 DEF WaitsFired
<1>6. ASSUME NEW f \in Elems(fns) PROVE Sound(f)'
  <2>1. f.fn \in LeaderCloses /\ f.c = c /\ f.fn \in Closes
    BY <1>3
  <2>2. f.fn \notin {"convertSetState", "raft_close", "conn__stop", "gateway__leader_close"} /\ f.fn \notin Runs
        /\ f.fn \notin Fires /\ f.fn \notin Resumed /\ f.fn \notin {"leaderApplyFramesCb", "raftBarrierCb", "raftBarrierCbExec"}
    BY <2>1, Names
  <2> QED BY <1>5, <2>1, <2>2 DEF Sound
<1>7. Calls' = Elems(fns) \cup Later =>
           /\ \A f \in Elems(fns) : Sound(f)'
           /\ r.io = "closing" => InCall("gateway__leader_close", c)' \/ WaitsFired(c)'
  BY <1>5, <1>6
<1>8. conn' = [conn EXCEPT ![c] = r] \/ (conn' = conn /\ r = conn[c])
  BY <1>2
<1>9. /\ SameWaits(r, conn[c]) /\ r.exec = conn[c].exec /\ r.vals \subseteq conn[c].vals
      /\ r.io \in {conn[c].io, "closing"}
      /\ r.io = "closing" /\ (raft.transfer = c \/ raft.change = c) => ClosesRaft
  BY <1>1, <1>2
<1>10. \A f \in Elems(fns) : Ends(f) /\ f.fn # "raft_close"
  BY <1>3
<1> QED BY <1>1, <1>2, <1>3, <1>4, <1>7, <1>8, <1>9, <1>10, CloseStep

LEMMA LeaderClosesInv ==
  ASSUME NodeInv, stmt__registry_close \/ leader__close \/ sqlite3_close
  PROVE  NodeInv'
<1>1. CASE stmt__registry_close
  <2> DEFINE r == [conn[self] EXCEPT !.stmt = "none", !.q = Finalized(self).s]
             f == Fn("leader__close", self, "ok")
  <2>1. /\ call # << >> /\ Head(call).fn \in LeaderCloses
        /\ raft' = raft /\ Unconcerned /\ acked' = acked /\ Leave(<< f >>)
    BY <1>1 DEF stmt__registry_close, Enter, Unconcerned, ghosts, LeaderCloses
  <2>2. self \in Conn /\ DOMAIN conn = Conn /\ DOMAIN conn[self] = ConnFields
    BY <2>1, LeaderCloseFacts DEF ConnShape
  <2>3. conn' = [conn EXCEPT ![self] = r]
    BY <1>1, <2>2 DEF stmt__registry_close
  <2>4. SameWaits(r, conn[self]) /\ r.exec = conn[self].exec /\ r.vals = conn[self].vals /\ r.io = conn[self].io
    BY <2>2 DEF SameWaits, ConnFields
  <2>5. f.fn \in LeaderCloses /\ f.c = self
    BY FnFields DEF LeaderCloses
  <2> HIDE DEF r, f
  <2>6. \E g : << f >> = << g >> /\ g.fn \in LeaderCloses /\ g.c = self
    BY <2>5
  <2> QED BY <2>1, <2>3, <2>4, <2>6, LeaderCloseStep
<1>2. CASE leader__close
  <2> DEFINE f == Fn("sqlite3_close", self, "ok")
  <2>1. /\ call # << >> /\ Head(call).fn \in LeaderCloses
        /\ raft' = raft /\ Unconcerned /\ acked' = acked
    BY <1>2 DEF leader__close, Enter, Unconcerned, ghosts, LeaderCloses
  <2>2. conn[self].exec = "none" /\ DOMAIN conn[self] = ConnFields
    BY <2>1, LeaderCloseFacts DEF ConnShape
  <2>3. Leave(<< f >>) /\ conn' = conn
    BY <1>2, <2>2 DEF leader__close
  <2>4. f.fn \in LeaderCloses /\ f.c = self
    BY FnFields DEF LeaderCloses
  <2> HIDE DEF f
  <2>5. \E g : << f >> = << g >> /\ g.fn \in LeaderCloses /\ g.c = self
    BY <2>4
  <2>6. SameWaits(conn[self], conn[self])
    BY <2>2 DEF SameWaits
  <2> QED BY <2>1, <2>3, <2>5, <2>6, LeaderCloseStep
<1>3. CASE sqlite3_close
  <2> DEFINE r == [conn[self] EXCEPT !.d = NoDb, !.q = Idle]
  <2>1. /\ call # << >> /\ Head(call).fn \in LeaderCloses
        /\ raft' = raft /\ Unconcerned /\ acked' = acked /\ Leave(<< >>)
    BY <1>3 DEF sqlite3_close, Enter, Unconcerned, ghosts, LeaderCloses
  <2>2. self \in Conn /\ DOMAIN conn = Conn /\ DOMAIN conn[self] = ConnFields
    BY <2>1, LeaderCloseFacts DEF ConnShape
  <2>3. conn' = [conn EXCEPT ![self] = r]
    BY <1>3, <2>2 DEF sqlite3_close
  <2>4. SameWaits(r, conn[self]) /\ r.exec = conn[self].exec /\ r.vals = conn[self].vals /\ r.io = conn[self].io
    BY <2>2 DEF SameWaits, ConnFields
  <2> HIDE DEF r
  <2> QED BY <2>1, <2>3, <2>4, LeaderCloseStep
<1> QED BY <1>1, <1>2, <1>3

LEMMA conn__stopInv ==
  ASSUME NodeInv, conn__stop
  PROVE  NodeInv'
<1>1. /\ call # << >> /\ Head(call).fn = "conn__stop" /\ Head(call).fn \in Closes
      /\ Head(call).fn \notin {"convertSetState", "raft_close"}
      /\ raft' = raft /\ Unconcerned /\ acked' = acked
  BY Names DEF conn__stop, Enter, Unconcerned, ghosts
<1>2. PICK c \in Conn : c = self
  BY <1>1, CloseFacts
<1>3. /\ ConnShape(conn[c]) /\ DOMAIN conn = Conn /\ DOMAIN conn[c] = ConnFields
      /\ ConnSound(c) /\ Sound(Head(call)) /\ Head(call).c = c
      /\ Calls = {Head(call)} \cup Later
  BY <1>1, <1>2, CloseFacts DEF ConnShape, self
<1>4. CASE Leave(<< >>) /\ conn' = conn
  <2>1. SameWaits(conn[c], conn[c])
    BY <1>3 DEF SameWaits
  <2>2. ASSUME Calls' = Elems(<< >>) \cup Later, conn[c].io = "closing"
        PROVE  InCall("gateway__leader_close", c)' \/ WaitsFired(c)'
    <3>1. \A fn : fn # "conn__stop" /\ InCall(fn, c) => InCall(fn, c)'
      BY <1>1, <1>3, <2>2 DEF InCall
    <3>2. WaitsFired(c) => WaitsFired(c)'
      BY <1>4, <3>1 DEF WaitsFired
    <3> QED BY <1>3, <2>2, <3>1, <3>2 DEF ConnSound
  <2>3. conn[c].io = "closing" /\ (raft.transfer = c \/ raft.change = c) => ClosesRaft
    BY <1>3 DEF ConnSound
  <2>4. conn[c].gbar # "none" \/ conn[c].ebar # "none" \/ conn[c].inflight => conn[c].req # "none" /\ conn[c].d # NoDb
    BY <1>3 DEF ConnSound
  <2>5. IsSeq(<< >>) /\ InOrder(<< >>) /\ Elems(<< >>) = {}
    BY NoneSeq, ShortOrder
  <2>6. Calls' = Elems(<< >>) \cup Later =>
           /\ \A f \in Elems(<< >>) : Sound(f)'
           /\ conn[c].io = "closing" => InCall("gateway__leader_close", c)' \/ WaitsFired(c)'
    BY <2>2, <2>5
  <2>7. \A f \in Elems(<< >>) : Ends(f) /\ f.fn # "raft_close"
    BY <2>5
  <2> QED BY <1>1, <1>2, <1>4, <2>1, <2>3, <2>4, <2>5, <2>6, <2>7, CloseStep
<1>5. CASE /\ conn' = [conn EXCEPT ![self].io = "closing"]
           /\ Leave(<< Fn("gateway__leader_close", self, "shutdown") >>)
  <2> DEFINE r == [conn[c] EXCEPT !.io = "closing"]
  <2>1. PICK f : f = Fn("gateway__leader_close", c, "shutdown")
    OBVIOUS
  <2>2. f.fn = "gateway__leader_close" /\ f.c = c /\ f.st = "shutdown" /\ f.fn \in Closes /\ Ends(f)
    BY <2>1, FnFields, Names DEF Ends
  <2>3. conn' = [conn EXCEPT ![c] = r] /\ Leave(<< f >>)
    BY <1>2, <1>3, <1>5, <2>1
  <2>4. /\ SameWaits(r, conn[c]) /\ r.exec = conn[c].exec /\ r.vals = conn[c].vals /\ r.io = "closing"
        /\ r.gbar = conn[c].gbar /\ r.ebar = conn[c].ebar /\ r.inflight = conn[c].inflight
        /\ r.req = conn[c].req /\ r.d = conn[c].d
    BY <1>3 DEF SameWaits, ConnFields
  <2> HIDE DEF r
  <2>5. ClosesRaft \/ Free(c)
    BY <1>1, <1>3 DEF Sound
  <2>6. Elems(<< f >>) = {f} /\ IsSeq(<< f >>) /\ InOrder(<< f >>)
    BY OneSeq, ShortOrder
  <2> DEFINE fns == << f >>
  <2>7. /\ \A g \in Elems(fns) : Ends(g) /\ g.fn # "raft_close"
        /\ IsSeq(fns) /\ InOrder(fns) /\ Leave(fns)
    BY <2>2, <2>3, <2>6
  <2>8. ASSUME Calls' = Elems(fns) \cup Later
        PROVE  /\ \A g \in Elems(fns) : Sound(g)'
               /\ r.io = "closing" => InCall("gateway__leader_close", c)' \/ WaitsFired(c)'
    <3>1. ClosesRaft => ClosesRaft'
      BY <1>1, <1>3, <2>8 DEF ClosesRaft
    <3>2. Free(c) => Free(c)'
      BY <1>1, <1>3, <2>3, <2>4 DEF Free
    <3>3. f.fn \notin LeaderCloses /\ f.fn \notin Fires /\ f.fn \notin Runs /\ f.fn \notin Resumed
      BY <2>2, Names
    <3>4. Sound(f)'
      BY <2>2, <2>5, <3>1, <3>2, <3>3 DEF Sound
    <3>5. InCall("gateway__leader_close", c)'
      BY <2>2, <2>6, <2>8 DEF InCall
    <3> QED BY <2>6, <3>4, <3>5
  <2>9. r.gbar # "none" \/ r.ebar # "none" \/ r.inflight => r.req # "none" /\ r.d # NoDb
    BY <1>3, <2>4 DEF ConnSound
  <2>10. raft.transfer = c \/ raft.change = c => ClosesRaft
    BY <2>5 DEF Free
  <2>11. Calls' = Elems(fns) \cup Later =>
           /\ \A g \in Elems(fns) : Sound(g)'
           /\ r.io = "closing" => InCall("gateway__leader_close", c)' \/ WaitsFired(c)'
    BY <2>8
  <2> HIDE DEF fns
  <2> QED BY <1>1, <1>2, <2>3, <2>4, <2>7, <2>9, <2>10, <2>11, CloseStep
<1> QED BY <1>4, <1>5 DEF conn__stop

\* What the end of a leader fires.
LEMMA FireFacts ==
  ASSUME NodeInv, call # << >>, Head(call).fn = "gateway__leader_close", NEW c \in Conn, c = self,
         NEW p, p = Pending(conn[c])
  PROVE  /\ ~conn[c].inflight /\ conn[c].gbar = "none" /\ conn[c].ebar = "none" => Fire(p) = << >>
         /\ conn[c].inflight => p = "apply" /\ Fire(p) = << Fn("leaderApplyFramesCb", c, status) >>
         /\ conn[c].gbar # "none" => p = "gbar" /\ Fire(p) = << Fn("raftBarrierCb", c, status) >>
         /\ conn[c].ebar # "none" => p = "ebar" /\ Fire(p) = << Fn("raftBarrierCbExec", c, status) >>
<1>1. ConnSound(c) /\ ConnShape(conn[c])
  BY CloseFacts, Names
<1>2. CASE conn[c].inflight
  <2>1. conn[c].gbar = "none" /\ conn[c].ebar = "none" /\ conn[c].req # "none"
    BY <1>1, <1>2 DEF ConnSound
  <2>2. p = "apply"
    BY <1>2, <2>1 DEF Pending
  <2> QED BY <1>2, <2>1, <2>2 DEF Fire
<1>3. CASE conn[c].gbar # "none"
  <2>1. ~conn[c].inflight /\ conn[c].ebar = "none" /\ conn[c].req # "none"
    BY <1>1, <1>3 DEF ConnSound
  <2>2. p = "gbar"
    BY <1>3, <2>1 DEF Pending
  <2> QED BY <1>3, <2>1, <2>2 DEF Fire
<1>4. CASE conn[c].ebar # "none"
  <2>1. ~conn[c].inflight /\ conn[c].gbar = "none" /\ conn[c].req # "none"
    BY <1>1, <1>4 DEF ConnSound
  <2>2. p = "ebar"
    BY <1>4, <2>1 DEF Pending
  <2> QED BY <1>4, <2>1, <2>2 DEF Fire
<1>5. CASE ~conn[c].inflight /\ conn[c].gbar = "none" /\ conn[c].ebar = "none"
  <2>1. p \in {"none", "rows"}
    BY <1>5 DEF Pending
  <2> QED BY <1>5, <2>1 DEF Fire
<1> QED BY <1>2, <1>3, <1>4, <1>5

LEMMA gateway__leader_closeInv ==
  ASSUME NodeInv, gateway__leader_close
  PROVE  NodeInv'
<1>1. /\ call # << >> /\ Head(call).fn = "gateway__leader_close" /\ Head(call).fn \in Closes
      /\ Head(call).fn \notin {"convertSetState", "raft_close"}
      /\ raft' = raft /\ Unconcerned /\ acked' = acked
  BY Names DEF gateway__leader_close, Enter, Unconcerned, ghosts
<1>2. PICK c \in Conn : c = self
  BY <1>1, CloseFacts
<1>3. /\ ConnShape(conn[c]) /\ DOMAIN conn = Conn /\ DOMAIN conn[c] = ConnFields
      /\ ConnSound(c) /\ Sound(Head(call)) /\ Head(call).c = c /\ c # NoConn
      /\ Calls = {Head(call)} \cup Later
  BY <1>1, <1>2, CloseFacts, NodeAssumption DEF ConnShape, self
<1>4. PICK st : st = status
  OBVIOUS
<1>5. /\ st \in {"shutdown", "lost"} /\ st \in Failures
      /\ st = "shutdown" => ClosesRaft \/ Free(c)
      /\ st = "lost" => NoRequests
  BY <1>1, <1>3, <1>4 DEF Sound, status, Failures
<1>6. PICK p : p = Pending(conn[c])
  OBVIOUS
<1>7. PICK fire : fire = Fire(p)
  OBVIOUS
<1>8. /\ ~conn[c].inflight /\ conn[c].gbar = "none" /\ conn[c].ebar = "none" => fire = << >>
      /\ conn[c].inflight => p = "apply" /\ fire = << Fn("leaderApplyFramesCb", c, st) >>
      /\ conn[c].gbar # "none" => p = "gbar" /\ fire = << Fn("raftBarrierCb", c, st) >>
      /\ conn[c].ebar # "none" => p = "ebar" /\ fire = << Fn("raftBarrierCbExec", c, st) >>
  BY <1>1, <1>2, <1>4, <1>6, <1>7, FireFacts
<1>9. /\ IsSeq(fire) /\ InOrder(fire)
      /\ \A f \in Elems(fire) :
           /\ f.c = c /\ f.st = st /\ f.fn \in Fires
           /\ f.fn = "leaderApplyFramesCb" => conn[c].inflight
           /\ f.fn = "raftBarrierCb" => conn[c].gbar # "none"
           /\ f.fn = "raftBarrierCbExec" => conn[c].ebar # "none"
      /\ conn[c].inflight => \E f \in Elems(fire) : f.fn = "leaderApplyFramesCb" /\ f.c = c
      /\ conn[c].gbar # "none" => \E f \in Elems(fire) : f.fn = "raftBarrierCb" /\ f.c = c
      /\ conn[c].ebar # "none" => \E f \in Elems(fire) : f.fn = "raftBarrierCbExec" /\ f.c = c
  <2>1. CASE ~conn[c].inflight /\ conn[c].gbar = "none" /\ conn[c].ebar = "none"
    BY <1>8, <2>1, NoneSeq, ShortOrder
  <2>2. ASSUME NEW fn \in Fires, fire = << Fn(fn, c, st) >>,
               fn = "leaderApplyFramesCb" <=> conn[c].inflight,
               fn = "raftBarrierCb" <=> conn[c].gbar # "none",
               fn = "raftBarrierCbExec" <=> conn[c].ebar # "none"
        PROVE  <1>9!:
    <3> DEFINE f == Fn(fn, c, st)
    <3>1. f.fn = fn /\ f.c = c /\ f.st = st
      BY FnFields
    <3> HIDE DEF f
    <3>2. fire = << f >>
      BY <2>2 DEF f
    <3>3. Elems(fire) = {f} /\ IsSeq(fire) /\ InOrder(fire)
      BY <3>2, OneSeq, ShortOrder
    <3> QED BY <2>2, <3>1, <3>3
  <2>3. CASE conn[c].inflight
    <3>1. conn[c].gbar = "none" /\ conn[c].ebar = "none"
      BY <1>3, <2>3 DEF ConnSound
    <3>2. "leaderApplyFramesCb" \in Fires
      BY Names
    <3> QED BY <1>8, <2>2, <2>3, <3>1, <3>2
  <2>4. CASE conn[c].gbar # "none"
    <3>1. ~conn[c].inflight /\ conn[c].ebar = "none"
      BY <1>3, <2>4 DEF ConnSound
    <3>2. "raftBarrierCb" \in Fires
      BY Names
    <3> QED BY <1>8, <2>2, <2>4, <3>1, <3>2
  <2>5. CASE conn[c].ebar # "none"
    <3>1. ~conn[c].inflight /\ conn[c].gbar = "none"
      BY <1>3, <2>5 DEF ConnSound
    <3>2. "raftBarrierCbExec" \in Fires
      BY Names
    <3> QED BY <1>8, <2>2, <2>5, <3>1, <3>2
  <2> QED BY <2>1, <2>3, <2>4, <2>5
<1>10. PICK g : g = Fn("stmt__registry_close", c, p)
  OBVIOUS
<1>11. /\ g.fn = "stmt__registry_close" /\ g.c = c /\ g.fn \in LeaderCloses /\ g.fn \in Closes
       /\ g.fn # "raft_close" /\ Ends(g)
  BY <1>10, FnFields DEF LeaderCloses, Closes, Ends
<1>12. PICK fns : /\ Leave(fns) /\ IsSeq(fns) /\ InOrder(fns)
                  /\ Elems(fns) \subseteq Elems(fire) \cup {g}
                  /\ Elems(fire) \subseteq Elems(fns) \/ conn[c].d = NoDb
  <2>1. CASE conn[c].d = NoDb
    <3>1. Leave(<< >>)
      BY <1>2, <2>1 DEF gateway__leader_close, NoDatabase
    <3> QED BY <2>1, <3>1, NoneSeq, ShortOrder
  <2>2. CASE conn[c].d # NoDb
    <3>1. Leave(fire \o << g >>)
      BY <1>2, <1>6, <1>7, <1>10, <2>2 DEF gateway__leader_close, NoDatabase
    <3>2. IsSeq(<< g >>) /\ Elems(<< g >>) = {g} /\ InOrder(<< g >>)
      BY OneSeq, ShortOrder
    <3>3. IsSeq(fire \o << g >>) /\ Elems(fire \o << g >>) = Elems(fire) \cup {g}
      BY <1>9, <3>2, ConcatElems
    <3>4. \A f \in Elems(fire) : f.fn \notin Closes
      BY <1>9, Names
    <3>5. InOrder(fire \o << g >>)
      BY <1>9, <3>2, <3>4, ConcatOrder
    <3> QED BY <3>1, <3>3, <3>5
  <2> QED BY <2>1, <2>2
<1>13. PICK r : /\ conn' = [conn EXCEPT ![c] = r] \/ (conn' = conn /\ r = conn[c])
                /\ SameWaits(r, conn[c]) /\ r.exec = conn[c].exec /\ r.vals \subseteq conn[c].vals
                /\ r.io = conn[c].io
                /\ r.gbar # "none" \/ r.ebar # "none" \/ r.inflight => r.req # "none" /\ r.d # NoDb
  <2>1. CASE conn' = conn
    <3>1. SameWaits(conn[c], conn[c])
      BY <1>3 DEF SameWaits
    <3> QED BY <1>3, <2>1, <3>1 DEF ConnSound
  <2>2. CASE p = "rows" /\ conn' = [conn EXCEPT ![self] = [Over(@) EXCEPT !.q = Finalized(self).s]]
    <3> DEFINE q == Finalized(self).s
               r == [Over(conn[c]) EXCEPT !.q = q]
    <3> HIDE DEF q
    <3>1. ~conn[c].inflight /\ conn[c].gbar = "none" /\ conn[c].ebar = "none"
      BY <1>8, <2>2
    <3>2. /\ SameWaits(r, conn[c]) /\ r.exec = conn[c].exec /\ r.vals = {}
          /\ r.io = conn[c].io /\ r.gbar = "none" /\ r.ebar = "none" /\ r.inflight = conn[c].inflight
      BY <1>3, <3>1 DEF SameWaits, Over, ConnFields
    <3>3. conn' = [conn EXCEPT ![c] = r]
      BY <1>2, <2>2 DEF q
    <3> HIDE DEF r
    <3> QED BY <3>1, <3>2, <3>3
  <2> QED BY <1>2, <1>6, <2>1, <2>2 DEF gateway__leader_close
<1>14. conn'[c] = r /\ r.gbar = conn[c].gbar /\ r.ebar = conn[c].ebar /\ r.inflight = conn[c].inflight
  BY <1>3, <1>13 DEF SameWaits
<1>15. ASSUME Calls' = Elems(fns) \cup Later
       PROVE  /\ \A f \in Elems(fns) : Sound(f)'
              /\ r.io = "closing" => InCall("gateway__leader_close", c)' \/ WaitsFired(c)'
  <2>1. ClosesRaft => ClosesRaft'
    BY <1>1, <1>3, <1>15 DEF ClosesRaft
  <2>2. WaitsFired(c)'
    <3>1. CASE conn[c].d = NoDb
      <4>1. ~conn[c].inflight /\ conn[c].gbar = "none" /\ conn[c].ebar = "none"
        BY <1>3, <3>1 DEF ConnSound
      <4> QED BY <1>14, <4>1 DEF WaitsFired
    <3>2. CASE Elems(fire) \subseteq Elems(fns)
      BY <1>9, <1>14, <1>15, <3>2 DEF WaitsFired, InCall
    <3> QED BY <1>12, <3>1, <3>2
  <2>3. Sound(g)'
    <3>1. g.fn \notin {"convertSetState", "raft_close", "conn__stop", "gateway__leader_close"} /\ g.fn \notin Runs
          /\ g.fn \notin Fires /\ g.fn \notin Resumed /\ g.fn \notin {"leaderApplyFramesCb", "raftBarrierCb", "raftBarrierCbExec"}
      BY <1>11, Names
    <3> QED BY <1>11, <2>2, <3>1 DEF Sound
  <2>4. ASSUME NEW f \in Elems(fire) PROVE Sound(f)'
    <3>1. /\ f.c = c /\ f.st = st /\ f.fn \in Fires
          /\ f.fn = "leaderApplyFramesCb" => conn[c].inflight
          /\ f.fn = "raftBarrierCb" => conn[c].gbar # "none"
          /\ f.fn = "raftBarrierCbExec" => conn[c].ebar # "none"
      BY <1>9
    <3>2. Ends(f) /\ f.fn \notin Runs /\ f.fn \notin Closes /\ f.fn \notin LeaderCloses
          /\ f.fn \notin {"conn__stop", "gateway__leader_close", "convertSetState", "raft_close"}
      BY <1>5, <3>1, Names DEF Ends
    <3>3. st # "shutdown" => \A e \in Entries' : e.c # c
      BY <1>1, <1>3, <1>5 DEF NoRequests, Entries
    <3>4. f.fn = "leaderApplyFramesCb" =>
            /\ conn'[c].gbar = "none" /\ conn'[c].ebar = "none"
            /\ raft'.transfer # c /\ raft'.change # c
            /\ f.st # "shutdown" => \A e \in Entries' : ~Frames(e, c)
      BY <1>1, <1>3, <1>14, <3>1, <3>3 DEF ConnSound, Frames
    <3>5. f.fn \in {"raftBarrierCb", "raftBarrierCbExec"} =>
            ClosesRaft' \/ \A e \in Entries' : ~GBarrier(e, c) /\ ~EBarrier(e, c)
      <4>1. f.fn \in {"raftBarrierCb", "raftBarrierCbExec"} => ~Free(c)
        BY <3>1 DEF Free
      <4> QED BY <1>5, <2>1, <3>3, <4>1 DEF GBarrier, EBarrier
    <3> QED BY <3>1, <3>2, <3>4, <3>5 DEF Sound
  <2> QED BY <1>12, <2>2, <2>3, <2>4
<1>16. \A f \in Elems(fns) : Ends(f) /\ f.fn # "raft_close"
  <2>1. \A f \in Elems(fire) : Ends(f) /\ f.fn # "raft_close"
    BY <1>5, <1>9, Names DEF Ends
  <2> QED BY <1>11, <1>12, <2>1
<1>17. r.io = "closing" /\ (raft.transfer = c \/ raft.change = c) => ClosesRaft
  BY <1>3, <1>13 DEF ConnSound
<1>18. Calls' = Elems(fns) \cup Later =>
           /\ \A f \in Elems(fns) : Sound(f)'
           /\ r.io = "closing" => InCall("gateway__leader_close", c)' \/ WaitsFired(c)'
  BY <1>15
<1> QED BY <1>1, <1>2, <1>12, <1>13, <1>16, <1>17, <1>18, CloseStep

---------------------------------------------------------------------------
(* Events *)

\* The loop waits: nothing is left to call, so that what is closing waits for nothing.
LEMMA IdleFacts ==
  ASSUME NodeInv, call = << >>
  PROVE  /\ Calls = {} /\ ~ClosesRaft
         /\ DOMAIN conn = Conn /\ RaftShape(raft) /\ OneEntry /\ acked \subseteq applied
         /\ \A c \in Conn : /\ ConnShape(conn[c]) /\ ConnSound(c) /\ ValsSound(c)
                            /\ conn[c].io = "closing" => Free(c)
                            /\ ~Free(c) => conn[c].io = "handling"
                            /\ Free(c) => conn[c].exec = "none"
         /\ \A e \in Entries : EntryShape(e) /\ EntrySound(e)
<1>1. Calls = {}
  BY NoneSeq DEF Calls
<1>2. ~ClosesRaft /\ \A fn, c : ~InCall(fn, c)
  BY <1>1 DEF ClosesRaft, InCall
<1>3. /\ DOMAIN conn = Conn /\ RaftShape(raft) /\ OneEntry /\ acked \subseteq applied
      /\ \A c \in Conn : ConnShape(conn[c]) /\ ConnSound(c) /\ ValsSound(c)
      /\ \A e \in Entries : EntryShape(e) /\ EntrySound(e)
  BY DEF NodeInv, Shape, RaftShape, Entries
<1>4. ASSUME NEW c \in Conn
      PROVE  /\ conn[c].io = "closing" => Free(c)
             /\ ~Free(c) => conn[c].io = "handling"
             /\ Free(c) => conn[c].exec = "none"
  <2>1. ConnSound(c)
    BY <1>3
  <2>2. conn[c].io = "closing" => Free(c)
    BY <1>2, <2>1 DEF ConnSound, WaitsFired, Free
  <2> QED BY <1>2, <2>1, <2>2 DEF ConnSound, Free
<1> QED BY <1>1, <1>2, <1>3, <1>4

\* An event of connection c, which waits for nothing.
LEMMA ConnEvent ==
  ASSUME NodeInv, call = << >>, NEW c \in Conn, Free(c), NEW r, NEW fns,
         call' = fns, raft' = raft, Unconcerned, acked' = acked,
         conn' = [conn EXCEPT ![c] = r] \/ (conn' = conn /\ r = conn[c]),
         SameWaits(r, conn[c]), r.exec = conn[c].exec, r.vals \subseteq conn[c].vals,
         \/ fns = << >>
         \/ \E f : /\ fns = << f >> /\ f.c = c
                   /\ \/ f.fn \in RequestTypes \cup {"query_batch"} /\ r.io = "handling"
                      \/ f.fn = "conn__stop"
  PROVE  NodeInv'
<1>1. /\ Calls = {} /\ ~ClosesRaft
      /\ DOMAIN conn = Conn /\ RaftShape(raft) /\ OneEntry /\ acked \subseteq applied
      /\ \A x \in Conn : /\ ConnShape(conn[x]) /\ ConnSound(x) /\ ValsSound(x)
                         /\ conn[x].io = "closing" => Free(x)
                         /\ Free(x) => conn[x].exec = "none"
      /\ \A e \in Entries : EntryShape(e) /\ EntrySound(e)
  BY IdleFacts
<1>2. conn'[c] = r /\ DOMAIN conn' = Conn /\ \A x \in Conn \ {c} : conn'[x] = conn[x]
  BY <1>1
<1>3. /\ DOMAIN r = ConnFields /\ r.gbar = conn[c].gbar /\ r.ebar = conn[c].ebar
      /\ r.inflight = conn[c].inflight /\ r.exec = "none"
  BY <1>1 DEF SameWaits
<1>4. Entries' = Entries /\ Free(c)' /\ \A x \in Conn : Free(x) <=> Free(x)'
  BY <1>1, <1>2, <1>3 DEF Entries, Free
<1>5. /\ IsSeq(fns) /\ InOrder(fns) /\ Len(fns) <= 1
      /\ \A f \in Elems(fns) : /\ f.c = c
                               /\ \/ f.fn \in RequestTypes \cup {"query_batch"} /\ r.io = "handling"
                                  \/ f.fn = "conn__stop"
  <2>1. CASE fns = << >>
    BY <2>1, NoneSeq, ShortOrder
  <2>2. ASSUME NEW f, fns = << f >>, f.c = c,
               \/ f.fn \in RequestTypes \cup {"query_batch"} /\ r.io = "handling"
               \/ f.fn = "conn__stop"
        PROVE  <1>5!:
    BY <2>2, OneSeq, ShortOrder
  <2> QED BY <2>1, <2>2
<1>6. Calls' = Elems(fns)
  BY DEF Calls
<1>7. ASSUME NEW f \in Elems(fns) PROVE Sound(f)'
  <2>1. f.c = c /\ ((f.fn \in RequestTypes \cup {"query_batch"} /\ r.io = "handling") \/ f.fn = "conn__stop")
    BY <1>5
  <2>2. f.fn \notin Fires /\ f.fn \notin Resumed /\ f.fn \notin LeaderCloses
        /\ f.fn \notin {"gateway__leader_close", "convertSetState", "raft_close"}
        /\ \/ f.fn \in Runs /\ f.fn # "conn__stop"
           \/ f.fn = "conn__stop" /\ f.fn \in Closes /\ f.fn \notin Runs
    <3>1. CASE f.fn = "conn__stop"
      BY <3>1, Names
    <3>2. CASE f.fn \in RequestTypes \cup {"query_batch"}
      <4>1. f.fn \in Runs /\ f.fn \notin Closes /\ f.fn \notin Fires
        BY <3>2, Names
      <4>2. f.fn \notin Resumed
        BY <3>2 DEF RequestTypes, Resumed, BarrierCbs, ExecCbs
      <4> QED BY <4>1, <4>2, Names
    <3> QED BY <2>1, <3>1, <3>2
  <2>3. f.fn \notin {"leaderApplyFramesCb", "raftBarrierCb", "raftBarrierCbExec"}
    BY <2>2, Names
  <2> QED BY <1>2, <1>4, <2>1, <2>2, <2>3 DEF Sound
<1>8. ASSUME NEW x \in Conn PROVE ConnShape(conn[x])' /\ ConnSound(x)' /\ ValsSound(x)'
  <2>1. ConnShape(conn[x]) /\ ConnSound(x) /\ ValsSound(x) /\ ~Doomed(x)
    BY <1>1 DEF Doomed
  <2>2. CASE x # c
    <3>1. conn'[x] = conn[x] /\ (conn[x].io = "closing" => Free(x))
      BY <1>1, <1>2, <2>2
    <3>2. conn[x].io = "closing" => WaitsFired(x)'
      BY <3>1 DEF WaitsFired, Free
    <3>3. ConnSound(x)'
      <4>1. conn[x].exec # "none" => conn[x].ebar # "none" \/ conn[x].inflight
        BY <1>1 DEF Free, ConnSound, InCall
      <4>2. conn[x].io = "closing" => raft.transfer # x /\ raft.change # x
        BY <3>1 DEF Free
      <4> QED BY <1>4, <2>1, <3>1, <3>2, <4>1, <4>2 DEF ConnSound
    <3> QED BY <1>4, <2>1, <3>1, <3>3 DEF ValsSound, Unconcerned
  <2>3. CASE x = c
    <3>1. ConnShape(r)
      BY <1>3, <2>1, <2>3 DEF ConnShape, ExecCbs
    <3>2. r.gbar = "none" /\ r.ebar = "none" /\ ~r.inflight /\ raft.transfer # c /\ raft.change # c
      BY <1>3 DEF Free
    <3>3. WaitsFired(c)'
      BY <1>2, <3>2 DEF WaitsFired
    <3>4. ConnSound(c)'
      BY <1>2, <1>3, <1>4, <3>2, <3>3 DEF ConnSound
    <3>5. ValsSound(c)'
      BY <1>2, <1>4, <2>1, <2>3 DEF ValsSound, Unconcerned
    <3> QED BY <1>2, <2>3, <3>1, <3>4, <3>5
  <2> QED BY <2>2, <2>3
<1>9. ASSUME NEW e \in Entries' PROVE EntrySound(e)'
  <2>1. e \in Entries /\ EntrySound(e) /\ EntryShape(e)
    BY <1>1, <1>4
  <2>2. e.c \in Conn => conn'[e.c].gbar = conn[e.c].gbar /\ conn'[e.c].ebar = conn[e.c].ebar /\ conn'[e.c].inflight = conn[e.c].inflight
    BY <1>2, <1>3
  <2> QED BY <1>1, <2>1, <2>2 DEF EntrySound, EntryShape
<1>10. Shape' /\ InOrder(call)' /\ AllEnd' /\ OneEntry' /\ (acked \subseteq applied)'
  <2>1. Shape'
    <3>1. scenario \in DOMAIN Scenarios
      BY DEF NodeInv, Shape
    <3> QED BY <1>1, <1>2, <1>5, <1>8, <3>1 DEF Shape, Unconcerned
  <2> QED BY <1>1, <1>5, <2>1 DEF AllEnd, OneEntry, Unconcerned
<1> QED BY <1>6, <1>7, <1>8, <1>9, <1>10 DEF NodeInv

LEMMA ClientInv ==
  ASSUME NodeInv, NEW c \in Conn,
         \/ listenCb(c) \/ read_protocol_cb(c) \/ conn_write_cb(c) \/ closeCb(c) \/ Disconnect(c)
         \/ \E rq \in Given.requests : gateway__handle(c, rq)
  PROVE  NodeInv'
<1>1. /\ call = << >> /\ conn[c].io # "handling" /\ raft' = raft /\ Unconcerned /\ acked' = acked
  BY DEF listenCb, read_protocol_cb, conn_write_cb, closeCb, Disconnect, gateway__handle,
         Waiting, Event, Unconcerned, ghosts
<1>2. /\ DOMAIN conn = Conn /\ ConnShape(conn[c]) /\ Free(c) /\ conn[c].exec = "none"
      /\ DOMAIN conn[c] = ConnFields
  BY <1>1, IdleFacts DEF ConnShape
<1>3. ASSUME NEW io PROVE /\ SameWaits([conn[c] EXCEPT !.io = io], conn[c])
                          /\ [conn[c] EXCEPT !.io = io].exec = conn[c].exec
                          /\ [conn[c] EXCEPT !.io = io].vals \subseteq conn[c].vals
                          /\ [conn[c] EXCEPT !.io = io].io = io
  BY <1>2 DEF SameWaits, ConnFields
<1>4. ASSUME NEW io, conn' = [conn EXCEPT ![c].io = io], NEW fns, call' = fns,
             \/ fns = << >>
             \/ \E f : /\ fns = << f >> /\ f.c = c
                       /\ f.fn \in RequestTypes \cup {"query_batch"} /\ io = "handling"
      PROVE  NodeInv'
  <2> DEFINE r == [conn[c] EXCEPT !.io = io]
  <2>1. SameWaits(r, conn[c]) /\ r.exec = conn[c].exec /\ r.vals \subseteq conn[c].vals /\ r.io = io
    BY <1>3
  <2>2. conn' = [conn EXCEPT ![c] = r]
    BY <1>2, <1>4
  <2> HIDE DEF r
  <2>3. \/ fns = << >>
        \/ \E f : /\ fns = << f >> /\ f.c = c
                  /\ \/ f.fn \in RequestTypes \cup {"query_batch"} /\ r.io = "handling"
                     \/ f.fn = "conn__stop"
    BY <1>4, <2>1
  <2> QED BY <1>1, <1>2, <1>4, <2>1, <2>2, <2>3, ConnEvent
<1>5. CASE listenCb(c) \/ read_protocol_cb(c)
  <2>1. call' = << >> /\ \E io : conn' = [conn EXCEPT ![c].io = io]
    BY <1>1, <1>5 DEF listenCb, read_protocol_cb
  <2> QED BY <1>4, <2>1
<1>6. CASE conn_write_cb(c)
  <2>1. CASE conn' = [conn EXCEPT ![c].io = "reading"] /\ call' = call
    BY <1>1, <1>4, <2>1
  <2>2. CASE conn' = [conn EXCEPT ![c].io = "handling"] /\ call' = << Fn("query_batch", c, "ok") >>
    <3> DEFINE f == Fn("query_batch", c, "ok")
    <3>1. f.fn = "query_batch" /\ f.c = c
      BY FnFields
    <3> HIDE DEF f
    <3>2. call' = << f >>
      BY <2>2 DEF f
    <3>3. \E g : << f >> = << g >> /\ g.c = c /\ g.fn \in RequestTypes \cup {"query_batch"} /\ "handling" = "handling"
      BY <3>1
    <3> QED BY <1>4, <2>2, <3>2, <3>3
  <2> QED BY <1>6, <2>1, <2>2 DEF conn_write_cb
<1>7. ASSUME NEW rq \in Given.requests, gateway__handle(c, rq) PROVE NodeInv'
  <2> DEFINE f == Fn(rq.type, c, rq.arg)
  <2>1. f.fn = rq.type /\ f.c = c
    BY FnFields
  <2>2. rq.type \in RequestTypes
    <3>1. scenario \in DOMAIN Scenarios
      BY DEF NodeInv, Shape
    <3> QED BY <3>1, NodeAssumption DEF Given
  <2> HIDE DEF f
  <2>3. call' = << f >> /\ conn' = [conn EXCEPT ![c].io = "handling"]
    BY <1>7 DEF gateway__handle, f
  <2>4. \E g : << f >> = << g >> /\ g.c = c /\ g.fn \in RequestTypes \cup {"query_batch"} /\ "handling" = "handling"
    BY <2>1, <2>2
  <2> QED BY <1>4, <2>3, <2>4
<1>8. CASE closeCb(c)
  <2>1. conn' = [conn EXCEPT ![c] = ConnInit] /\ call' = << >>
    BY <1>1, <1>8 DEF closeCb
  <2>2. conn[c].gbar = "none" /\ conn[c].ebar = "none" /\ conn[c].inflight = FALSE
    BY <1>2 DEF Free, ConnShape
  <2>3. SameWaits(ConnInit, conn[c]) /\ ConnInit.exec = conn[c].exec /\ ConnInit.vals \subseteq conn[c].vals
    BY <1>2, <2>2 DEF SameWaits, ConnInit, ConnFields
  <2> QED BY <1>1, <1>2, <2>1, <2>3, ConnEvent
<1>9. CASE Disconnect(c)
  <2> DEFINE f == Fn("conn__stop", c, "ok")
  <2>1. f.fn = "conn__stop" /\ f.c = c
    BY FnFields
  <2> HIDE DEF f
  <2>2. call' = << f >> /\ conn' = conn
    BY <1>9 DEF Disconnect, f
  <2>3. SameWaits(conn[c], conn[c])
    BY <1>2 DEF SameWaits
  <2>4. \E g : /\ << f >> = << g >> /\ g.c = c
               /\ \/ g.fn \in RequestTypes \cup {"query_batch"} /\ conn[c].io = "handling"
                  \/ g.fn = "conn__stop"
    BY <2>1
  <2> QED BY <1>1, <1>2, <2>2, <2>3, <2>4, ConnEvent
<1> QED BY <1>5, <1>6, <1>7, <1>8, <1>9

\* An event of raft, or its close, leaves the connections alone.  It may forget a
\* transaction only when it applied it or when its callback is called with a failure.
LEMMA RaftStep ==
  ASSUME NodeInv, \A f \in Calls : f.fn = "raft_close",
         conn' = conn, scenario' = scenario, acked' = acked, applied \subseteq applied',
         IsSeq(call'), InOrder(call)', AllEnd', RaftShape(raft'), OneEntry',
         raft'.transfer \in {raft.transfer, NoConn}, raft'.change \in {raft.change, NoConn},
         \A e \in Entries' : e.c # NoConn => e \in Entries /\ raft'.state = "leader",
         ClosesRaft => /\ raft'.transfer = NoConn /\ raft'.change = NoConn
                       /\ \A e \in Entries' : e.c = NoConn,
         \A f \in Calls' : Sound(f)',
         \A e \in Entries : e.c # NoConn /\ e.cmd = "frames" =>
           \/ e \in Entries' \/ e.val \in applied'
           \/ \E f \in Calls' : f.fn = "leaderApplyFramesCb" /\ f.c = e.c /\ f.st \in Failures
  PROVE  NodeInv'
<1>1. /\ DOMAIN conn = Conn /\ scenario \in DOMAIN Scenarios /\ acked \subseteq applied
      /\ \A c \in Conn : ConnShape(conn[c]) /\ ConnSound(c) /\ ValsSound(c)
      /\ \A e \in Entries : EntrySound(e)
  BY DEF NodeInv, Shape
<1>2. \A fn, c : fn # "raft_close" => ~InCall(fn, c)
  BY DEF InCall
<1>3. \A c \in Conn : ~Doomed(c)
  BY DEF Doomed, ExecCbs
<1>4. ASSUME NEW c \in Conn PROVE ConnSound(c)' /\ ValsSound(c)'
  <2>1. ConnSound(c) /\ ValsSound(c) /\ c # NoConn
    BY <1>1, NodeAssumption
  <2>2. /\ raft'.transfer = c => raft.transfer = c /\ ~ClosesRaft
        /\ raft'.change = c => raft.change = c /\ ~ClosesRaft
    BY <2>1
  <2>3. conn[c].io = "closing" => conn[c].gbar = "none" /\ conn[c].ebar = "none" /\ ~conn[c].inflight
    BY <1>2, <2>1 DEF ConnSound, WaitsFired
  <2>4. conn[c].io = "closing" => WaitsFired(c)'
    BY <2>3 DEF WaitsFired
  <2>5. conn[c].exec # "none" => conn[c].ebar # "none" \/ conn[c].inflight
    BY <1>2, <2>1 DEF ConnSound
  <2>6. Free(c) => Free(c)'
    BY <2>2 DEF Free
  <2>7. conn[c].io = "closing" => raft'.transfer # c /\ raft'.change # c
    BY <2>1, <2>2 DEF ConnSound
  <2>8. ConnSound(c)'
    BY <2>1, <2>2, <2>4, <2>5, <2>6, <2>7 DEF ConnSound
  <2>9. ValsSound(c)'
    <3> SUFFICES ASSUME NEW v \in conn[c].vals
                 PROVE  v \in applied' \/ (\E e \in Entries' : Frames(e, c) /\ e.val = v) \/ Doomed(c)'
      BY DEF ValsSound
    <3>1. CASE v \in applied
      BY <3>1
    <3>2. ASSUME NEW e \in Entries, Frames(e, c), e.val = v
          PROVE  v \in applied' \/ (\E x \in Entries' : Frames(x, c) /\ x.val = v) \/ Doomed(c)'
      <4>1. e.c = c /\ e.cmd = "frames" /\ e.c # NoConn
        BY <2>1, <3>2 DEF Frames
      <4>2. CASE e \in Entries' \/ e.val \in applied'
        BY <3>2, <4>2
      <4>3. ASSUME NEW f \in Calls', f.fn = "leaderApplyFramesCb", f.c = e.c, f.st \in Failures
            PROVE  Doomed(c)'
        BY <4>1, <4>3 DEF Doomed
      <4> QED BY <4>1, <4>2, <4>3
    <3> QED BY <1>3, <2>1, <3>1, <3>2 DEF ValsSound
  <2> QED BY <2>8, <2>9
<1>5. ASSUME NEW e \in Entries' PROVE EntrySound(e)'
  <2>1. CASE e.c = NoConn
    BY <2>1 DEF EntrySound
  <2>2. CASE e.c # NoConn
    <3>1. e \in Entries /\ raft'.state = "leader" /\ EntrySound(e) /\ ~ClosesRaft
      BY <1>1, <2>2
    <3> QED BY <2>2, <3>1 DEF EntrySound
  <2> QED BY <2>1, <2>2
<1>6. Shape' /\ (acked \subseteq applied)'
  BY <1>1 DEF Shape
<1> QED BY <1>4, <1>5, <1>6 DEF NodeInv

\* An event that leaves the waits, the entries and what is to be called alone.
LEMMA QuietStep ==
  ASSUME NodeInv, call = << >>, call' = << >>, conn' = conn, raft' = raft, Unconcerned, acked' = acked
  PROVE  NodeInv'
<1>1. Calls = {} /\ ~ClosesRaft /\ RaftShape(raft) /\ OneEntry /\ \A e \in Entries : EntrySound(e)
  BY IdleFacts
<1>2. Calls' = {} /\ IsSeq(call') /\ InOrder(call)' /\ AllEnd'
  BY NoneSeq, ShortOrder DEF Calls, AllEnd
<1>3. Entries' = Entries /\ OneEntry'
  BY <1>1 DEF Entries, OneEntry
<1>4. \A e \in Entries' : e.c # NoConn => e \in Entries /\ raft'.state = "leader"
  BY <1>1, <1>3 DEF EntrySound
<1> QED BY <1>1, <1>2, <1>3, <1>4, RaftStep DEF Unconcerned

\* A follower, or a server that becomes leader: no entry has a callback.
LEMMA FollowerStep ==
  ASSUME NodeInv, call = << >>, call' = << >>, conn' = conn, Unconcerned, acked' = acked,
         raft.state # "leader",
         RaftShape(raft'), raft'.transfer = raft.transfer, raft'.change = raft.change,
         \A e \in Entries' : e \in Entries \/ e.c = NoConn
  PROVE  NodeInv'
<1>1. Calls = {} /\ ~ClosesRaft /\ \A e \in Entries : EntrySound(e)
  BY IdleFacts
<1>2. Calls' = {} /\ IsSeq(call') /\ InOrder(call)' /\ AllEnd'
  BY NoneSeq, ShortOrder DEF Calls, AllEnd
<1>3. \A e \in Entries : e.c = NoConn
  BY <1>1 DEF EntrySound
<1>4. \A e \in Entries' : e.c = NoConn
  BY <1>3
<1>5. OneEntry'
  BY <1>4 DEF OneEntry, Entries, Elems
<1> QED BY <1>1, <1>2, <1>3, <1>4, <1>5, RaftStep DEF Unconcerned

LEMMA SubElems ==
  ASSUME NEW s, IsSeq(s), NEW m \in 1..Len(s) + 1, NEW n \in 0..Len(s), m <= n + 1
  PROVE  /\ IsSeq(SubSeq(s, m, n))
         /\ \A x \in Elems(SubSeq(s, m, n)) : x \in Elems(s)
         /\ \A i \in m..n : s[i] \in Elems(SubSeq(s, m, n))
<1>1. Len(s) \in Nat /\ DOMAIN s = 1..Len(s) /\ s \in Seq(Elems(s))
  BY SeqFacts
<1> DEFINE t == SubSeq(s, m, n)
<1>2. \A i \in 1..Len(s) : s[i] \in Elems(s)
  BY <1>1 DEF Elems
<1>3. t = [i \in 1..(n - m + 1) |-> s[i + m - 1]]
  BY <1>1, Z3
<1>4. n - m + 1 \in Nat
  BY <1>1
<1> DEFINE k == n - m + 1
<1>5. k \in Nat /\ t = [i \in 1..k |-> s[i + m - 1]] /\ DOMAIN t = 1..k
  BY <1>3, <1>4
<1>6. \A i \in 1..k : t[i] = s[i + m - 1] /\ i + m - 1 \in 1..Len(s)
  <2>1. \A i \in 1..k : i + m - 1 \in 1..Len(s)
    BY <1>1
  <2> QED BY <1>5, <2>1
<1>7. \A i \in m..n : i - m + 1 \in 1..k /\ t[i - m + 1] = s[i]
  <2> TAKE i \in m..n
  <2>1. i - m + 1 \in 1..k /\ (i - m + 1) + m - 1 = i
    BY <1>1
  <2>2. t[i - m + 1] = s[(i - m + 1) + m - 1]
    BY <1>6, <2>1
  <2> QED BY <2>1, <2>2
<1> HIDE DEF t, k
<1>8. t \in [1..k -> Elems(s)]
  BY <1>2, <1>5, <1>6
<1>9. t \in Seq(Elems(s))
  <2>1. k \in Nat
    BY <1>5
  <2> QED BY <1>8, <2>1
<1>10. IsSeq(t)
  BY <1>9, SeqOf
<1>11. \A x \in Elems(t) : x \in Elems(s)
  BY <1>5, <1>8 DEF Elems
<1>12. \A i \in m..n : s[i] \in Elems(t)
  BY <1>5, <1>7 DEF Elems
<1> QED BY <1>10, <1>11, <1>12 DEF t

LEMMA FollowerEvents ==
  ASSUME NodeInv,
         \/ \E d \in Db : ReceiveEntry(d) \/ installSnapshotCb(d)
         \/ TruncateEntries \/ convertToLeader
  PROVE  NodeInv'
<1> DEFINE l == raft.log
<1>1. /\ call = << >> /\ call' = << >> /\ conn' = conn /\ Unconcerned /\ acked' = acked
      /\ raft.state # "leader"
      /\ DOMAIN raft' = DOMAIN raft /\ raft'.transfer = raft.transfer /\ raft'.change = raft.change
      /\ \/ \E d, v : raft'.log = Append(l, Entry("frames", d, v, NoConn))
         \/ raft'.log = Append(l, Entry("noop", NoDb, 0, NoConn))
         \/ raft'.log = << >>
         \/ \E n \in 0..(Len(l) - 1) : raft'.log = SubSeq(l, 1, n)
  <2>0. RaftShape(raft)
    BY DEF NodeInv, Shape
  <2>1. CASE \E d \in Db : ReceiveEntry(d)
    BY <2>0, <2>1 DEF ReceiveEntry, Event, Waiting, Unconcerned, ghosts, RaftShape
  <2>2. CASE \E d \in Db : installSnapshotCb(d)
    BY <2>0, <2>2 DEF installSnapshotCb, Event, Waiting, Unconcerned, RaftShape
  <2>3. CASE TruncateEntries
    BY <2>0, <2>3 DEF TruncateEntries, Event, Waiting, Unconcerned, ghosts, RaftShape
  <2>4. CASE convertToLeader
    BY <2>0, <2>4 DEF convertToLeader, Event, Waiting, Unconcerned, ghosts, RaftShape
  <2> QED BY <2>1, <2>2, <2>3, <2>4
<1>2. RaftShape(raft) /\ IsSeq(l) /\ Len(l) \in Nat
  BY SeqFacts DEF NodeInv, Shape, RaftShape
<1>3. ASSUME NEW e, e.c = NoConn, EntryShape(e), raft'.log = Append(l, e)
      PROVE  RaftShape(raft') /\ \A x \in Entries' : x \in Entries \/ x.c = NoConn
  <2>1. IsSeq(Append(l, e)) /\ Elems(Append(l, e)) = Elems(l) \cup {e}
    BY <1>2, AppendElems
  <2> QED BY <1>1, <1>2, <1>3, <2>1 DEF RaftShape, Entries
<1>4. CASE raft'.log = << >>
  BY <1>1, <1>2, <1>4, NoneSeq, FollowerStep DEF RaftShape, Entries
<1>5. ASSUME NEW n \in 0..(Len(l) - 1), raft'.log = SubSeq(l, 1, n) PROVE NodeInv'
  <2>1. /\ IsSeq(SubSeq(l, 1, n)) /\ \A x \in Elems(SubSeq(l, 1, n)) : x \in Elems(l)
    <3>1. 1 \in 1..Len(l) + 1 /\ n \in 0..Len(l) /\ 1 <= n + 1
      BY <1>2
    <3> QED BY <1>2, <3>1, SubElems
  <2>2. RaftShape(raft') /\ \A x \in Entries' : x \in Entries
    BY <1>1, <1>2, <1>5, <2>1 DEF RaftShape, Entries
  <2> QED BY <1>1, <2>2, FollowerStep
<1>6. ASSUME NEW cmd, NEW d, NEW v, raft'.log = Append(l, Entry(cmd, d, v, NoConn)) PROVE NodeInv'
  <2> DEFINE e == Entry(cmd, d, v, NoConn)
  <2>1. e.c = NoConn /\ EntryShape(e)
    BY DEF Entry, EntryShape
  <2> HIDE DEF e
  <2>2. raft'.log = Append(l, e)
    BY <1>6 DEF e
  <2>3. RaftShape(raft') /\ \A x \in Entries' : x \in Entries \/ x.c = NoConn
    BY <1>3, <2>1, <2>2
  <2> QED BY <1>1, <2>3, FollowerStep
<1> QED BY <1>1, <1>4, <1>5, <1>6

LEMMA SnapshotEvents ==
  ASSUME NodeInv, takeSnapshot \/ takeSnapshotAsync \/ takeSnapshotCb \/ Wait
  PROVE  NodeInv'
<1>1. /\ call = << >> /\ call' = << >> /\ conn' = conn /\ raft' = raft /\ Unconcerned
      /\ acked' = acked
  BY DEF takeSnapshot, takeSnapshotAsync, takeSnapshotCb, Wait, Event, Waiting, Unconcerned, ghosts, vars
<1> QED BY <1>1, QuietStep

---------------------------------------------------------------------------
(* The loss of leadership *)

LEMMA OpenOrder ==
  ASSUME NEW s, IsSeq(s), \A f \in Elems(s) : f.fn \notin Closes
  PROVE  InOrder(s)
<1>1. \A i \in DOMAIN s : s[i].fn \notin Closes /\ s[i].fn # "raft_close"
  BY Names DEF Elems
<1> QED BY <1>1 DEF InOrder

LEMMA ClosedOrder ==
  ASSUME NEW s, IsSeq(s), \A f \in Elems(s) : f.fn \in Closes /\ f.fn # "raft_close"
  PROVE  InOrder(s)
<1>1. \A i \in DOMAIN s : s[i].fn \in Closes /\ s[i].fn # "raft_close"
  BY DEF Elems
<1> QED BY <1>1 DEF InOrder

LEMMA ForgottenFacts ==
  ASSUME NEW es, IsSeq(es), \A e \in Elems(es) : EntryShape(e)
  PROVE  /\ IsSeq(Forgotten(es))
         /\ \A e \in Elems(Forgotten(es)) : EntryShape(e) /\ e.c = NoConn
<1> DEFINE t == Forgotten(es)
<1>1. t = [i \in DOMAIN es |-> [es[i] EXCEPT !.c = NoConn]]
  BY DEF Forgotten
<1>2. t = [i \in DOMAIN es |-> t[i]] /\ DOMAIN t = DOMAIN es
  BY <1>1
<1>3. \A i \in DOMAIN es : es[i] \in Elems(es)
  BY DEF Elems
<1>4. \A i \in DOMAIN es : EntryShape(t[i]) /\ t[i].c = NoConn
  BY <1>1, <1>3 DEF EntryShape
<1> HIDE DEF t
<1>5. IsSeq(t)
  BY <1>2, MapSeq
<1>6. \A e \in Elems(t) : EntryShape(e) /\ e.c = NoConn
  BY <1>2, <1>4 DEF Elems
<1> QED BY <1>5, <1>6 DEF t

\* raft forgets all requests: the log has none, and there is no change any more.
Forgets ==
  /\ conn' = conn
  /\ raft'.transfer \in {raft.transfer, NoConn} /\ raft'.change = NoConn
  /\ NoRequests'

\* The callbacks of the entries es, when raft forgets all of them.
LEMMA LostCallbacks ==
  ASSUME NodeInv, Forgets, NEW es, IsSeq(es), \A e \in Elems(es) : e \in Entries,
         NEW st \in {"lost", "ioerr"}
  PROVE  /\ IsSeq(Callbacks(es, st)) /\ InOrder(Callbacks(es, st))
         /\ \A f \in Elems(Callbacks(es, st)) : f.fn \notin Closes /\ Ends(f) /\ Sound(f)'
         /\ \A e \in Elems(es) : e.c # NoConn /\ e.cmd = "frames" =>
              \E f \in Elems(Callbacks(es, st)) :
                f.fn = "leaderApplyFramesCb" /\ f.c = e.c /\ f.st \in Failures
<1> DEFINE s == Callbacks(es, st)
<1>1. /\ IsSeq(s)
      /\ \A f \in Elems(s) :
           /\ f.fn \in Fires /\ f.st = st
           /\ \E e \in Elems(es) : /\ e.c # NoConn /\ f.c = e.c
                                   /\ f.fn = "leaderApplyFramesCb" <=> e.cmd = "frames"
      /\ \A e \in Elems(es) : e.c # NoConn /\ e.cmd = "frames" =>
           \E f \in Elems(s) : f.fn = "leaderApplyFramesCb" /\ f.c = e.c /\ f.st = st
  <2>1. \A f \in Elems(s) :
           /\ f.fn \in Fires /\ f.st = st
           /\ \E e \in Elems(es) : /\ e.c # NoConn /\ f.c = e.c
                                   /\ f.fn = "leaderApplyFramesCb" <=> e.cmd = "frames"
                                   /\ f.fn = "raftBarrierCb" <=> e.cmd = "gbarrier"
    BY CallbacksFacts
  <2>2. IsSeq(s)
    BY CallbacksFacts
  <2>3. \A e \in Elems(es) : e.c # NoConn /\ e.cmd = "frames" =>
           \E f \in Elems(s) : f.fn = "leaderApplyFramesCb" /\ f.c = e.c /\ f.st = st
    BY CallbacksFacts
  <2> HIDE DEF s
  <2> QED BY <2>1, <2>2, <2>3
<1>2. st \in Failures
  BY DEF Failures
<1> HIDE DEF s
<1>3. ASSUME NEW f \in Elems(s) PROVE f.fn \notin Closes /\ Ends(f) /\ Sound(f)'
  <2>1. f.fn \in Fires /\ f.st = st
    BY <1>1
  <2>2. PICK e \in Elems(es) : /\ e.c # NoConn /\ f.c = e.c
                               /\ f.fn = "leaderApplyFramesCb" <=> e.cmd = "frames"
    BY <1>1
  <2>3. e \in Entries /\ EntrySound(e) /\ EntryShape(e)
    BY DEF NodeInv, Shape, RaftShape, Entries
  <2>4. f.c \in Conn /\ ConnSound(f.c) /\ f.c # NoConn
    BY <2>2, <2>3, NodeAssumption DEF EntryShape, NodeInv
  <2>5. f.fn \notin Closes /\ Ends(f) /\ f.fn \notin Runs
    BY <1>2, <2>1, Names DEF Ends
  <2>6. f.fn = "leaderApplyFramesCb" =>
            /\ conn'[f.c].gbar = "none" /\ conn'[f.c].ebar = "none"
            /\ raft'.transfer # f.c /\ raft'.change # f.c
    BY <2>2, <2>3, <2>4 DEF EntrySound, ConnSound, Forgets
  <2>7. \A x \in Entries' : ~Frames(x, f.c) /\ ~GBarrier(x, f.c) /\ ~EBarrier(x, f.c)
    BY <2>4 DEF Forgets, NoRequests, Frames, GBarrier, EBarrier
  <2>8. f.fn \notin LeaderCloses /\ f.fn \notin {"conn__stop", "gateway__leader_close", "convertSetState", "raft_close"}
    BY <2>5, Names
  <2> QED BY <2>1, <2>4, <2>5, <2>6, <2>7, <2>8 DEF Sound
<1>4. InOrder(s)
  BY <1>1, <1>3, OpenOrder
<1> QED BY <1>1, <1>2, <1>3, <1>4 DEF s

\* A connection that raft held a change or a transfer of waits for nothing else.
LEMMA ClusterFree ==
  ASSUME NodeInv, conn' = conn, NEW c \in Conn, raft'.transfer # c, raft'.change # c,
         raft.transfer = c \/ raft.change = c
  PROVE  Free(c)'
<1>1. ConnSound(c)
  BY DEF NodeInv
<1> QED BY <1>1 DEF ConnSound, Free

LEMMA ClusterCbSound ==
  ASSUME NEW f, f.fn \in ClusterCbs, f.c \in Conn, Free(f.c)'
  PROVE  f.fn \notin Closes /\ Ends(f) /\ Sound(f)'
<1>1. f.fn \in Runs /\ f.fn \notin Closes /\ f.fn \notin Fires
  BY Names
<1>2. f.fn \notin Resumed
  BY DEF ClusterCbs, Resumed, BarrierCbs, ExecCbs
<1>3. Ends(f)
  BY DEF Ends
<1>4. f.fn \notin LeaderCloses /\ f.fn \notin {"conn__stop", "gateway__leader_close", "convertSetState", "raft_close"}
      /\ f.fn \notin {"leaderApplyFramesCb", "raftBarrierCb", "raftBarrierCbExec"}
  BY <1>1, Names
<1> QED BY <1>1, <1>2, <1>3, <1>4 DEF Sound

LEMMA ChangeCbFacts ==
  ASSUME NodeInv, conn' = conn, raft'.change = NoConn,
         raft'.transfer \in {raft.transfer, NoConn}, NEW st
  PROVE  /\ IsSeq(ChangeCb(st)) /\ InOrder(ChangeCb(st)) /\ Len(ChangeCb(st)) <= 1
         /\ \A f \in Elems(ChangeCb(st)) :
              f.fn \in ClusterCbs /\ f.fn \notin Closes /\ Ends(f) /\ Sound(f)'
<1>1. CASE raft.change = NoConn
  <2>1. ChangeCb(st) = << >>
    BY <1>1 DEF ChangeCb
  <2> QED BY <2>1, NoneSeq, ShortOrder
<1>2. CASE raft.change # NoConn
  <2>1. PICK f : f = Fn("raftChangeCb", raft.change, st)
    OBVIOUS
  <2>2. f.fn = "raftChangeCb" /\ f.c = raft.change /\ f.fn \in ClusterCbs
    BY <2>1, FnFields DEF ClusterCbs
  <2>3. ChangeCb(st) = << f >>
    BY <1>2, <2>1 DEF ChangeCb
  <2>4. PICK c \in Conn : c = raft.change
    BY <1>2 DEF NodeInv, Shape, RaftShape
  <2>5. c # NoConn /\ raft.transfer # c
    <3>1. ConnSound(c)
      BY DEF NodeInv
    <3> QED BY <2>4, <3>1, NodeAssumption DEF ConnSound
  <2>6. Free(c)'
    BY <2>4, <2>5, ClusterFree
  <2>7. f.c \in Conn /\ Free(f.c)'
    BY <2>2, <2>4, <2>6
  <2>8. f.fn \notin Closes /\ Ends(f) /\ Sound(f)'
    BY <2>2, <2>7, ClusterCbSound
  <2>9. IsSeq(<< f >>) /\ InOrder(<< f >>) /\ Len(<< f >>) <= 1 /\ Elems(<< f >>) = {f}
    BY OneSeq, ShortOrder
  <2> QED BY <2>2, <2>3, <2>8, <2>9
<1> QED BY <1>1, <1>2

LEMMA SetStateFacts ==
  ASSUME NoRequests', NEW st
  PROVE  LET s == << Fn("convertSetState", NoConn, st) >>
         IN  /\ IsSeq(s) /\ InOrder(s)
             /\ \A f \in Elems(s) : /\ f.fn = "convertSetState" /\ f.fn \in Closes /\ f.fn # "raft_close"
                                    /\ Ends(f) /\ Sound(f)'
<1>1. PICK f : f = Fn("convertSetState", NoConn, st)
  OBVIOUS
<1>2. f.fn = "convertSetState" /\ f.fn \in Closes /\ f.fn # "raft_close" /\ Ends(f)
  BY <1>1, FnFields, Names DEF Ends
<1>3. f.fn \notin Runs /\ f.fn \notin Fires /\ f.fn \notin Resumed /\ f.fn \notin LeaderCloses
      /\ f.fn \notin {"leaderApplyFramesCb", "raftBarrierCb", "raftBarrierCbExec"}
  BY <1>2, Names
<1>4. Sound(f)'
  BY <1>2, <1>3 DEF Sound
<1>5. IsSeq(<< f >>) /\ InOrder(<< f >>) /\ Elems(<< f >>) = {f}
  BY OneSeq, ShortOrder
<1> QED BY <1>1, <1>2, <1>4, <1>5

\* What a sequence of functions has that ends requests.
EndsRequests(s) ==
  /\ IsSeq(s) /\ InOrder(s)
  /\ \A f \in Elems(s) : f.fn # "raft_close" /\ Ends(f) /\ Sound(f)'

LEMMA StepDownFacts ==
  ASSUME NodeInv, Forgets, NEW es, IsSeq(es), \A e \in Elems(es) : e \in Entries, NEW st
  PROVE  /\ EndsRequests(StepDownCalls(es, st))
         /\ \A e \in Elems(es) : e.c # NoConn /\ e.cmd = "frames" =>
              \E f \in Elems(StepDownCalls(es, st)) :
                f.fn = "leaderApplyFramesCb" /\ f.c = e.c /\ f.st \in Failures
<1>1. PICK a, b, d : /\ a = Callbacks(es, "lost") /\ b = ChangeCb("lost")
                     /\ d = << Fn("convertSetState", NoConn, st) >>
  OBVIOUS
<1>2. StepDownCalls(es, st) = (a \o b) \o d
  BY <1>1 DEF StepDownCalls
<1>3. /\ IsSeq(a) /\ InOrder(a)
      /\ \A f \in Elems(a) : f.fn \notin Closes /\ Ends(f) /\ Sound(f)'
      /\ \A e \in Elems(es) : e.c # NoConn /\ e.cmd = "frames" =>
           \E f \in Elems(a) : f.fn = "leaderApplyFramesCb" /\ f.c = e.c /\ f.st \in Failures
  BY <1>1, LostCallbacks
<1>4. /\ IsSeq(b) /\ InOrder(b)
      /\ \A f \in Elems(b) : f.fn \notin Closes /\ Ends(f) /\ Sound(f)'
  BY <1>1, ChangeCbFacts DEF Forgets
<1>5. /\ IsSeq(d) /\ InOrder(d)
      /\ \A f \in Elems(d) : f.fn # "raft_close" /\ Ends(f) /\ Sound(f)'
  BY <1>1, SetStateFacts DEF Forgets
<1>6. IsSeq(a \o b) /\ Elems(a \o b) = Elems(a) \cup Elems(b) /\ InOrder(a \o b)
  BY <1>3, <1>4, ConcatElems, ConcatOrder
<1>7. \A f \in Elems(a \o b) : f.fn \notin Closes
  BY <1>3, <1>4, <1>6
<1>8. /\ IsSeq((a \o b) \o d) /\ Elems((a \o b) \o d) = Elems(a) \cup Elems(b) \cup Elems(d)
      /\ InOrder((a \o b) \o d)
  BY <1>5, <1>6, <1>7, ConcatElems, ConcatOrder
<1>9. "raft_close" \in Closes
  BY Names
<1> QED BY <1>2, <1>3, <1>4, <1>5, <1>8, <1>9 DEF EndsRequests

\* raft forgets all requests, and calls what ends them.
LEMMA LossStep ==
  ASSUME NodeInv, \A f \in Calls : f.fn = "raft_close", Forgets, RaftShape(raft'),
         ClosesRaft => raft'.transfer = NoConn, Unconcerned, acked' = acked,
         NEW s, call' = s, EndsRequests(s),
         \A e \in Entries : e.c # NoConn /\ e.cmd = "frames" =>
           \E f \in Elems(s) : f.fn = "leaderApplyFramesCb" /\ f.c = e.c /\ f.st \in Failures
  PROVE  NodeInv'
<1>1. Calls' = Elems(s)
  BY DEF Calls
<1>2. IsSeq(call') /\ InOrder(call)' /\ AllEnd' /\ \A f \in Calls' : Sound(f)'
  BY <1>1 DEF EndsRequests, AllEnd
<1>3. \A e \in Entries' : e.c = NoConn
  BY DEF Forgets, NoRequests
<1>4. OneEntry'
  BY <1>3 DEF OneEntry, Entries, Elems
<1> QED BY <1>1, <1>2, <1>3, <1>4, RaftStep DEF Forgets, Unconcerned

\* The log without its requests.
LEMMA ForgetsLog ==
  ASSUME NodeInv, NEW es, IsSeq(es), \A e \in Elems(es) : e \in Entries,
         conn' = conn, DOMAIN raft' = DOMAIN raft, raft'.log = Forgotten(es),
         raft'.transfer \in {raft.transfer, NoConn}, raft'.change = NoConn
  PROVE  Forgets /\ RaftShape(raft')
<1>1. RaftShape(raft) /\ \A e \in Elems(es) : EntryShape(e)
  BY DEF NodeInv, Shape, RaftShape, Entries
<1>2. /\ IsSeq(Forgotten(es))
      /\ \A e \in Elems(Forgotten(es)) : EntryShape(e) /\ e.c = NoConn
  BY <1>1, ForgottenFacts
<1> QED BY <1>1, <1>2 DEF RaftShape, Forgets, NoRequests, Entries

LEMMA convertToFollowerInv ==
  ASSUME NodeInv, convertToFollower
  PROVE  NodeInv'
<1>1. /\ call = << >> /\ Unconcerned /\ acked' = acked /\ conn' = conn
      /\ call' = StepDownCalls(raft.log, "follower")
      /\ raft' = [raft EXCEPT !.log = Forgotten(@), !.change = NoConn]
  BY DEF convertToFollower, Event, Waiting, Unconcerned, ghosts
<1>2. Calls = {} /\ ~ClosesRaft /\ RaftShape(raft)
  BY <1>1, IdleFacts
<1>3. PICK l : l = raft.log /\ IsSeq(l) /\ Elems(l) = Entries
  BY <1>2 DEF RaftShape, Entries
<1>4. /\ DOMAIN raft' = DOMAIN raft /\ raft'.transfer = raft.transfer
      /\ raft'.change = NoConn /\ raft'.log = Forgotten(l)
  BY <1>1, <1>2, <1>3 DEF RaftShape
<1>5. Forgets /\ RaftShape(raft')
  BY <1>1, <1>3, <1>4, ForgetsLog
<1>6. PICK s : s = StepDownCalls(l, "follower")
  OBVIOUS
<1>7. /\ EndsRequests(s)
      /\ \A e \in Entries : e.c # NoConn /\ e.cmd = "frames" =>
           \E f \in Elems(s) : f.fn = "leaderApplyFramesCb" /\ f.c = e.c /\ f.st \in Failures
  BY <1>3, <1>5, <1>6, StepDownFacts
<1>8. call' = s
  BY <1>1, <1>3, <1>6
<1> QED BY <1>1, <1>2, <1>5, <1>7, <1>8, LossStep

LEMMA appendLeaderCbInv ==
  ASSUME NodeInv, appendLeaderCb
  PROVE  NodeInv'
<1>1. PICK n \in DOMAIN raft.log :
        /\ call = << >> /\ Unconcerned /\ acked' = acked /\ conn' = conn
        /\ call' = Callbacks(SubSeq(raft.log, n, Len(raft.log)), "ioerr")
                   \o StepDownCalls(SubSeq(raft.log, 1, n - 1), "follower")
        /\ raft' = [raft EXCEPT !.log = Forgotten(SubSeq(@, 1, n - 1)), !.change = NoConn]
  BY DEF appendLeaderCb, Event, Waiting, Unconcerned, ghosts
<1>2. Calls = {} /\ ~ClosesRaft /\ RaftShape(raft)
  BY <1>1, IdleFacts
<1>3. PICK l : l = raft.log /\ IsSeq(l) /\ Elems(l) = Entries /\ Len(l) \in Nat /\ DOMAIN l = 1..Len(l)
  BY <1>2, SeqFacts DEF RaftShape, Entries
<1>4. n \in 1..Len(l) /\ n - 1 \in 0..Len(l) /\ n \in 1..Len(l) + 1 /\ 1 \in 1..Len(l) + 1
      /\ Len(l) \in 0..Len(l) /\ n <= Len(l) + 1 /\ 1 <= (n - 1) + 1
  BY <1>1, <1>3
<1>5. PICK x, y : x = SubSeq(l, n, Len(l)) /\ y = SubSeq(l, 1, n - 1)
  OBVIOUS
<1>6. /\ IsSeq(x) /\ \A e \in Elems(x) : e \in Entries
      /\ \A i \in n..Len(l) : l[i] \in Elems(x)
  BY <1>3, <1>4, <1>5, SubElems
<1>7. /\ IsSeq(y) /\ \A e \in Elems(y) : e \in Entries
      /\ \A i \in 1..(n - 1) : l[i] \in Elems(y)
  BY <1>3, <1>4, <1>5, SubElems
<1>8. \A e \in Entries : e \in Elems(x) \/ e \in Elems(y)
  <2> TAKE e \in Entries
  <2>1. PICK i \in DOMAIN l : l[i] = e
    BY <1>3 DEF Elems
  <2>2. i \in n..Len(l) \/ i \in 1..(n - 1)
    BY <1>3, <1>4
  <2> QED BY <1>6, <1>7, <2>1, <2>2
<1>9. /\ DOMAIN raft' = DOMAIN raft /\ raft'.transfer = raft.transfer
      /\ raft'.change = NoConn /\ raft'.log = Forgotten(y)
  BY <1>1, <1>2, <1>3, <1>5 DEF RaftShape
<1>10. Forgets /\ RaftShape(raft')
  BY <1>1, <1>7, <1>9, ForgetsLog
<1>11. PICK a, b : a = Callbacks(x, "ioerr") /\ b = StepDownCalls(y, "follower")
  OBVIOUS
<1>12. /\ IsSeq(a) /\ InOrder(a)
       /\ \A f \in Elems(a) : f.fn \notin Closes /\ Ends(f) /\ Sound(f)'
       /\ \A e \in Elems(x) : e.c # NoConn /\ e.cmd = "frames" =>
            \E f \in Elems(a) : f.fn = "leaderApplyFramesCb" /\ f.c = e.c /\ f.st \in Failures
  BY <1>6, <1>10, <1>11, LostCallbacks
<1>13. /\ EndsRequests(b)
       /\ \A e \in Elems(y) : e.c # NoConn /\ e.cmd = "frames" =>
            \E f \in Elems(b) : f.fn = "leaderApplyFramesCb" /\ f.c = e.c /\ f.st \in Failures
  BY <1>7, <1>10, <1>11, StepDownFacts
<1>14. PICK s : s = a \o b
  OBVIOUS
<1>15. IsSeq(s) /\ Elems(s) = Elems(a) \cup Elems(b) /\ InOrder(s)
  BY <1>12, <1>13, <1>14, ConcatElems, ConcatOrder DEF EndsRequests
<1>16. "raft_close" \in Closes
  BY Names
<1>17. EndsRequests(s)
  BY <1>12, <1>13, <1>15, <1>16 DEF EndsRequests
<1>18. \A e \in Entries : e.c # NoConn /\ e.cmd = "frames" =>
         \E f \in Elems(s) : f.fn = "leaderApplyFramesCb" /\ f.c = e.c /\ f.st \in Failures
  BY <1>8, <1>12, <1>13, <1>15
<1>19. call' = s
  BY <1>1, <1>3, <1>5, <1>11, <1>14
<1> QED BY <1>1, <1>2, <1>10, <1>17, <1>18, <1>19, LossStep

LEMMA raft_closeInv ==
  ASSUME NodeInv, raft_close
  PROVE  NodeInv'
<1>1. /\ call # << >> /\ Head(call).fn = "raft_close" /\ Unconcerned /\ acked' = acked /\ conn' = conn
      /\ raft' = [raft EXCEPT !.transfer = NoConn, !.change = NoConn, !.log = Forgotten(@)]
  BY DEF raft_close, Enter, Unconcerned, ghosts
<1>2. Tail(call) = << >> /\ \A f \in Calls : f.fn = "raft_close"
  BY <1>1, CallParts
<1>3. RaftShape(raft)
  BY DEF NodeInv, Shape
<1>4. PICK l : l = raft.log /\ IsSeq(l) /\ Elems(l) = Entries
  BY <1>3 DEF RaftShape, Entries
<1>5. /\ DOMAIN raft' = DOMAIN raft /\ raft'.transfer = NoConn
      /\ raft'.change = NoConn /\ raft'.log = Forgotten(l)
  BY <1>1, <1>3, <1>4 DEF RaftShape
<1>6. Forgets /\ RaftShape(raft')
  BY <1>1, <1>4, <1>5, ForgetsLog
<1>7. PICK a : /\ a = IF raft.transfer = NoConn THEN << >>
                      ELSE << Fn("raftTransferCb", raft.transfer, "ok") >>
  OBVIOUS
<1>8. PICK b : /\ b = IF raft.state = "leader" THEN StepDownCalls(l, "unavailable")
                      ELSE << Fn("convertSetState", NoConn, "unavailable") >>
  OBVIOUS
<1>9. call' = (a \o b) \o << >>
  BY <1>2, <1>4, <1>7, <1>8 DEF raft_close, Leave
<1>10. /\ IsSeq(a) /\ InOrder(a)
       /\ \A f \in Elems(a) : f.fn \notin Closes /\ Ends(f) /\ Sound(f)'
  <2>1. CASE raft.transfer = NoConn
    BY <1>7, <2>1, NoneSeq, ShortOrder
  <2>2. CASE raft.transfer # NoConn
    <3>1. PICK f : f = Fn("raftTransferCb", raft.transfer, "ok")
      OBVIOUS
    <3>2. f.fn \in ClusterCbs /\ f.c = raft.transfer /\ a = << f >>
      BY <1>7, <2>2, <3>1, FnFields DEF ClusterCbs
    <3>3. PICK c \in Conn : c = raft.transfer
      BY <1>3, <2>2 DEF RaftShape
    <3>4. Free(c)'
      BY <1>1, <1>5, <3>3, ClusterFree, NodeAssumption
    <3>5. f.c \in Conn /\ Free(f.c)'
      BY <3>2, <3>3, <3>4
    <3>6. f.fn \notin Closes /\ Ends(f) /\ Sound(f)'
      BY <3>2, <3>5, ClusterCbSound
    <3>7. IsSeq(<< f >>) /\ InOrder(<< f >>) /\ Elems(<< f >>) = {f}
      BY OneSeq, ShortOrder
    <3> QED BY <3>2, <3>6, <3>7
  <2> QED BY <2>1, <2>2
<1>11. /\ EndsRequests(b)
       /\ \A e \in Entries : e.c # NoConn /\ e.cmd = "frames" =>
            \E f \in Elems(b) : f.fn = "leaderApplyFramesCb" /\ f.c = e.c /\ f.st \in Failures
  <2>1. CASE raft.state = "leader"
    <3>1. b = StepDownCalls(l, "unavailable")
      BY <1>8, <2>1
    <3> QED BY <1>4, <1>6, <3>1, StepDownFacts
  <2>2. CASE raft.state # "leader"
    <3>1. b = << Fn("convertSetState", NoConn, "unavailable") >>
      BY <1>8, <2>2
    <3>2. EndsRequests(b)
      BY <1>6, <3>1, SetStateFacts DEF EndsRequests, Forgets
    <3>3. \A e \in Entries : e.c = NoConn
      BY <2>2 DEF NodeInv, EntrySound
    <3> QED BY <3>2, <3>3
  <2> QED BY <2>1, <2>2
<1>12. PICK t : t = a \o b
  OBVIOUS
<1>13. IsSeq(t) /\ Elems(t) = Elems(a) \cup Elems(b) /\ InOrder(t)
  BY <1>10, <1>11, <1>12, ConcatElems, ConcatOrder DEF EndsRequests
<1>14. PICK s : s = t \o << >>
  OBVIOUS
<1>15. IsSeq(s) /\ Elems(s) = Elems(t) /\ InOrder(s)
  BY <1>13, <1>14, ConcatElems, ConcatOrder, NoneSeq, ShortOrder
<1>16. "raft_close" \in Closes
  BY Names
<1>17. EndsRequests(s)
  BY <1>10, <1>11, <1>13, <1>15, <1>16 DEF EndsRequests
<1>18. \A e \in Entries : e.c # NoConn /\ e.cmd = "frames" =>
         \E f \in Elems(s) : f.fn = "leaderApplyFramesCb" /\ f.c = e.c /\ f.st \in Failures
  BY <1>11, <1>13, <1>15
<1>19. call' = s
  BY <1>9, <1>12, <1>14
<1> QED BY <1>1, <1>2, <1>5, <1>6, <1>17, <1>18, <1>19, LossStep

LEMMA membershipLeadershipTransferCloseInv ==
  ASSUME NodeInv, membershipLeadershipTransferClose
  PROVE  NodeInv'
<1>1. /\ call = << >> /\ raft.transfer # NoConn /\ Unconcerned /\ acked' = acked /\ conn' = conn
      /\ call' = << Fn("raftTransferCb", raft.transfer, "ok") >>
      /\ raft' = [raft EXCEPT !.transfer = NoConn]
  BY DEF membershipLeadershipTransferClose, Waiting, Unconcerned, ghosts
<1>2. /\ Calls = {} /\ ~ClosesRaft /\ RaftShape(raft) /\ OneEntry
      /\ \A e \in Entries : EntrySound(e)
  BY <1>1, IdleFacts
<1>3. /\ DOMAIN raft' = DOMAIN raft /\ raft'.transfer = NoConn /\ raft'.state = raft.state
      /\ raft'.change = raft.change /\ raft'.log = raft.log
  BY <1>1, <1>2 DEF RaftShape
<1>4. Entries' = Entries /\ RaftShape(raft') /\ OneEntry'
  BY <1>2, <1>3 DEF RaftShape, Entries, OneEntry
<1>5. PICK f : f = Fn("raftTransferCb", raft.transfer, "ok")
  OBVIOUS
<1>6. f.fn \in ClusterCbs /\ f.c = raft.transfer /\ call' = << f >>
  BY <1>1, <1>5, FnFields DEF ClusterCbs
<1>7. PICK c \in Conn : c = raft.transfer
  BY <1>1, <1>2 DEF RaftShape
<1>8. raft'.change # c /\ raft'.transfer # c
  <2>1. ConnSound(c)
    BY DEF NodeInv
  <2> QED BY <1>3, <1>7, <2>1, NodeAssumption DEF ConnSound
<1>9. Free(c)'
  BY <1>1, <1>7, <1>8, ClusterFree
<1>10. f.c \in Conn /\ Free(f.c)'
  BY <1>6, <1>7, <1>9
<1>11. f.fn \notin Closes /\ Ends(f) /\ Sound(f)'
  BY <1>6, <1>10, ClusterCbSound
<1>12. IsSeq(<< f >>) /\ InOrder(<< f >>) /\ Elems(<< f >>) = {f} /\ Len(<< f >>) = 1
  BY OneSeq, ShortOrder
<1>13. Calls' = {f} /\ IsSeq(call') /\ InOrder(call)' /\ AllEnd'
  BY <1>6, <1>12 DEF Calls, AllEnd
<1>14. \A x \in Entries' : x.c # NoConn => x \in Entries /\ raft'.state = "leader"
  BY <1>2, <1>3, <1>4 DEF EntrySound
<1> QED BY <1>1, <1>2, <1>3, <1>4, <1>11, <1>13, <1>14, RaftStep DEF Unconcerned

---------------------------------------------------------------------------
(* The state machine *)

\* An entry was applied: its callback is called, and the later entries are left.
LEMMA AppliedStep ==
  ASSUME NodeInv, call = << >>, raft.log # << >>, NEW e, e = Head(raft.log),
         conn' = conn, scenario' = scenario, acked' = acked, applied \subseteq applied',
         e.cmd = "frames" => e.val \in applied',
         raft' = [raft EXCEPT !.log = Tail(@)], call' = Callback(e, "ok")
  PROVE  NodeInv'
<1>1. /\ Calls = {} /\ ~ClosesRaft /\ RaftShape(raft) /\ OneEntry
      /\ \A x \in Entries : EntryShape(x) /\ EntrySound(x)
      /\ \A c \in Conn : ConnSound(c) /\ (~Free(c) => conn[c].io = "handling")
  BY IdleFacts
<1>2. PICK l : l = raft.log /\ IsSeq(l) /\ Elems(l) = Entries /\ l # << >>
  BY <1>1 DEF RaftShape, Entries
<1>3. PICK t : t = Tail(l)
  OBVIOUS
<1>4. /\ DOMAIN raft' = DOMAIN raft /\ raft'.transfer = raft.transfer /\ raft'.state = raft.state
      /\ raft'.change = raft.change /\ raft'.log = t
  BY <1>1, <1>2, <1>3 DEF RaftShape
<1>5. /\ Entries = {e} \cup Elems(t) /\ IsSeq(t) /\ Entries' = Elems(t)
      /\ \A i \in DOMAIN t : i + 1 \in DOMAIN l /\ t[i] = l[i + 1]
      /\ l[1] = e /\ 1 \in DOMAIN l /\ \A i \in DOMAIN t : i \in Nat \ {0}
  <2>1. Len(l) \in Nat /\ DOMAIN l = 1..Len(l) /\ Head(l) = l[1]
    BY <1>2, SeqFacts
  <2>2. Len(l) # 0
    BY <1>2, <2>1, SeqFacts
  <2>3. Len(t) \in Nat /\ DOMAIN t = 1..Len(t)
    BY <1>2, <1>3, HeadTail, SeqFacts
  <2>4. 1 \in DOMAIN l /\ \A i \in DOMAIN t : i \in Nat \ {0}
    BY <2>1, <2>2, <2>3
  <2> QED BY <1>2, <1>3, <1>4, <2>1, <2>4, HeadTail DEF Entries
<1>6. RaftShape(raft')
  BY <1>1, <1>2, <1>4, <1>5 DEF RaftShape, Entries
<1>7. OneEntry'
  <2>1. \A j, k \in DOMAIN l : l[j].c = l[k].c /\ l[j].c # NoConn => j = k
    BY <1>1, <1>2 DEF OneEntry
  <2> SUFFICES ASSUME NEW j \in DOMAIN t, NEW k \in DOMAIN t, t[j].c = t[k].c, t[j].c # NoConn
               PROVE  j = k
    BY <1>4 DEF OneEntry
  <2>2. j + 1 = k + 1
    BY <1>5, <2>1
  <2> QED BY <1>5, <2>2
<1>8. e.c # NoConn => \A x \in Elems(t) : x.c # e.c
  <2> SUFFICES ASSUME e.c # NoConn, NEW i \in DOMAIN t, t[i].c = e.c
               PROVE  FALSE
    BY DEF Elems
  <2>1. \A j, k \in DOMAIN l : l[j].c = l[k].c /\ l[j].c # NoConn => j = k
    BY <1>1, <1>2 DEF OneEntry
  <2>2. i + 1 = 1
    BY <1>5, <2>1
  <2> QED BY <1>5, <2>2
<1>9. \A x \in Entries' : x.c # NoConn => x \in Entries /\ raft'.state = "leader"
  BY <1>1, <1>4, <1>5 DEF EntrySound
<1>10. IsSeq(call') /\ InOrder(call)' /\ AllEnd' /\ \A f \in Calls' : Sound(f)'
  <2>1. CASE e.c = NoConn
    <3>1. IsSeq(call') /\ Elems(call') = {}
      BY <2>1, CallbackFacts
    <3>2. call' = << >>
      BY <3>1, EmptyElems
    <3> QED BY <3>1, <3>2, ShortOrder, NoneSeq DEF Calls, AllEnd
  <2>2. CASE e.c # NoConn
    <3>1. PICK f : /\ call' = << f >> /\ f.fn \in Fires /\ f.c = e.c /\ f.st = "ok"
                   /\ f.fn = "leaderApplyFramesCb" <=> e.cmd = "frames"
                   /\ f.fn = "raftBarrierCb" <=> e.cmd = "gbarrier"
      BY <2>2, CallbackFacts
    <3>2. IsSeq(<< f >>) /\ InOrder(<< f >>) /\ Elems(<< f >>) = {f} /\ Len(<< f >>) = 1
      BY OneSeq, ShortOrder
    <3>3. e \in Entries /\ EntryShape(e) /\ EntrySound(e)
      BY <1>1, <1>5
    <3>4. PICK c \in Conn : c = e.c
      BY <2>2, <3>3 DEF EntryShape
    <3>5. ConnSound(c) /\ (~Free(c) => conn[c].io = "handling")
      BY <1>1
    <3>6. /\ e.cmd = "frames" => conn[c].inflight
          /\ e.cmd = "gbarrier" => conn[c].gbar # "none"
          /\ e.cmd \notin {"frames", "gbarrier"} => conn[c].ebar # "none"
      BY <1>1, <2>2, <3>3, <3>4 DEF EntrySound
    <3>7. conn[c].gbar # "none" \/ conn[c].ebar # "none" \/ conn[c].inflight
      BY <3>6
    <3>8. conn[c].io = "handling" /\ conn[c].req # "none" /\ conn[c].d # NoDb
      BY <3>5, <3>7 DEF ConnSound, Free
    <3>9. f.fn \notin Closes /\ f.fn \notin Runs
      BY <3>1, Names
    <3>10. f.fn = "leaderApplyFramesCb" =>
             /\ conn[c].gbar = "none" /\ conn[c].ebar = "none"
             /\ raft.transfer # c /\ raft.change # c
      BY <3>1, <3>5, <3>6 DEF ConnSound
    <3>11. \A x \in Entries' : ~Frames(x, c) /\ ~GBarrier(x, c) /\ ~EBarrier(x, c)
      BY <1>5, <1>8, <2>2, <3>4 DEF Frames, GBarrier, EBarrier
    <3>12. f.fn \notin LeaderCloses /\ f.fn \notin {"conn__stop", "gateway__leader_close", "convertSetState", "raft_close"}
      BY <3>9, Names
    <3>13. Sound(f)'
      BY <1>4, <3>1, <3>4, <3>8, <3>9, <3>10, <3>11, <3>12 DEF Sound
    <3>14. PICK q : q = << f >>
      OBVIOUS
    <3>15. IsSeq(q) /\ InOrder(q) /\ Elems(q) = {f} /\ Len(q) = 1 /\ call' = q
      BY <3>1, <3>2, <3>14
    <3>16. Calls' = {f} /\ IsSeq(call') /\ InOrder(call)'
      BY <3>15 DEF Calls
    <3>17. AllEnd'
      <4>1. Len(q) <= 1
        BY <3>15
      <4>2. Len(call') <= 1
        BY <3>15, <4>1, Zenon
      <4> QED BY <4>2 DEF AllEnd
    <3> QED BY <3>13, <3>16, <3>17
  <2> QED BY <2>1, <2>2
<1>11. \A x \in Entries : x.c # NoConn /\ x.cmd = "frames" => x \in Entries' \/ x.val \in applied'
  BY <1>5
<1> QED BY <1>1, <1>4, <1>6, <1>7, <1>9, <1>10, <1>11, RaftStep

\* A leader that is not in a configuration that it applies forgets all requests but
\* the change.
LEMMA RemovedStep ==
  ASSUME NodeInv, call = << >>, NEW t, IsSeq(t), NEW e, Entries = {e} \cup Elems(t),
         e.cmd = "remove", conn' = conn, Unconcerned, acked' = acked, NEW s,
         s = Callbacks(t, "lost") \o << Fn("convertSetState", NoConn, "follower") >> \o ChangeCb("ok"),
         call' = s, raft' = [raft EXCEPT !.log = Forgotten(t), !.change = NoConn]
  PROVE  NodeInv'
<1>1. Calls = {} /\ ~ClosesRaft /\ RaftShape(raft)
  BY IdleFacts
<1>2. /\ DOMAIN raft' = DOMAIN raft /\ raft'.transfer = raft.transfer
      /\ raft'.change = NoConn /\ raft'.log = Forgotten(t)
  BY <1>1 DEF RaftShape
<1>3. Forgets /\ RaftShape(raft')
  BY <1>2, ForgetsLog
<1>4. PICK a, b, d : /\ a = Callbacks(t, "lost") /\ d = ChangeCb("ok")
                     /\ b = << Fn("convertSetState", NoConn, "follower") >>
  OBVIOUS
<1>5. s = (a \o b) \o d
  BY <1>4
<1>6. /\ IsSeq(a) /\ InOrder(a)
      /\ \A f \in Elems(a) : f.fn \notin Closes /\ Ends(f) /\ Sound(f)'
      /\ \A x \in Elems(t) : x.c # NoConn /\ x.cmd = "frames" =>
           \E f \in Elems(a) : f.fn = "leaderApplyFramesCb" /\ f.c = x.c /\ f.st \in Failures
  BY <1>3, <1>4, LostCallbacks
<1>7. /\ IsSeq(b) /\ InOrder(b)
      /\ \A f \in Elems(b) : f.fn # "raft_close" /\ Ends(f) /\ Sound(f)'
  BY <1>3, <1>4, SetStateFacts DEF Forgets
<1>8. /\ IsSeq(d) /\ InOrder(d)
      /\ \A f \in Elems(d) : f.fn \in ClusterCbs /\ f.fn \notin Closes /\ Ends(f) /\ Sound(f)'
  BY <1>3, <1>4, ChangeCbFacts DEF Forgets
<1>9. "raft_close" \in Closes
  BY Names
<1>10. IsSeq(a \o b) /\ Elems(a \o b) = Elems(a) \cup Elems(b) /\ InOrder(a \o b)
  BY <1>6, <1>7, ConcatElems, ConcatOrder
<1>11. \A f \in Elems(a \o b) : f.fn # "raft_close" /\ \A g \in Elems(d) : g.fn \in Closes \cup ClusterCbs
  BY <1>6, <1>7, <1>8, <1>9, <1>10
<1>12. IsSeq(s) /\ Elems(s) = Elems(a) \cup Elems(b) \cup Elems(d) /\ InOrder(s)
  <2>1. PICK ab : ab = a \o b
    OBVIOUS
  <2>2. IsSeq(ab) /\ InOrder(ab) /\ Elems(ab) = Elems(a) \cup Elems(b) /\ s = ab \o d
    BY <1>5, <1>10, <2>1
  <2>3. \A f \in Elems(ab) : f.fn # "raft_close" /\ \A g \in Elems(d) : g.fn \in Closes \cup ClusterCbs
    BY <1>11, <2>1
  <2>4. IsSeq(d) /\ InOrder(d)
    BY <1>8
  <2>5. InOrder(ab \o d)
    BY <2>2, <2>3, <2>4, ConcatOrder
  <2>6. IsSeq(ab \o d) /\ Elems(ab \o d) = Elems(ab) \cup Elems(d)
    BY <2>2, <2>4, ConcatElems
  <2> QED BY <2>2, <2>5, <2>6
<1>13. EndsRequests(s)
  BY <1>6, <1>7, <1>8, <1>9, <1>12 DEF EndsRequests
<1>14. \A x \in Entries : x.c # NoConn /\ x.cmd = "frames" =>
         \E f \in Elems(s) : f.fn = "leaderApplyFramesCb" /\ f.c = x.c /\ f.st \in Failures
  BY <1>6, <1>12
<1> QED BY <1>1, <1>3, <1>13, <1>14, LossStep

\* A configuration that is applied, by a server that stays what it is.
LEMMA ChangedStep ==
  ASSUME NodeInv, call = << >>, NEW t, IsSeq(t), NEW e, Entries = {e} \cup Elems(t),
         e.cmd \in {"change", "remove"}, conn' = conn, Unconcerned, acked' = acked,
         call' = IF raft.state # "leader" THEN << >> ELSE ChangeCb("ok"),
         OneEntry', DOMAIN raft' = DOMAIN raft, raft'.state = raft.state,
         raft'.transfer = raft.transfer, raft'.change = NoConn,
         raft'.log = t \/ (raft.state # "leader" /\ raft'.log = Forgotten(t))
  PROVE  NodeInv'
<1>1. /\ Calls = {} /\ ~ClosesRaft /\ RaftShape(raft)
      /\ \A x \in Entries : EntryShape(x) /\ EntrySound(x)
  BY IdleFacts
<1>2. /\ IsSeq(Forgotten(t))
      /\ \A x \in Elems(Forgotten(t)) : EntryShape(x) /\ x.c = NoConn
  BY <1>1, ForgottenFacts
<1>3. IsSeq(raft'.log) /\ \A x \in Entries' : EntryShape(x) /\ (x \in Elems(t) \/ x.c = NoConn)
  BY <1>1, <1>2 DEF Entries
<1>4. RaftShape(raft')
  BY <1>1, <1>3 DEF RaftShape, Entries
<1>5. \A x \in Entries' : x.c # NoConn => x \in Entries /\ raft'.state = "leader"
  BY <1>1, <1>3 DEF EntrySound
<1>6. \A x \in Entries : x.c # NoConn /\ x.cmd = "frames" => x \in Entries'
  <2> SUFFICES ASSUME NEW x \in Entries, x.c # NoConn, x.cmd = "frames" PROVE x \in Entries'
    OBVIOUS
  <2>1. raft.state = "leader" /\ x \in Elems(t)
    BY <1>1 DEF EntrySound
  <2> QED BY <2>1 DEF Entries
<1>7. IsSeq(call') /\ InOrder(call)' /\ AllEnd' /\ \A f \in Calls' : Sound(f)'
  <2>1. CASE raft.state # "leader"
    <3>1. call' = << >>
      BY <2>1
    <3> QED BY <3>1, ShortOrder, NoneSeq DEF Calls, AllEnd
  <2>2. CASE raft.state = "leader"
    <3>1. PICK d : d = ChangeCb("ok")
      OBVIOUS
    <3>2. /\ IsSeq(d) /\ InOrder(d)
          /\ \A f \in Elems(d) : Ends(f) /\ Sound(f)'
      BY <3>1, ChangeCbFacts
    <3>3. call' = d
      BY <2>2, <3>1
    <3> QED BY <3>2, <3>3 DEF Calls, AllEnd
  <2> QED BY <2>1, <2>2
<1> QED BY <1>1, <1>4, <1>5, <1>6, <1>7, RaftStep DEF Unconcerned

LEMMA replicationApplyInv ==
  ASSUME NodeInv, replicationApply
  PROVE  NodeInv'
<1>1. /\ call = << >> /\ raft.log # << >> /\ conn' = conn /\ scenario' = scenario /\ acked' = acked
  BY DEF replicationApply, Waiting
<1>2. PICK e : e = Head(raft.log)
  OBVIOUS
<1>3. CASE applyCommand(e)
  <2>1. /\ raft' = [raft EXCEPT !.log = Tail(@)] /\ call' = Callback(e, "ok")
        /\ applied \subseteq applied' /\ e.val \in applied'
    BY <1>3 DEF applyCommand
  <2> QED BY <1>1, <1>2, <2>1, AppliedStep
<1>4. CASE applyBarrier(e)
  <2>1. /\ raft' = [raft EXCEPT !.log = Tail(@)] /\ call' = Callback(e, "ok")
        /\ applied \subseteq applied' /\ e.cmd # "frames"
    BY <1>4 DEF applyBarrier
  <2> QED BY <1>1, <1>2, <2>1, AppliedStep
<1>5. CASE applyChange(e)
  <2>1. RaftShape(raft) /\ OneEntry
    BY <1>1, IdleFacts
  <2>2. PICK l : l = raft.log /\ IsSeq(l) /\ Elems(l) = Entries /\ l # << >>
    BY <1>1, <2>1 DEF RaftShape, Entries
  <2>3. PICK t : t = Tail(l)
    OBVIOUS
  <2>4. IsSeq(t) /\ Entries = {e} \cup Elems(t)
    BY <1>2, <2>2, <2>3, HeadTail
  <2>5. /\ e.cmd \in {"change", "remove"} /\ Unconcerned
        /\ call' = IF raft.state # "leader" THEN << >>
                   ELSE IF e.cmd = "change" THEN ChangeCb("ok")
                   ELSE Callbacks(t, "lost")
                        \o << Fn("convertSetState", NoConn, "follower") >> \o ChangeCb("ok")
        /\ raft' = [raft EXCEPT !.log = IF e.cmd = "change" THEN t ELSE Forgotten(t),
                                !.change = NoConn]
    BY <1>1, <1>5, <2>2, <2>3 DEF applyChange, Unconcerned
  <2>6. CASE raft.state = "leader" /\ e.cmd = "remove"
    <3>1. PICK s : s = Callbacks(t, "lost")
                       \o << Fn("convertSetState", NoConn, "follower") >> \o ChangeCb("ok")
      OBVIOUS
    <3>2. call' = s /\ raft' = [raft EXCEPT !.log = Forgotten(t), !.change = NoConn]
      BY <2>5, <2>6, <3>1
    <3> QED BY <1>1, <2>4, <2>5, <2>6, <3>1, <3>2, RemovedStep
  <2>7. CASE raft.state # "leader" \/ e.cmd # "remove"
    <3>1. call' = IF raft.state # "leader" THEN << >> ELSE ChangeCb("ok")
      BY <2>5, <2>7
    <3>2. /\ DOMAIN raft' = DOMAIN raft /\ raft'.state = raft.state
          /\ raft'.transfer = raft.transfer /\ raft'.change = NoConn
          /\ raft'.log = IF e.cmd = "change" THEN t ELSE Forgotten(t)
      BY <2>1, <2>5 DEF RaftShape
    <3>3. raft'.log = t \/ (raft.state # "leader" /\ raft'.log = Forgotten(t))
      BY <2>5, <2>7, <3>2
    <3>4. OneEntry'
      <4>1. CASE raft'.log = t
        <5>1. \A j, k \in DOMAIN l : l[j].c = l[k].c /\ l[j].c # NoConn => j = k
          BY <2>1, <2>2 DEF OneEntry
        <5>2. /\ \A i \in DOMAIN t : i + 1 \in DOMAIN l /\ t[i] = l[i + 1]
              /\ Len(t) \in Nat /\ DOMAIN t = 1..Len(t)
          BY <2>2, <2>3, HeadTail, SeqFacts
        <5> SUFFICES ASSUME NEW j \in DOMAIN t, NEW k \in DOMAIN t, t[j].c = t[k].c, t[j].c # NoConn
                     PROVE  j = k
          BY <4>1 DEF OneEntry
        <5>3. j + 1 = k + 1
          BY <5>1, <5>2
        <5> QED BY <5>2, <5>3
      <4>2. CASE raft'.log = Forgotten(t)
        <5>1. \A x \in Elems(t) : EntryShape(x)
          BY <2>1, <2>2, <2>4 DEF RaftShape
        <5>2. \A x \in Elems(Forgotten(t)) : x.c = NoConn
          BY <2>4, <5>1, ForgottenFacts
        <5> QED BY <4>2, <5>2 DEF OneEntry, Elems
      <4> QED BY <3>3, <4>1, <4>2
    <3> QED BY <1>1, <2>4, <2>5, <3>1, <3>2, <3>3, <3>4, ChangedStep
  <2> QED BY <2>5, <2>6, <2>7
<1> QED BY <1>2, <1>3, <1>4, <1>5 DEF replicationApply

---------------------------------------------------------------------------
(* Stopping, and the new state *)

\* All connections are to be closed, and then raft.
LEMMA stopCbInv ==
  ASSUME NodeInv, stopCb
  PROVE  NodeInv'
<1>1. /\ call = << >> /\ Unconcerned /\ acked' = acked /\ conn' = conn /\ raft' = raft
      /\ call' = ForAll("conn__stop", "ok") \o << Fn("raft_close", NoConn, "ok") >>
  BY DEF stopCb, Event, Waiting, Unconcerned, ghosts
<1>2. /\ Calls = {} /\ ~ClosesRaft /\ RaftShape(raft) /\ OneEntry
      /\ \A e \in Entries : EntrySound(e)
  BY <1>1, IdleFacts
<1>3. PICK g : g = Fn("raft_close", NoConn, "ok")
  OBVIOUS
<1>4. PICK a, b : a = ForAll("conn__stop", "ok") /\ b = << g >>
  OBVIOUS
<1>5. IsSeq(a) /\ \A f \in Elems(a) : f.fn = "conn__stop" /\ f.c \in Conn
  BY <1>4, ForAllFacts
<1>6. g.fn = "raft_close" /\ IsSeq(b) /\ InOrder(b) /\ Elems(b) = {g}
  BY <1>3, <1>4, FnFields, OneSeq, ShortOrder
<1>7. "conn__stop" \in Closes /\ "raft_close" \in Closes /\ "conn__stop" # "raft_close"
  BY Names
<1>8. InOrder(a)
  BY <1>5, <1>7, ClosedOrder
<1>9. \A f \in Elems(a) : f.fn # "raft_close" /\ \A x \in Elems(b) : x.fn \in Closes \cup ClusterCbs
  BY <1>5, <1>6, <1>7
<1>10. PICK s : s = a \o b
  OBVIOUS
<1>11. IsSeq(s) /\ Elems(s) = Elems(a) \cup Elems(b)
  BY <1>5, <1>6, <1>10, ConcatElems
<1>12. InOrder(s)
  BY <1>5, <1>6, <1>8, <1>9, <1>10, ConcatOrder
<1>13. call' = s
  BY <1>1, <1>3, <1>4, <1>10
<1>14. Calls' = Elems(a) \cup {g} /\ IsSeq(call') /\ InOrder(call)'
  BY <1>6, <1>11, <1>12, <1>13 DEF Calls
<1>15. ClosesRaft'
  BY <1>6, <1>14 DEF ClosesRaft
<1>16. ASSUME NEW f \in Calls' PROVE Ends(f) /\ Sound(f)'
  <2>1. f.fn \in {"conn__stop", "raft_close"} /\ (f.fn = "conn__stop" => f.c \in Conn)
    BY <1>5, <1>6, <1>14
  <2>2. f.fn \in Closes /\ f.fn \notin Runs /\ f.fn \notin Fires /\ f.fn \notin LeaderCloses
    BY <2>1, Names
  <2>3. f.fn \notin Resumed
    BY <2>2, Names
  <2>4. f.fn \notin {"leaderApplyFramesCb", "raftBarrierCb", "raftBarrierCbExec", "gateway__leader_close", "convertSetState"}
    BY <2>1
  <2>5. Ends(f)
    BY <2>2 DEF Ends
  <2> QED BY <1>15, <2>1, <2>2, <2>3, <2>4, <2>5 DEF Sound
<1>17. AllEnd'
  BY <1>16 DEF AllEnd
<1>18. Entries' = Entries /\ RaftShape(raft') /\ OneEntry'
  BY <1>1, <1>2 DEF Entries, OneEntry
<1>19. \A x \in Entries' : x.c # NoConn => x \in Entries /\ raft'.state = "leader"
  BY <1>1, <1>2, <1>18 DEF EntrySound
<1> QED BY <1>1, <1>2, <1>14, <1>16, <1>17, <1>18, <1>19, RaftStep DEF Unconcerned

LEMMA convertSetStateInv ==
  ASSUME NodeInv, convertSetState
  PROVE  NodeInv'
<1>1. /\ call # << >> /\ Head(call).fn = "convertSetState" /\ Unconcerned /\ acked' = acked /\ conn' = conn
      /\ raft' = [raft EXCEPT !.state = status]
  BY DEF convertSetState, Enter, Unconcerned, ghosts
<1>2. /\ Calls = {Head(call)} \cup Later /\ Sound(Head(call)) /\ \A f \in Later : Sound(f)
      /\ RaftShape(raft) /\ OneEntry /\ acked \subseteq applied
      /\ Shape /\ \A c \in Conn : ConnSound(c) /\ ValsSound(c)
  BY <1>1, CallParts DEF NodeInv, Shape
<1>3. /\ DOMAIN raft' = DOMAIN raft /\ raft'.transfer = raft.transfer
      /\ raft'.change = raft.change /\ raft'.log = raft.log
  BY <1>1, <1>2 DEF RaftShape
<1>4. Entries' = Entries /\ RaftShape(raft') /\ OneEntry' /\ NoRequests /\ NoRequests'
  BY <1>1, <1>2, <1>3 DEF RaftShape, Entries, OneEntry, Sound, NoRequests
<1>5. PICK fns : fns = IF raft.state = "leader" THEN ForAll("gateway__leader_close", "lost") ELSE << >>
  OBVIOUS
<1>6. Leave(fns)
  BY <1>5 DEF convertSetState
<1>7. IsSeq(fns) /\ \A f \in Elems(fns) : f.fn = "gateway__leader_close" /\ f.c \in Conn /\ f.st = "lost"
  BY <1>5, NoneSeq, ForAllFacts
<1>8. \A f \in Elems(fns) : f.fn \in Closes /\ f.fn # "raft_close" /\ Ends(f)
  BY <1>7, Names DEF Ends
<1>9. InOrder(fns)
  BY <1>7, <1>8, ClosedOrder
<1>10. Head(call).fn \in Closes /\ Ends(Head(call))
  BY <1>1, Names DEF Ends
<1>11. IsSeq(call)' /\ InOrder(call)' /\ AllEnd' /\ Calls' = Elems(fns) \cup Later
  BY <1>1, <1>6, <1>7, <1>8, <1>9, <1>10, Leaves
<1>12. ClosesRaft => ClosesRaft'
  BY <1>1, <1>2, <1>11 DEF ClosesRaft
<1>13. \A fn, c : fn # "convertSetState" /\ InCall(fn, c) => InCall(fn, c)'
  BY <1>1, <1>2, <1>11 DEF InCall
<1>14. \A c : Free(c)' <=> Free(c)
  BY <1>1, <1>3 DEF Free
<1>15. \A c : WaitsFired(c) => WaitsFired(c)'
  BY <1>1, <1>13 DEF WaitsFired
<1>16. \A c : Doomed(c) => Doomed(c)'
  <2> SUFFICES ASSUME NEW c, Doomed(c) PROVE Doomed(c)'
    OBVIOUS
  <2>1. PICK f \in Calls : f.c = c /\ IsDoom(f)
    BY DEF Doomed, IsDoom
  <2>2. f.fn \notin {"convertSetState"}
    BY <2>1 DEF IsDoom, ExecCbs
  <2>3. f \in Calls'
    BY <1>1, <1>2, <1>11, <2>2
  <2> QED BY <2>1, <2>3 DEF Doomed, IsDoom
<1>17. ASSUME NEW f \in Later PROVE Sound(f)'
  <2>1. Sound(f)
    BY <1>2
  <2> QED BY <1>1, <1>3, <1>4, <1>12, <1>14, <1>15, <2>1 DEF Sound
<1>18. ASSUME NEW f \in Elems(fns) PROVE Sound(f)'
  <2>1. f.fn = "gateway__leader_close" /\ f.c \in Conn /\ f.st = "lost"
    BY <1>7
  <2>2. f.fn \in Closes /\ f.fn \notin Runs /\ f.fn \notin Fires /\ f.fn \notin LeaderCloses /\ f.fn \notin Resumed
    BY <2>1, Names
  <2> QED BY <1>4, <2>1, <2>2 DEF Sound
<1>19. ASSUME NEW c \in Conn PROVE ConnSound(c)' /\ ValsSound(c)'
  <2>1. ConnSound(c) /\ ValsSound(c)
    BY <1>2
  <2>2. ConnSound(c)'
    BY <1>1, <1>3, <1>12, <1>13, <1>14, <1>15, <2>1 DEF ConnSound
  <2>3. ValsSound(c)'
    BY <1>1, <1>4, <1>16, <2>1 DEF ValsSound, Frames, Unconcerned
  <2> QED BY <2>2, <2>3
<1>20. \A e \in Entries' : EntrySound(e)'
  BY <1>4 DEF EntrySound, NoRequests
<1>21. Shape'
  BY <1>1, <1>2, <1>4, <1>11 DEF Shape, Unconcerned
<1>22. \A f \in Calls' : Sound(f)'
  BY <1>11, <1>17, <1>18
<1>23. acked' \subseteq applied'
  BY <1>1, <1>2 DEF Unconcerned
<1> QED BY <1>4, <1>11, <1>19, <1>20, <1>21, <1>22, <1>23 DEF NodeInv

---------------------------------------------------------------------------
(* The theorems *)

LEMMA InitInv ==
  ASSUME Init
  PROVE  NodeInv
<1>1. /\ scenario \in DOMAIN Scenarios /\ call = << >> /\ conn = [c \in Conn |-> ConnInit]
      /\ raft = [state |-> "follower", log |-> << >>, transfer |-> NoConn, change |-> NoConn]
      /\ acked = {}
  BY DEF Init
<1>2. Calls = {} /\ Entries = {} /\ IsSeq(call) /\ InOrder(call) /\ AllEnd
  BY <1>1, NoneSeq, ShortOrder DEF Calls, Entries, AllEnd
<1>3. RaftShape(raft) /\ OneEntry
  BY <1>1, NoneSeq DEF RaftShape, OneEntry
<1>4. ASSUME NEW c \in Conn PROVE ConnShape(conn[c]) /\ ConnSound(c) /\ ValsSound(c)
  <2>1. conn[c] = ConnInit
    BY <1>1
  <2>2. ConnShape(conn[c])
    BY <2>1 DEF ConnInit, ConnShape, ConnFields, ExecCbs
  <2>3. raft.transfer # c /\ raft.change # c
    BY <1>1, NodeAssumption
  <2>4. /\ conn[c].gbar = "none" /\ conn[c].ebar = "none" /\ conn[c].inflight = FALSE
        /\ conn[c].exec = "none" /\ conn[c].io = "none" /\ conn[c].vals = {}
    BY <2>1 DEF ConnInit
  <2> QED BY <2>2, <2>3, <2>4 DEF ConnSound, ValsSound, Free
<1> QED BY <1>1, <1>2, <1>3, <1>4 DEF NodeInv, Shape

\* Functions of the gateway and of its leaders.
LEMMA RunningInv ==
  ASSUME NodeInv, Running
  PROVE  NodeInv'
<1>1. CASE LeaderNext
  BY <1>1, raftBarrierCbInv, raftBarrierCbExecInv, execBarrierCbInv, leaderExecV2Inv,
     leaderApplyFramesCbInv, LeaderClosesInv DEF LeaderNext
<1>2. CASE handle_add \/ handle_promote_or_assign \/ handle_remove
  <2>1. {"handle_add", "handle_promote_or_assign", "handle_remove"} \subseteq RequestTypes
    BY DEF RequestTypes
  <2> QED BY <1>2, <2>1, ChangeRequestInv DEF handle_add, handle_promote_or_assign, handle_remove
<1>3. CASE GatewayNext /\ ~(handle_add \/ handle_promote_or_assign \/ handle_remove)
  <2>1. CASE \/ handle_leader \/ handle_client \/ handle_cluster \/ handle_weight
             \/ handle_dump \/ handle_interrupt \/ handle_finalize
    BY <2>1, PlainAnswers
  <2>2. CASE \/ handle_open \/ handle_prepare \/ prepareBarrierCb \/ handle_exec \/ handle_query
             \/ query_barrier_cb \/ query_batch \/ handle_transfer
    BY <2>2, handle_openInv, handle_prepareInv, prepareBarrierCbInv, handle_execInv,
       handle_queryInv, query_barrier_cbInv, query_batchInv, handle_transferInv
  <2>3. CASE \/ handle_exec_sql \/ execSqlBarrierCb \/ handle_exec_sql_next \/ handle_exec_sql_cb
             \/ handle_query_sql \/ querySqlBarrierCb \/ leaderModifyingQuerySqlCb
    BY <2>3, handle_exec_sqlInv, execSqlBarrierCbInv, handle_exec_sql_nextInv,
       handle_exec_sql_cbInv, handle_query_sqlInv, querySqlBarrierCbInv, leaderModifyingQuerySqlCbInv
  <2>4. CASE \/ leader_exec_cb \/ leaderModifyingQueryCb \/ raftChangeCb \/ raftTransferCb
             \/ gateway__leader_close \/ stmt__registry_close
    BY <2>4, ExecCbInv, ClusterCbInv, gateway__leader_closeInv, LeaderClosesInv
  <2> QED BY <1>3, <2>1, <2>2, <2>3, <2>4 DEF GatewayNext
<1>4. CASE conn__stop \/ convertSetState \/ raft_close
  BY <1>4, conn__stopInv, convertSetStateInv, raft_closeInv
<1> QED BY <1>1, <1>2, <1>3, <1>4 DEF Running

LEMMA StutterInv ==
  ASSUME NodeInv, UNCHANGED vars
  PROVE  NodeInv'
<1>1. /\ scenario' = scenario /\ call' = call /\ raft' = raft /\ conn' = conn
      /\ applied' = applied /\ acked' = acked
  BY DEF vars
<1>2. /\ Calls' = Calls /\ Entries' = Entries /\ (ClosesRaft' <=> ClosesRaft)
      /\ (NoRequests' <=> NoRequests) /\ (AllEnd' <=> AllEnd) /\ (OneEntry' <=> OneEntry)
      /\ (Shape' <=> Shape)
  BY <1>1 DEF Calls, Entries, ClosesRaft, NoRequests, AllEnd, OneEntry, Shape
<1>3. \A fn, c : InCall(fn, c)' <=> InCall(fn, c)
  BY <1>2 DEF InCall
<1>4. \A c : (Free(c)' <=> Free(c)) /\ (WaitsFired(c)' <=> WaitsFired(c)) /\ (Doomed(c)' <=> Doomed(c))
  BY <1>1, <1>2, <1>3 DEF Free, WaitsFired, Doomed
<1>5. \A f : Sound(f) => Sound(f)'
  BY <1>1, <1>2, <1>4 DEF Sound
<1>6. \A c : ConnSound(c) => ConnSound(c)'
  BY <1>1, <1>2, <1>3, <1>4 DEF ConnSound
<1>7. \A c : ValsSound(c) => ValsSound(c)'
  BY <1>1, <1>2, <1>4 DEF ValsSound
<1>8. \A e : EntrySound(e) => EntrySound(e)'
  BY <1>1, <1>2 DEF EntrySound
<1> QED BY <1>1, <1>2, <1>5, <1>6, <1>7, <1>8 DEF NodeInv

LEMMA NextInv ==
  ASSUME NodeInv, [Next]_vars
  PROVE  NodeInv'
<1>1. CASE Running
  BY <1>1, RunningInv
<1>2. CASE Client \/ \E c \in Conn : conn_write_cb(c) \/ closeCb(c)
  <2>1. PICK c \in Conn :
          \/ listenCb(c) \/ read_protocol_cb(c) \/ conn_write_cb(c) \/ closeCb(c) \/ Disconnect(c)
          \/ \E rq \in Given.requests : gateway__handle(c, rq)
    BY <1>2 DEF Client
  <2> QED BY <2>1, ClientInv
<1>3. CASE replicationApply \/ convertToFollower \/ membershipLeadershipTransferClose
  BY <1>3, replicationApplyInv, convertToFollowerInv, membershipLeadershipTransferCloseInv
<1>4. CASE takeSnapshotAsync \/ takeSnapshotCb \/ Wait
  BY <1>4, SnapshotEvents
<1>5. CASE RaftEvent
  BY <1>5, FollowerEvents, SnapshotEvents, appendLeaderCbInv, stopCbInv DEF RaftEvent
<1>6. CASE UNCHANGED vars
  BY <1>6, StutterInv
<1> QED BY <1>1, <1>2, <1>3, <1>4, <1>5, <1>6 DEF Next

LEMMA NodeInvariant == Spec => []NodeInv
<1>1. Init => NodeInv
  BY InitInv
<1>2. NodeInv /\ [Next]_vars => NodeInv'
  BY NextInv
<1> QED BY <1>1, <1>2, PTL DEF Spec

\* A client is told that its request succeeded only when every transaction that the
\* request replicated was applied: not when leadership was lost, a write failed or the
\* server stopped in between, whichever of the callbacks came first
\* (leaderApplyFramesCb, leaderExecDone and the callbacks of the gateway).
THEOREM AckedSafe == Spec => []AckedIsApplied
<1>1. NodeInv => AckedIsApplied
  BY DEF NodeInv, AckedIsApplied
<1> QED BY <1>1, NodeInvariant, PTL

\* When the loop thread waits, raft has no transfer, no change and no entry whose
\* callback belongs to a connection that is freed or about to be freed (conn__stop,
\* gateway__leader_close, closeCb, raft_close).
THEOREM NoDanglingSafe == Spec => []NoDanglingCallback
<1>1. ASSUME NodeInv PROVE NoDanglingCallback
  <2> SUFFICES ASSUME call = << >>, NEW c \in Conn, conn[c].io \in {"none", "closing"}
               PROVE  /\ raft.transfer # c /\ raft.change # c
                      /\ \A i \in DOMAIN raft.log : raft.log[i].c # c
    BY DEF NoDanglingCallback
  <2>1. /\ ~ClosesRaft /\ (~Free(c) => conn[c].io = "handling")
        /\ \A e \in Entries : EntrySound(e)
    BY <1>1, IdleFacts
  <2>2. Free(c)
    BY <2>1
  <2>3. ASSUME NEW i \in DOMAIN raft.log, raft.log[i].c = c PROVE FALSE
    <3>1. PICK e : e = raft.log[i]
      OBVIOUS
    <3>2. e \in Entries /\ EntrySound(e) /\ e.c = c /\ e.c # NoConn
      BY <2>1, <2>3, <3>1, NodeAssumption DEF Entries, Elems
    <3> QED BY <2>1, <2>2, <3>2 DEF EntrySound, Free
  <2> QED BY <2>2, <2>3 DEF Free
<1> QED BY <1>1, NodeInvariant, PTL

=============================================================================
