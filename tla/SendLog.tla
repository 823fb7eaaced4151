------------------------------ MODULE SendLog ------------------------------
(***************************************************************************)
(* One raft server: its in-memory log, the messages that carry entries of  *)
(* the log to its peers, the disk writes of entries, and the connections.  *)
(* Entries are shared: a message or a write refers to the memory of the    *)
(* entries until its callback releases them, whatever happens to the log   *)
(* in the meantime (src/src/raft/replication.c, client.c, raft.c).         *)
(*                                                                         *)
(* The other servers are abstract: a server of a higher term may become    *)
(* leader with any log that agrees with the logs of earlier leaders, and   *)
(* sends any part of it.  Which entries are committed matters only for     *)
(* snapshots, and for what may be truncated.                               *)
(***************************************************************************)
EXTENDS RaftLog, UvTransport

CONSTANTS
    Peer,          \* the other servers that messages are sent to
    Scenarios,     \* how often each kind of event happens, and what is loaded
    Trailing,      \* raft->snapshot.trailing
    MaxTerm, MaxSends    \* bounds

VARIABLES
    l,        \* the log
    u,        \* the connections
    raft,     \* state, term and whether it was its leader, commit index, writes in
              \* flight, snapshot being taken or installed, the peers' addresses
    sends,    \* the messages being sent: [some requests -> index and entries]
    writes,   \* the disk writes in flight, in order
    full,     \* (ghost) the terms of the whole log, from index 1
    leaders,  \* (ghost) the log of the leader of each term
    bound     \* how many events of each kind may still happen

vars == <<l, u, raft, sends, writes, full, leaders, bound>>

May(event) == bound[event] > 0

Count(event) == May(event) /\ bound' = [bound EXCEPT ![event] = @ - 1]

Indices == 1..bound.maxIndex

NewBuf(heap) == CHOOSE m \in 1..(Cardinality(heap) + 1) : m \notin heap

(* raft_start: the entries that were loaded are appended, all of term 1.   *)
(* They were loaded in one batch or one by one.                            *)
restoreEntries(n, batch) ==
    FoldLeft(LAMBDA m, b : logAppend([m EXCEPT !.heap = @ \cup {IF batch THEN 1 ELSE b}],
                                     [term |-> 1, buf |-> b, batch |-> IF batch THEN 1 ELSE b]),
             logStart(logInit, 0, 0, 1), [i \in 1..n |-> i])

Init ==
    /\ bound \in Scenarios
    /\ l = restoreEntries(bound.loaded, bound.batch)
    /\ u = uvInit
    /\ raft = [state |-> "follower", term |-> 1, led |-> FALSE, commit |-> 1, inflight |-> 0,
               pending |-> 0, install |-> 0, address |-> [p \in Peer |-> 1], ok |-> TRUE]
    /\ sends = <<>>
    /\ writes = <<>>
    /\ full = [i \in 1..bound.loaded |-> 1]
    /\ leaders = <<full>>

---------------------------------------------------------------------------
(* Callbacks *)

(* The callbacks a handler of the transport invokes: sendAppendEntriesCb   *)
(* releases the entries of its message; ioCloseCb closes the log.          *)
RunCallback(m, cb) ==
    IF cb.req = CloseCb THEN logClose(m)
    ELSE IF cb.req \notin DOMAIN sends THEN Require(m, FALSE)
    ELSE logRelease(m, sends[cb.req].index, sends[cb.req].entries)

sendAppendEntriesCb(m, cbs) == FoldLeft(RunCallback, m, cbs)

Remaining(s, cbs) ==
    [r \in DOMAIN s \ {cbs[i].req : i \in DOMAIN cbs} |-> s[r]]

(* The state after a handler of the transport that leads to v. *)
Transport(v) ==
    /\ u' = [v EXCEPT !.cbs = <<>>]
    /\ l' = sendAppendEntriesCb(l, v.cbs)
    /\ sends' = Remaining(sends, v.cbs)

---------------------------------------------------------------------------
(* The leader *)

NewReq(s) == CHOOSE r \in 1..(Cardinality(DOMAIN s) + 1) : r \notin DOMAIN s

(* st: a record of log, connections and messages.  The entries from next   *)
(* on are sent; none if next is after the last entry.  (The term and the   *)
(* whole log are ghosts.)                                                  *)
sendAppendEntries(st, p, next, starts) ==
    LET r == NewReq(st.sends)
    IN  [l |-> logAcquire(st.l, next),
         u |-> UvSend(st.u, r, p, raft.address[p], starts),
         sends |-> (r :> [index |-> next, entries |-> Acquired(st.l, next),
                          term |-> raft.term, log |-> st.full]) @@ st.sends]

(* What may be sent to a peer depends on its progress: from any entry      *)
(* whose predecessor the log still knows.                                  *)
Sendable(m, next) ==
    /\ next \in 1..(logLastIndex(m) + 1)
    /\ IF next = 1 THEN m.snap.index = 0 ELSE logTermOf(m, next - 1) # 0

CanSend == Cardinality(DOMAIN sends) < MaxSends

(* A command is appended, its write submitted and the entry sent to one    *)
(* of the peers, or to none that is due.  If the write cannot be submitted *)
(* the entry is removed again, and its memory is the caller's.             *)
raft_apply(p, next, starts) ==
    LET e     == [term |-> raft.term, buf |-> NewBuf(l.heap), batch |-> 0]
        index == logLastIndex(l) + 1
        m     == logAppend([l EXCEPT !.heap = @ \cup {e.buf}], e)
        a     == logAcquire(m, index)
        st    == [l |-> a, u |-> [u EXCEPT !.appends = @ + 1], sends |-> sends,
                  full |-> Append(full, raft.term)]
        sent  == IF next = 0 THEN st ELSE sendAppendEntries(st, p, next, starts)
    IN  /\ raft.state = "leader" /\ index <= bound.maxIndex
        /\ next # 0 => May("send") /\ CanSend /\ Sendable(m, next)
        /\ ~starts => next # 0 /\ May("noStart")
        /\ May("apply")
        /\ bound' = [bound EXCEPT !.apply = @ - 1, !.send = IF next = 0 THEN @ ELSE @ - 1]
        /\ l' = sent.l /\ u' = sent.u /\ sends' = sent.sends
        /\ writes' = Append(writes, [kind |-> "leader", index |-> index,
                                     entries |-> Acquired(m, index)])
        /\ full' = st.full
        /\ UNCHANGED <<raft, leaders>>

raft_applyFails ==
    LET e     == [term |-> raft.term, buf |-> NewBuf(l.heap), batch |-> 0]
        index == logLastIndex(l) + 1
        m     == logAppend([l EXCEPT !.heap = @ \cup {e.buf}], e)
        d     == logDiscard(logRelease(logAcquire(m, index), index, Acquired(m, index)), index)
    IN  /\ raft.state = "leader" /\ index <= bound.maxIndex
        /\ Count("applyFails")
        /\ l' = [d EXCEPT !.heap = @ \ {e.buf}]
        /\ UNCHANGED <<u, raft, sends, writes, full, leaders>>

replicationProgress(p, next, starts) ==
    LET st == sendAppendEntries([l |-> l, u |-> u, sends |-> sends, full |-> full],
                                p, next, starts)
    IN  /\ raft.state = "leader" /\ CanSend /\ Sendable(l, next)
        /\ ~starts => May("noStart")
        /\ Count("send")
        /\ l' = st.l /\ u' = st.u /\ sends' = st.sends
        /\ UNCHANGED <<raft, writes, full, leaders>>

(* A configuration change gives a peer another address. *)
SetAddress(p) ==
    /\ raft.state = "leader"
    /\ Count("address")
    /\ raft' = [raft EXCEPT !.address[p] = @ + 1]
    /\ UNCHANGED <<l, u, sends, writes, full, leaders>>

(* The server wins an election.  A follower does not become a candidate    *)
(* while writes or the installation of a snapshot are in progress.         *)
convertToLeader ==
    /\ raft.state = "follower" /\ raft.inflight = 0 /\ raft.install = 0
    /\ raft.term < MaxTerm
    /\ Count("elect")
    /\ raft' = [raft EXCEPT !.state = "leader", !.term = @ + 1, !.led = TRUE]
    /\ leaders' = Append(leaders, full)
    /\ UNCHANGED <<l, u, sends, writes, full>>

---------------------------------------------------------------------------
(* Disk writes end, in order *)

Trunc(s, index) == SubSeq(s, 1, index - 1)

(* The entries of a write are released; if it failed the log is truncated. *)
Released(st, w, good) ==
    LET m     == logRelease(st.l, w.index, w.entries)
        trunc == ~good /\ w.index <= logLastIndex(m)
    IN  [st EXCEPT !.l = IF trunc THEN logTruncate(m, w.index) ELSE m,
                   !.full = IF trunc /\ logNumEntries(m) > 0 THEN Trunc(@, w.index) ELSE @]

(* A failure deposes the leader. *)
appendLeaderCb(st, w, good) ==
    [Released(st, w, good)
       EXCEPT !.raft.state = IF ~good /\ @ = "leader" THEN "follower" ELSE @]

(* Mutant of appendFollowerCb: the write stays counted as in flight. *)
appendFollowerCbStays(st, w, good) ==
    [Released(st, w, good) EXCEPT !.raft.ok = @ /\ st.raft.state # "leader"]

appendFollowerCb(st, w, good) ==
    LET s == Released(st, w, good)
    IN  IF st.raft.state = "unavailable" THEN s
        ELSE [s EXCEPT !.raft.ok = @ /\ st.raft.state = "follower" /\ st.raft.inflight > 0,
                       !.raft.inflight = @ - 1]

AppendCb(st, w, good) ==
    IF w.kind = "leader" THEN appendLeaderCb(st, w, good) ELSE appendFollowerCb(st, w, good)

AppendCbs(r, ws, good) ==
    FoldLeft(LAMBDA st, w : AppendCb(st, w, good), [l |-> l, raft |-> r, full |-> full], ws)

(* The first n writes end; closing may wait for them.  The segment of the  *)
(* last one is finalized before uvMaybeFireCloseCb is called.              *)
WritesEnd(n, good) ==
    LET st == AppendCbs(raft, SubSeq(writes, 1, n), good)
        v  == uvMaybeFireCloseCb([u EXCEPT !.appends = @ - n])
    IN  /\ u' = [v EXCEPT !.cbs = <<>>]
        /\ l' = sendAppendEntriesCb(st.l, v.cbs)
        /\ full' = st.full /\ raft' = st.raft
        /\ writes' = SubSeq(writes, n + 1, Len(writes))
        /\ UNCHANGED <<sends, leaders>>

WriteCompletes == writes # <<>> /\ WritesEnd(1, TRUE) /\ UNCHANGED bound

(* If a write fails, those after it fail with it. *)
WriteFails == writes # <<>> /\ Count("writeFails") /\ WritesEnd(Len(writes), FALSE)

---------------------------------------------------------------------------
(* The follower: messages of other leaders *)

(* What the other servers may have received of the log of a leader: if it  *)
(* is this server, what was written to a connection, maybe not to the end. *)
OnTheWire == {r \in DOMAIN sends : \E c \in DOMAIN u.clients : Contains(u.clients[c].writes, r)}

KnownLog(term) ==
    LET logs == {leaders[term]} \cup {sends[r].log : r \in {q \in OnTheWire : sends[q].term = term}}
    IN  CHOOSE log \in logs : \A other \in logs : Len(other) <= Len(log)

(* The logs another leader may have in the next term: what it received of  *)
(* an earlier leader, and entries of its own.                              *)
NewLeaderLogs ==
    LET own(n) == [i \in 1..n |-> raft.term + 1]
        known  == UNION {Prefixes(KnownLog(t)) : t \in 1..raft.term}
        logs   == {log \o own(n) : log \in known, n \in 0..bound.maxIndex}
    IN  {log \in logs : /\ Len(log) \in raft.commit..bound.maxIndex
                        /\ SubSeq(log, 1, raft.commit) = SubSeq(full, 1, raft.commit)}

(* A message of a higher term; another server leads, or wants to. *)
bumpCurrentTerm(log) ==
    /\ raft' = [raft EXCEPT !.term = @ + 1, !.led = FALSE,
                            !.state = IF @ = "leader" THEN "follower" ELSE @]
    /\ leaders' = Append(leaders, log)

LeaderLog == leaders[raft.term]

(* The first entry of the message that the log does not have. *)
FirstNew(prev, n) ==
    CHOOSE i \in 1..(n + 1) :
      /\ i <= n => logTermOf(l, prev + i) # LeaderLog[prev + i]
      /\ \A j \in 1..(i - 1) : logTermOf(l, prev + j) = LeaderLog[prev + j]

(* Entries that conflict are removed. *)
deleteConflictingEntries(index) ==
    IF logTermOf(l, index) # 0 THEN logTruncate(l, index) ELSE l

(* A new entry is copied to memory of its own, unless the same entry is    *)
(* still counted.  ok: no entry was put into the wrong slot.               *)
AppendOrReinstate(s, term) ==
    IF CanReinstate(s.l, term)
    THEN [l |-> logReinstate(s.l, term), ok |-> s.ok /\ ~Misplaces(s.l, term)]
    ELSE LET b == NewBuf(s.l.heap)
             e == [term |-> term, buf |-> b, batch |-> 0]
         IN  [s EXCEPT !.l = logAppend([s.l EXCEPT !.heap = @ \cup {b}], e)]

(* The leader's entries prev+1..prev+n arrive.  Unless the scenario says   *)
(* so, the run stops short of misplaced entries.                           *)
replicationAppend(prev, n) ==
    LET index == prev + FirstNew(prev, n)
        s     == FoldLeft(AppendOrReinstate, [l |-> deleteConflictingEntries(index), ok |-> TRUE],
                          SubSeq(LeaderLog, index, prev + n))
    IN  /\ prev # 0 => logTermOf(l, prev) = LeaderLog[prev]
        /\ FirstNew(prev, n) <= n
        /\ s.ok \/ bound.misplaced
        /\ l' = logAcquire(s.l, index)
        /\ writes' = Append(writes, [kind |-> "follower", index |-> index,
                                     entries |-> Acquired(s.l, index)])
        /\ raft' = [raft EXCEPT !.inflight = @ + 1,
                                !.ok = @ /\ Len(Acquired(s.l, index)) = prev + n - index + 1]
        /\ full' = SubSeq(LeaderLog, 1, prev + n)

(* A snapshot that covers index arrives; the log is given up at once. *)
replicationInstallSnapshot(index) ==
    /\ raft.pending = 0 /\ raft.install = 0
    /\ l.snap.index < index
    /\ logTermOf(l, index) = 0 \/ logTermOf(l, index) < LeaderLog[index]
    /\ l' = logRestore(l, index, LeaderLog[index])
    /\ raft' = [raft EXCEPT !.install = index]
    /\ full' = SubSeq(LeaderLog, 1, index)

(* The snapshot is stored after the writes that were submitted before.     *)
installSnapshotCb(good) ==
    /\ raft.install # 0 /\ (writes = <<>> \/ u.closing)
    /\ LET v == uvMaybeFireCloseCb([u EXCEPT !.put = FALSE])
       IN  Transport(v)
    /\ raft' = [raft EXCEPT !.install = 0,
                            !.ok = @ /\ raft.state # "leader",
                            !.commit = IF good /\ raft.state = "follower" THEN raft.install ELSE @]
    /\ UNCHANGED <<writes, full, leaders, bound>>

---------------------------------------------------------------------------
(* Snapshots.  What is committed, and so applied, grows with the snapshot. *)

Committed(i) ==
    IF raft.state = "leader" THEN full[i] = raft.term
    ELSE ~raft.led /\ i <= Len(LeaderLog) /\ SubSeq(LeaderLog, 1, i) = SubSeq(full, 1, i)

(* What is snapshotted is stored.  (A leader may have applied an entry     *)
(* that it has not stored itself.)                                         *)
takeSnapshot(i) ==
    /\ raft.state # "unavailable" /\ raft.pending = 0 /\ raft.install = 0
    /\ i > l.snap.index /\ i >= raft.commit /\ i <= Len(full)
    /\ i > raft.commit => Committed(i)
    /\ \A j \in DOMAIN writes : i < writes[j].index
    /\ Count("snapshot")
    /\ raft' = [raft EXCEPT !.pending = i, !.commit = i]
    /\ u' = [u EXCEPT !.put = TRUE]
    /\ UNCHANGED <<l, sends, writes, full, leaders>>

takeSnapshotCb(good) ==
    /\ raft.pending # 0
    /\ LET v == uvMaybeFireCloseCb([u EXCEPT !.put = FALSE])
           m == IF good THEN logSnapshot(l, raft.pending, Trailing) ELSE l
       IN  /\ u' = [v EXCEPT !.cbs = <<>>]
           /\ l' = sendAppendEntriesCb(m, v.cbs)
    /\ raft' = [raft EXCEPT !.pending = 0]
    /\ UNCHANGED <<sends, writes, full, leaders, bound>>

---------------------------------------------------------------------------
(* Callbacks of libuv: outgoing connections *)

Rest == UNCHANGED <<raft, writes, full, leaders>>

(* A failure counts, unless the handle is being closed anyway. *)
Outcome(event, good, forced) ==
    IF good \/ forced THEN UNCHANGED bound ELSE Count(event)

Resolved(c, good) ==
    /\ u.clients[c].connect.req = "addrinfo"
    /\ Outcome("connectFails", good, u.tcpClosing)
    /\ Transport(uvGetAddrInfoCb(u, c, good))
    /\ Rest

Connected(c, good) ==
    /\ u.clients[c].connect.req = "connect"
    /\ u.clients[c].connect.tcp = "closing" => ~good
    /\ Outcome("connectFails", good, u.clients[c].connect.tcp = "closing")
    /\ Transport(uvTcpConnectUvConnectCb(u, c, good))
    /\ Rest

Handshaken(c, good) ==
    /\ u.clients[c].connect.req = "write"
    /\ Outcome("connectFails", good, u.clients[c].connect.tcp = "closing")
    /\ Transport(uvTcpConnectUvWriteCb(u, c, good))
    /\ Rest

(* The handle of an attempt is closed when no request is left. *)
AttemptClosed(c) ==
    /\ u.clients[c].connect.req = "none"
    /\ \/ /\ u.clients[c].connect.tcp = "closing"
          /\ Transport(uvTcpConnectUvCloseCb(u, c))
       \/ /\ u.clients[c].connect.tcp = "next"
          /\ Transport(uvTcpTryNextConnectCb(u, c))
    /\ UNCHANGED bound
    /\ Rest

(* A write fails by itself, or is cancelled because its stream is closed. *)
WriteStatus(good, closed) ==
    IF good THEN {"ok"} ELSE {"ioerr"} \cup {s \in {"canceled"} : closed}

Written(c, good) ==
    /\ u.clients[c].writes # <<>>
    /\ Outcome("sendFails", good, u.clients[c].oldStream)
    /\ \E status \in WriteStatus(good, u.clients[c].oldStream) :
         Transport(uvSendWriteCb(u, c, status))
    /\ LET m == sends[Head(u.clients[c].writes)]
       IN  leaders' = [leaders EXCEPT ![m.term] = KnownLog(m.term)]
    /\ UNCHANGED <<raft, writes, full>>

(* A stream is closed after the writes were called back. *)
StreamClosed(c, starts) ==
    /\ u.clients[c].oldStream /\ u.clients[c].writes = <<>>
    /\ Outcome("noStart", starts, FALSE)
    /\ Transport(uvClientDisconnectCloseCb(u, c, starts))
    /\ Rest

TimerFired(c, starts) ==
    /\ u.clients[c].timer = "armed"
    /\ Outcome("noStart", starts, FALSE)
    /\ Transport(uvClientTimerCb(u, c, starts))
    /\ Rest

TimerClosed(c) ==
    /\ u.clients[c].timer = "closing"
    /\ Transport(uvClientTimerCloseCb(u, c))
    /\ UNCHANGED bound
    /\ Rest

---------------------------------------------------------------------------
(* Callbacks of libuv: incoming connections *)

Accepted(k) ==
    /\ u.conns[k] = NoIncoming /\ ~u.tcpClosing
    /\ Count("accept")
    /\ Transport(uvTcpListenCb(u, k))
    /\ Rest

(* Part of what is expected was read, all of it, or the peer is gone. *)
ReadHandshake(k, nread) ==
    /\ IF nread = "eof" THEN Count("eof") ELSE UNCHANGED bound
    /\ \/ /\ u.conns[k].phase = "preamble"
          /\ Transport(uvTcpIncomingReadCbPreamble(u, k, nread))
       \/ /\ u.conns[k].phase = "address"
          /\ Transport(uvTcpIncomingReadCbAddress(u, k, nread))
    /\ Rest

(* A chunk of a message that does not complete it. *)
ReadChunk(k, nread, kind) ==
    /\ u.conns[k].phase = "server"
    /\ ~(nread = "all" /\ u.conns[k].s.hlen /\ (u.conns[k].s.plen \/ kind = "none"))
    /\ IF nread = "eof" \/ kind = "bad" THEN Count("eof") ELSE May("recv") /\ UNCHANGED bound
    /\ Transport(uvServerReadCb(u, k, nread, kind))
    /\ Rest

(* The last chunk: the message is handled.  It may lead to disk writes, or *)
(* to the installation of a snapshot.                                      *)
Receives(k, payload, appends, installs) ==
    /\ u.conns[k].phase = "server" /\ u.conns[k].s.hlen
    /\ u.conns[k].s.plen = payload
    /\ Count("recv")
    /\ raft.state # "unavailable"
    /\ u' = [uvServerReadCb(u, k, "all", "none") EXCEPT !.appends = @ + appends,
                                                       !.put = @ \/ installs]
    /\ UNCHANGED sends

(* A message without payload: a vote, a heartbeat or a result. *)
recvMessage(k) ==
    /\ Receives(k, FALSE, 0, FALSE)
    /\ raft.term < MaxTerm
    /\ \E log \in NewLeaderLogs : bumpCurrentTerm(log)
    /\ UNCHANGED <<l, writes, full>>

(* Entries are ignored while a snapshot is being installed. *)
recvAppendEntries(k, prev, n) ==
    /\ Receives(k, TRUE, 1, FALSE)
    /\ raft.state = "follower" /\ ~raft.led /\ raft.install = 0
    /\ prev = 0 => l.offset = 0
    /\ replicationAppend(prev, n)
    /\ UNCHANGED leaders

recvInstallSnapshot(k, index) ==
    /\ Receives(k, TRUE, 0, TRUE)
    /\ raft.state = "follower" /\ ~raft.led
    /\ bound.install
    /\ replicationInstallSnapshot(index)
    /\ UNCHANGED <<writes, leaders>>

IncomingClosed(k) ==
    /\ \/ /\ u.conns[k].phase = "incomingClosing"
          /\ Transport(uvTcpIncomingCloseCb(u, k))
       \/ /\ u.conns[k].phase = "serverClosing"
          /\ Transport(uvServerStreamCloseCb(u, k))
    /\ UNCHANGED bound
    /\ Rest

---------------------------------------------------------------------------
(* The end *)

(* convertToUnavailable, and the close of the I/O backend: writes that     *)
(* were not started, all after the first n, are canceled.                  *)
raft_close(n) ==
    LET off == [raft EXCEPT !.state = "unavailable"]
        st  == AppendCbs(off, SubSeq(writes, n + 1, Len(writes)), FALSE)
    IN  /\ ~u.closing
        /\ Count("close")
        /\ u' = uvClose(u, n)
        /\ l' = st.l /\ raft' = st.raft /\ full' = st.full
        /\ writes' = SubSeq(writes, 1, n)
        /\ UNCHANGED <<sends, leaders>>

ListenerClosed ==
    /\ u.tcpClosing /\ u.listeners > 0
    /\ Transport(uvTcpListenCloseCbListener(u))
    /\ UNCHANGED bound
    /\ Rest

TickClosed ==
    /\ u.closing /\ u.tick
    /\ Transport(uvTickTimerCloseCb(u))
    /\ UNCHANGED bound
    /\ Rest

---------------------------------------------------------------------------
Leads ==
    \/ \E p \in Peer, next \in 0..(bound.maxIndex + 1), starts \in BOOLEAN :
         raft_apply(p, next, starts) \/ replicationProgress(p, next, starts)
    \/ raft_applyFails
    \/ \E p \in Peer : SetAddress(p)
    \/ convertToLeader

Stores ==
    \/ WriteCompletes
    \/ WriteFails
    \/ \E good \in BOOLEAN : takeSnapshotCb(good) \/ installSnapshotCb(good)

Sends ==
    \E c \in DOMAIN u.clients, good \in BOOLEAN :
      \/ Resolved(c, good)
      \/ Connected(c, good)
      \/ Handshaken(c, good)
      \/ AttemptClosed(c)
      \/ Written(c, good)
      \/ StreamClosed(c, good)
      \/ TimerFired(c, good)
      \/ TimerClosed(c)

Reads ==
    \E k \in Conn :
      \/ Accepted(k)
      \/ \E nread \in {"part", "all", "eof"} :
           \/ ReadHandshake(k, nread)
           \/ \E kind \in {"none", "payload", "bad"} : ReadChunk(k, nread, kind)
      \/ recvMessage(k)
      \/ \E prev \in 0..bound.maxIndex, n \in Indices :
           prev + n <= Len(LeaderLog) /\ recvAppendEntries(k, prev, n)
      \/ \E index \in DOMAIN LeaderLog : recvInstallSnapshot(k, index)

Closes == ListenerClosed \/ TickClosed \/ \E k \in Conn : IncomingClosed(k)

(* The loop waits. *)
Wait == UNCHANGED vars

Next ==
    \/ Leads
    \/ Stores
    \/ Sends
    \/ Reads
    \/ \E i \in Indices : takeSnapshot(i)
    \/ \E n \in 0..Len(writes) : raft_close(n)
    \/ Closes
    \/ Wait

(* Something is left to do for libuv: Stores, Sends or Closes can happen. *)
Busy ==
    \/ writes # <<>> \/ raft.pending # 0 \/ raft.install # 0
    \/ \E c \in DOMAIN u.clients :
         \/ u.clients[c].connect.req # "none" \/ u.clients[c].connect.tcp \in {"closing", "next"}
         \/ u.clients[c].writes # <<>> \/ u.clients[c].oldStream
         \/ u.clients[c].timer \in {"armed", "closing"}
    \/ \E k \in Conn : u.conns[k].phase \in {"incomingClosing", "serverClosing"}
    \/ u.closing /\ (u.tick \/ u.listeners > 0)

(* libuv completes requests, fires timers and closes handles: weak fairness *)
(* of Stores \/ Sends \/ Closes, with Busy for what enables it.            *)
Fairness == []<>~Busy \/ []<><<Stores \/ Sends \/ Closes>>_vars

Spec == Init /\ [][Next]_vars /\ Fairness

---------------------------------------------------------------------------
(* Properties *)

(* The state is of its type. *)
SendLogTypeOK ==
    /\ raft.state \in {"follower", "leader", "unavailable"}
    /\ raft.inflight \in Nat /\ u.appends = Len(writes)
    /\ raft.state # "unavailable" => raft.inflight <= Len(writes)
    /\ \A r \in DOMAIN sends : sends[r].index \in 1..(bound.maxIndex + 1)
    /\ l.front \in 0..l.size /\ l.back \in 0..l.size
    /\ u.listeners \in 0..Listeners

(* No assertion of the log, the transport or the raft callbacks fails:     *)
(* no entry is counted twice or looked up in vain, no memory is freed      *)
(* twice, no handle is used in the wrong state, and nothing refers to an   *)
(* entry of the log when it is closed.                                     *)
SendLogNeverAborts == l.ok /\ u.ok /\ raft.ok /\ Coherent(l)

Live == {[index |-> indexAt(l, i), e |-> entryAt(l, i)] : i \in 0..(logNumEntries(l) - 1)}

Holds(h, index, term) ==
    \E j \in DOMAIN h.entries : h.index + j - 1 = index /\ h.entries[j].term = term

(* The reference count of an entry is the number of its holders: the log,  *)
(* messages being sent and disk writes.                                    *)
RefsMatchHolders ==
    \A index \in Indices, term \in 1..MaxTerm :
      LET slots == IF DOMAIN l.refs = {} THEN {} ELSE Slots(l.refs, term, index)
          count == IF slots = {} THEN 0
                   ELSE Bucket(l.refs, index)[CHOOSE i \in slots : TRUE].count
      IN  count = Cardinality({x \in Live : x.index = index /\ x.e.term = term})
                  + Cardinality({r \in DOMAIN sends : Holds(sends[r], index, term)})
                  + Cardinality({i \in DOMAIN writes : Holds(writes[i], index, term)})

Held(h) == {Memory(h.entries[j]) : j \in DOMAIN h.entries}

(* The payload of an entry that someone holds is not freed, and nothing    *)
(* that no one holds is left in memory.                                    *)
PayloadsAlive ==
    l.heap = {Memory(x.e) : x \in Live}
             \cup UNION {Held(sends[r]) : r \in DOMAIN sends}
             \cup UNION {Held(writes[i]) : i \in DOMAIN writes}

(* Whatever was appended, truncated, reinstated, compacted or replaced,    *)
(* the ring buffer holds the log: the entries after offset, each with the  *)
(* payload that was appended under its index and term.                     *)
RingHoldsLog ==
    ~u.closed =>
      /\ logLastIndex(l) = Len(full)
      /\ \A x \in Live :
           /\ x.e.term = full[x.index]
           /\ \A i \in Slots(l.refs, x.e.term, x.index) : Bucket(l.refs, x.index)[i].e = x.e

(* Every message being sent waits in the queue of one client or is being   *)
(* written by one, once: its callback will be invoked, and only once.      *)
SendsAccounted ==
    LET queued(c) == u.clients[c].pending \o u.clients[c].writes
    IN  \A r \in DOMAIN sends :
          Cardinality({<<c, i>> \in (DOMAIN u.clients) \X (1..MaxSends) :
                         i <= Len(queued(c)) /\ queued(c)[i] = r}) = 1

(* When the backend is closed nothing of it is left. *)
ClosedIsQuiet ==
    u.closed => /\ DOMAIN u.clients = {} /\ u.listeners = 0 /\ sends = <<>> /\ writes = <<>>
                /\ \A k \in Conn : u.conns[k] = NoIncoming
                /\ l.heap = {}

(* Closing ends: all requests are called back and all handles closed. *)
CloseCompletes == u.closing ~> u.closed
=============================================================================
