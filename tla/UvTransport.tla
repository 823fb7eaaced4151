---------------------------- MODULE UvTransport ----------------------------
(***************************************************************************)
(* Connections between servers: clients that send messages                *)
(* (src/src/raft/uv_send.c), outgoing TCP connections                      *)
(* (src/src/raft/uv_tcp_connect.c), the listener                           *)
(* (src/src/raft/uv_tcp_listen.c), servers that receive messages           *)
(* (src/src/raft/uv_recv.c), and the end of all of them                    *)
(* (src/src/raft/uv_tcp.c, src/src/raft/uv.c).  Operators on a record u:   *)
(*   clients    [some ids -> uvClient]; with closing set, the client is in *)
(*              the queue uv->aborting, otherwise in uv->clients           *)
(*   conns      [Conn -> incoming connection]                              *)
(*   listeners  the listeners that are open                                *)
(*   closing, tcpClosing   uv->closing and t->closing                      *)
(*   transport, tick       uv->transport->data and uv->timer.data          *)
(*   appends, put          disk writes and snapshot that are not finished  *)
(*   closed     the callback of raft_io->close was invoked                 *)
(*   cbs        the callbacks that the handler invokes, in order           *)
(*   ok         FALSE once an assertion failed                             *)
(* Memory allocation and uv_write do not fail.                             *)
(***************************************************************************)
EXTENDS Integers, Sequences, FiniteSets, SequencesExt

CONSTANTS
    Conn,          \* incoming connections
    MaxPending,    \* UV__CLIENT_MAX_PENDING, 3 in the code
    Addresses,     \* addresses a host name resolves to
    Listeners      \* addresses the server listens on

ASSUME TransportAssumption ==
    MaxPending \in Nat /\ Addresses \in Nat \ {0} /\ Listeners \in Nat

Check(u, cond) == [u EXCEPT !.ok = @ /\ cond]

Callback(u, req, status) == [u EXCEPT !.cbs = Append(@, [req |-> req, status |-> status])]

(* The callback of raft_io->close is the last; 0 is no request. *)
CloseCb == 0

---------------------------------------------------------------------------
(* The end of the transport and of the I/O backend *)

Aborting(u) ==
    \/ \E c \in DOMAIN u.clients : u.clients[c].closing
    \/ \E k \in Conn : u.conns[k].phase = "serverClosing"

(* Mutant of uvMaybeFireCloseCb: aborted clients and servers are not       *)
(* waited for.                                                             *)
uvMaybeFireCloseCbNoWait(u) ==
    IF u.closing /\ ~u.transport /\ ~u.tick /\ u.appends = 0 /\ ~u.put /\ ~u.closed
    THEN Callback([u EXCEPT !.closed = TRUE], CloseCb, "ok")
    ELSE u

uvMaybeFireCloseCb(u) ==
    IF u.closing /\ ~u.transport /\ ~u.tick /\ u.appends = 0 /\ ~u.put /\ ~Aborting(u)
    THEN Callback([Check(u, ~u.closed) EXCEPT !.closed = TRUE], CloseCb, "ok")
    ELSE u

uvTickTimerCloseCb(u) == uvMaybeFireCloseCb([Check(u, u.closing) EXCEPT !.tick = FALSE])

uvTransportCloseCb(u) ==
    uvMaybeFireCloseCb([Check(u, u.closing /\ u.transport) EXCEPT !.transport = FALSE])

TcpAborting(u) ==
    \/ \E c \in DOMAIN u.clients : u.clients[c].connect.queue = "aborting"
    \/ \E k \in Conn : u.conns[k].phase = "incomingClosing"

UvTcpMaybeFireCloseCb(u) ==
    IF ~u.tcpClosing THEN u
    ELSE LET v == Check(u, /\ \A c \in DOMAIN u.clients : u.clients[c].connect.queue # "connecting"
                           /\ \A k \in Conn : u.conns[k].phase \notin {"preamble", "address"})
         IN  IF TcpAborting(u) \/ u.listeners > 0 THEN v ELSE uvTransportCloseCb(v)

---------------------------------------------------------------------------
(* Outgoing connections.  req: the libuv request in progress; tcp: whether *)
(* the handle is open, being closed for good or before the next address.   *)

NoConnect == [queue |-> "none", req |-> "none", tcp |-> "none", status |-> "ok", ai |-> 0]

Set(u, c, connect) == [u EXCEPT !.clients[c].connect = connect]

(* A connection request starts by resolving the name of the host. *)
UvTcpConnect(u, c) ==
    Set(Check(u, ~u.tcpClosing), c,
        [queue |-> "connecting", req |-> "addrinfo", tcp |-> "open", status |-> "ok", ai |-> 0])

(* The handle is closed now, unless a callback of the request will do it. *)
uvTcpConnectAbort(x) ==
    [x EXCEPT !.queue = "aborting",
              !.tcp = IF x.req # "addrinfo" /\ x.tcp # "next" THEN "closing" ELSE @]

uvTcpAsyncConnect(x) == [x EXCEPT !.req = "connect", !.tcp = "open"]

uvGetAddrInfoCb(u, c, good) ==
    LET x == [u.clients[c].connect EXCEPT !.req = "none"]
    IN  Set(u, c,
          IF u.tcpClosing THEN [x EXCEPT !.status = "canceled", !.tcp = "closing"]
          ELSE IF ~good THEN uvTcpConnectAbort([x EXCEPT !.status = "noconnection"])
          ELSE uvTcpAsyncConnect([x EXCEPT !.ai = Addresses]))

(* If the connection fails the next address is tried, on a new handle. *)
uvTcpConnectUvConnectCb(u, c, good) ==
    LET x == [u.clients[c].connect EXCEPT !.req = "none"]
    IN  Set(u, c,
          IF u.tcpClosing THEN [x EXCEPT !.status = "canceled"]
          ELSE IF good THEN [x EXCEPT !.req = "write"]
          ELSE IF x.ai > 1 THEN [x EXCEPT !.ai = @ - 1, !.tcp = "next"]
          ELSE uvTcpConnectAbort([x EXCEPT !.ai = 0, !.status = "noconnection"]))

---------------------------------------------------------------------------
(* Clients.  writes: the requests being written to the stream, or to the   *)
(* old one; pending: those that wait for a connection.                     *)

ClientInit(peer, address) ==
    [peer |-> peer, address |-> address, connect |-> NoConnect, stream |-> FALSE,
     oldStream |-> FALSE, timer |-> "idle", pending |-> <<>>, writes |-> <<>>,
     closing |-> FALSE]

Cancel(u, reqs, status) == FoldLeft(LAMBDA v, r : Callback(v, r, status), u, reqs)

(* When the last handle of an aborted client is closed, it is destroyed. *)
uvClientMaybeDestroy(u, c) ==
    LET x == u.clients[c]
        v == Check(u, ~x.stream)
    IN  IF x.connect # NoConnect \/ x.timer # "closed" \/ x.oldStream THEN v
        ELSE uvMaybeFireCloseCb(
               [Cancel(v, x.pending, "canceled")
                  EXCEPT !.clients = [i \in DOMAIN @ \ {c} |-> @[i]]])

(* A connection attempt; one that cannot be started is retried later. *)
uvClientConnect(u, c, starts) ==
    LET x == u.clients[c]
        v == Check(u, ~x.closing /\ ~x.stream /\ ~x.oldStream
                      /\ x.timer = "idle" /\ x.connect = NoConnect)
    IN  IF starts THEN UvTcpConnect(v, c) ELSE [v EXCEPT !.clients[c].timer = "armed"]

uvClientDisconnect(u, c) ==
    [Check(u, u.clients[c].stream /\ ~u.clients[c].oldStream)
       EXCEPT !.clients[c].stream = FALSE, !.clients[c].oldStream = TRUE]

(* Mutant of uvClientDisconnectCloseCb: an aborted client connects again. *)
uvClientDisconnectCloseCbAlways(u, c, starts) ==
    uvClientConnect([u EXCEPT !.clients[c].oldStream = FALSE], c, starts)

uvClientDisconnectCloseCb(u, c, starts) ==
    LET v == [Check(u, u.clients[c].oldStream /\ ~u.clients[c].stream)
                EXCEPT !.clients[c].oldStream = FALSE]
    IN  IF u.clients[c].closing THEN uvClientMaybeDestroy(v, c) ELSE uvClientConnect(v, c, starts)

(* A write ends with a status of libuv.  If it failed the connection is     *)
(* given up; only a client that is closing reports a cancellation as such. *)
uvSendWriteCb(u, c, status) ==
    LET x == u.clients[c]
        v == [u EXCEPT !.clients[c].writes = Tail(@)]
        w == IF status # "ok" /\ ~x.closing /\ x.stream THEN uvClientDisconnect(v, c) ELSE v
    IN  Callback(w, Head(x.writes),
                 IF status = "canceled" /\ ~x.closing THEN "ioerr" ELSE status)

uvClientSend(u, c, req) ==
    LET v == Check(u, ~u.clients[c].closing)
    IN  IF u.clients[c].stream THEN [v EXCEPT !.clients[c].writes = Append(@, req)]
        ELSE [v EXCEPT !.clients[c].pending = Append(@, req)]

uvClientSendPending(u, c) ==
    [u EXCEPT !.clients[c].writes = @ \o u.clients[c].pending, !.clients[c].pending = <<>>]

(* Mutant of uvClientConnectCb: requests beyond the limit are forgotten. *)
uvClientConnectCbForgets(u, c, status) ==
    LET x == u.clients[c]
        v == [u EXCEPT !.clients[c].connect = NoConnect]
        over == IF Len(x.pending) > MaxPending THEN Len(x.pending) - MaxPending ELSE 0
    IN  IF x.closing /\ status = "ok"
        THEN uvClientDisconnect([v EXCEPT !.clients[c].stream = TRUE], c)
        ELSE IF x.closing THEN uvClientMaybeDestroy(v, c)
        ELSE IF status = "ok" THEN uvClientSendPending([v EXCEPT !.clients[c].stream = TRUE], c)
        ELSE [v EXCEPT !.clients[c].pending = SubSeq(@, over + 1, Len(@)),
                       !.clients[c].timer = "armed"]

(* An attempt ended.  If it failed, the oldest requests beyond the limit   *)
(* fail too, and the timer for the next attempt is started.                *)
uvClientConnectCb(u, c, status) ==
    LET x == u.clients[c]
        v == [Check(u, x.connect # NoConnect /\ ~x.stream /\ ~x.oldStream /\ x.timer # "armed")
                EXCEPT !.clients[c].connect = NoConnect]
        over == IF Len(x.pending) > MaxPending THEN Len(x.pending) - MaxPending ELSE 0
    IN  IF x.closing /\ status = "ok"
        THEN uvClientDisconnect([v EXCEPT !.clients[c].stream = TRUE], c)
        ELSE IF x.closing THEN uvClientMaybeDestroy(v, c)
        ELSE IF status = "ok" THEN uvClientSendPending([v EXCEPT !.clients[c].stream = TRUE], c)
        ELSE [Cancel(v, SubSeq(x.pending, 1, over), "noconnection")
                EXCEPT !.clients[c].pending = SubSeq(@, over + 1, Len(@)),
                       !.clients[c].timer = "armed"]

uvClientTimerCb(u, c, starts) == uvClientConnect([u EXCEPT !.clients[c].timer = "idle"], c, starts)

uvClientTimerCloseCb(u, c) ==
    uvClientMaybeDestroy([u EXCEPT !.clients[c].timer = "closed"], c)

(* An active client always waits for something. *)
uvClientAbort(u, c) ==
    LET x == u.clients[c]
        v == Check(u, x.stream \/ x.oldStream \/ x.timer = "armed" \/ x.connect # NoConnect)
        w == IF x.stream THEN uvClientDisconnect(v, c) ELSE v
    IN  [w EXCEPT !.clients[c].timer = "closing", !.clients[c].closing = TRUE]

---------------------------------------------------------------------------
(* The rest of the outgoing connections: what completes an attempt *)

uvTcpConnectFinish(u, c) == uvClientConnectCb(u, c, u.clients[c].connect.status)

uvTcpConnectUvCloseCb(u, c) ==
    UvTcpMaybeFireCloseCb(uvTcpConnectFinish(Check(u, u.clients[c].connect.status # "ok"), c))

(* The handshake was written: the connection is there. *)
uvTcpConnectUvWriteCb(u, c, good) ==
    LET x == [u.clients[c].connect EXCEPT !.req = "none"]
    IN  IF u.tcpClosing THEN Set(u, c, [x EXCEPT !.status = "canceled"])
        ELSE IF ~good THEN Set(u, c, uvTcpConnectAbort([x EXCEPT !.status = "noconnection"]))
        ELSE uvTcpConnectFinish(u, c)

(* Mutant of uvTcpTryNextConnectCb: the next address is tried, aborted or  *)
(* not.                                                                    *)
uvTcpTryNextConnectCbAlways(u, c) ==
    Set(u, c, uvTcpAsyncConnect(u.clients[c].connect))

uvTcpTryNextConnectCb(u, c) ==
    LET x == u.clients[c].connect
    IN  IF u.tcpClosing
        THEN uvTcpConnectUvCloseCb(Set(u, c, [x EXCEPT !.tcp = "closing", !.status = "canceled"]), c)
        ELSE Set(u, c, uvTcpAsyncConnect(x))

UvTcpConnectClose(u) ==
    [u EXCEPT !.clients = [c \in DOMAIN @ |->
        IF @[c].connect.queue = "connecting"
        THEN [@[c] EXCEPT !.connect = uvTcpConnectAbort(@)] ELSE @[c]]]

(* The client for a peer; a new one if the peer has none, or its address   *)
(* has changed.                                                            *)
ClientsOf(u, peer) == {c \in DOMAIN u.clients : ~u.clients[c].closing /\ u.clients[c].peer = peer}

NewClient(u) == CHOOSE c \in 1..(Cardinality(DOMAIN u.clients) + 1) : c \notin DOMAIN u.clients

AddClient(u, peer, address, starts) ==
    uvClientConnect([u EXCEPT !.clients = @ @@ (NewClient(u) :> ClientInit(peer, address))],
                    NewClient(u), starts)

uvGetClient(u, peer, address, starts) ==
    IF ClientsOf(u, peer) = {} THEN AddClient(u, peer, address, starts)
    ELSE LET c == CHOOSE c \in ClientsOf(u, peer) : TRUE
         IN  IF u.clients[c].address = address THEN u
             ELSE AddClient(uvClientAbort(u, c), peer, address, starts)

UvSend(u, req, peer, address, starts) ==
    LET v == uvGetClient(Check(u, ~u.closing), peer, address, starts)
    IN  uvClientSend(v, CHOOSE c \in ClientsOf(v, peer) : TRUE, req)

UvSendClose(u) ==
    FoldLeft(uvClientAbort, u, SetToSeq({c \in DOMAIN u.clients : ~u.clients[c].closing}))

---------------------------------------------------------------------------
(* Incoming connections.  phase: the handshake (preamble and address), the *)
(* server that reads messages, or the close of either.  A server is about  *)
(* to read the preamble, the header or the payload of a message.  The      *)
(* lengths and buffers of the code tell which: hlen, hbase, plen, pbase;   *)
(* buf says that the current chunk was read in part.                       *)

NoRead == [hlen |-> FALSE, hbase |-> FALSE, plen |-> FALSE, pbase |-> FALSE, buf |-> FALSE]

NoIncoming == [phase |-> "none", s |-> NoRead]

Goto(u, k, phase) == [u EXCEPT !.conns[k].phase = phase]

uvTcpListenCb(u, k) == Goto(Check(u, u.listeners > 0), k, "preamble")

uvTcpIncomingAbort(u, k) == Goto(u, k, "incomingClosing")

(* Only the address is read under an assertion. *)
uvTcpIncomingReadCbPreamble(u, k, nread) ==
    IF nread = "all" THEN Goto(u, k, "address")
    ELSE IF nread = "part" THEN u ELSE uvTcpIncomingAbort(u, k)

(* The handshake is complete: a server reads from the connection. *)
uvTcpIncomingReadCbAddress(u, k, nread) ==
    LET v == Check(u, ~u.tcpClosing)
    IN  IF nread = "all" THEN Goto(Check(v, ~u.closing), k, "server")
        ELSE IF nread = "part" THEN v ELSE uvTcpIncomingAbort(v, k)

uvTcpIncomingCloseCb(u, k) ==
    UvTcpMaybeFireCloseCb([u EXCEPT !.conns[k] = NoIncoming])

(* The buffer of the chunk that comes next; its memory is allocated. *)
uvServerAllocCb(u, k) ==
    LET s == u.conns[k].s
        v == Check(u, ~u.closing)
    IN  IF s.buf THEN v
        ELSE IF ~s.hlen THEN [v EXCEPT !.conns[k].s.buf = TRUE]
        ELSE IF ~s.plen
        THEN [Check(v, ~s.hbase) EXCEPT !.conns[k].s.hbase = TRUE, !.conns[k].s.buf = TRUE]
        ELSE [v EXCEPT !.conns[k].s.pbase = TRUE, !.conns[k].s.buf = TRUE]

uvServerAbort(u, k) == Goto(u, k, "serverClosing")

(* The message was received; the next one starts with its preamble. *)
uvFireRecvCb(u, k) == [u EXCEPT !.conns[k].s = NoRead]

(* Some data was read; kind is what the header of a message announces. *)
uvServerReadCb(u, k, nread, kind) ==
    LET v == uvServerAllocCb(Check(u, ~u.closing), k)
        s == v.conns[k].s
        w == [v EXCEPT !.conns[k].s.buf = FALSE]
    IN  IF nread = "part" THEN v
        ELSE IF nread # "all" \/ kind = "bad" THEN uvServerAbort(v, k)
        ELSE IF ~s.hlen THEN [Check(w, ~s.hbase) EXCEPT !.conns[k].s.hlen = TRUE]
        ELSE IF ~s.plen /\ kind = "payload" THEN [Check(w, s.hbase) EXCEPT !.conns[k].s.plen = TRUE]
        ELSE uvFireRecvCb(Check(w, s.plen => s.pbase), k)

uvServerStreamCloseCb(u, k) ==
    uvMaybeFireCloseCb([u EXCEPT !.conns[k] = NoIncoming])

UvRecvClose(u) ==
    [u EXCEPT !.conns = [k \in Conn |->
        IF @[k].phase = "server" THEN [@[k] EXCEPT !.phase = "serverClosing"] ELSE @[k]]]

uvTcpListenCloseCbListener(u) ==
    LET v == [Check(u, u.tcpClosing /\ u.listeners > 0) EXCEPT !.listeners = @ - 1]
    IN  IF v.listeners = 0 THEN UvTcpMaybeFireCloseCb(v) ELSE v

UvTcpListenClose(u) ==
    [u EXCEPT !.conns = [k \in Conn |->
        IF @[k].phase \in {"preamble", "address"}
        THEN [@[k] EXCEPT !.phase = "incomingClosing"] ELSE @[k]]]

---------------------------------------------------------------------------
uvTcpClose(u) ==
    UvTcpMaybeFireCloseCb(
      UvTcpConnectClose(UvTcpListenClose([Check(u, ~u.tcpClosing) EXCEPT !.tcpClosing = TRUE])))

(* Of the disk writes only the first n, which were started, go on. *)
uvClose(u, n) ==
    LET v == UvRecvClose(UvSendClose([Check(u, ~u.closing) EXCEPT !.closing = TRUE]))
    IN  uvMaybeFireCloseCb(uvTcpClose([v EXCEPT !.appends = n]))

uvInit == [clients |-> <<>>, conns |-> [k \in Conn |-> NoIncoming], listeners |-> Listeners,
           closing |-> FALSE, tcpClosing |-> FALSE, transport |-> TRUE, tick |-> TRUE,
           appends |-> 0, put |-> FALSE, closed |-> FALSE, cbs |-> <<>>, ok |-> TRUE]
=============================================================================
