---------------------------- MODULE RaftElection ----------------------------
(***************************************************************************)
(* Leader election of dqlite's raft: terms and votes, the pre-vote phase,   *)
(* the "I have a leader" rule, leadership transfer (TimeoutNow and the      *)
(* disrupt_leader flag), step-down, and crashes between the two synchronous *)
(* metadata writes of electionStart.                                        *)
(*                                                                          *)
(* Every handler runs to completion on the server's event loop, so one      *)
(* handler is one action.  io->set_term and io->set_vote are synchronous    *)
(* and precede the update of the in-memory cache; on a running server the   *)
(* cache and the metadata on disk agree, so currentTerm and votedFor stand  *)
(* for both, and a server that is down keeps them.                          *)
(*                                                                          *)
(* Abstractions.  The configuration is fixed and has at least two voters.   *)
(* A log is reduced to the position of its last entry; log writes complete  *)
(* within the handler that issues them, and the only entry appended is the  *)
(* barrier that opens a leader's term (RaftReplication has the logs, the    *)
(* asynchronous writes and the client entries).  Timers may expire at any   *)
(* time.  The network may delay, reorder and lose messages.                 *)
(***************************************************************************)
EXTENDS Integers, FiniteSets

CONSTANTS
  Server,       \* the servers of the configuration
  Voter,        \* those whose role is RAFT_VOTER
  None,         \* no server (the id 0 of the code)
  PreVote,      \* raft_set_pre_vote()
  Transferrer,  \* the servers on which the application calls raft_transfer()
  Crasher,      \* the servers that may crash
  Elector,      \* the servers whose election timer may expire
  Lossy,        \* whether connections may break and lose messages
  InitTerm,     \* the term each server finds in its metadata when it starts
  InitVote,     \* the vote it finds there
  InitLog,      \* the position of the last entry each server finds on disk
  MaxTerm,      \* bound on the terms the model explores
  MaxInFlight   \* bound on the messages in flight

Position == [term : Nat, index : Nat]

ASSUME ServerAssumption ==
  /\ IsFiniteSet(Server)
  /\ Voter \subseteq Server
  /\ Cardinality(Voter) > 1
  /\ None \notin Server

ASSUME OptionAssumption ==
  /\ PreVote \in BOOLEAN
  /\ Transferrer \subseteq Server
  /\ Crasher \subseteq Server
  /\ Elector \subseteq Server
  /\ Lossy \in BOOLEAN

ASSUME InitAssumption ==
  /\ MaxTerm \in Nat /\ MaxInFlight \in Nat
  /\ InitTerm \in [Server -> Nat]
  /\ InitVote \in [Server -> Server \cup {None}]
  /\ InitLog \in [Server -> Position]

\* electionStart writes the term of a candidate to disk before it asks for votes,
\* so that a vote found on disk is for a server that reached the vote's term.
ASSUME InitVoteAssumption ==
  \A i \in Server : InitVote[i] # None => InitTerm[i] <= InitTerm[InitVote[i]]

VARIABLES
  state,         \* r->state
  currentTerm,   \* r->current_term, and the term in the metadata file
  votedFor,      \* r->voted_for, and the vote in the metadata file
  currentLeader, \* r->follower_state.current_leader.id
  votes,         \* r->candidate_state.votes, as the set of servers marked true
  inPreVote,     \* r->candidate_state.in_pre_vote
  disruptLeader, \* r->candidate_state.disrupt_leader
  recentRecv,    \* the servers whose progress has recent_recv set
  upToDate,      \* the servers whose match_index is the leader's last index
  lastLog,       \* the position of the last entry of r->log
  transfer,      \* r->transfer->id
  timeoutSent,   \* r->transfer->send.data # NULL: the TimeoutNow was sent
  msgs,          \* messages in flight
  cast           \* history: every vote written to disk, with the voter's log

termVars == <<currentTerm, votedFor, cast>>
candidateVars == <<votes, inPreVote, disruptLeader>>
leaderVars == <<recentRecv, upToDate>>
transferVars == <<transfer, timeoutSent>>
vars == <<state, currentTerm, votedFor, currentLeader, votes, inPreVote,
          disruptLeader, recentRecv, upToDate, lastLog, transfer, timeoutSent,
          msgs, cast>>

State == {"unavailable", "follower", "candidate", "leader"}

RequestVote ==
  [type : {"RequestVote"}, from : Server, to : Server, term : Nat,
   lastLog : Position, disruptLeader : BOOLEAN, preVote : BOOLEAN]

RequestVoteResult ==
  [type : {"RequestVoteResult"}, from : Server, to : Server, term : Nat,
   granted : BOOLEAN, preVote : BOOLEAN]

AppendEntries ==
  [type : {"AppendEntries"}, from : Server, to : Server, term : Nat,
   lastLog : Position]

AppendEntriesResult ==
  [type : {"AppendEntriesResult"}, from : Server, to : Server, term : Nat,
   accepted : BOOLEAN]

TimeoutNow ==
  [type : {"TimeoutNow"}, from : Server, to : Server, term : Nat,
   lastLog : Position]

Message ==
  RequestVote \cup RequestVoteResult \cup AppendEntries
    \cup AppendEntriesResult \cup TimeoutNow

Vote == [voter : Server, term : Nat, candidate : Server, lastLog : Position]

VoteOf(i, term, candidate) ==
  [voter |-> i, term |-> term, candidate |-> candidate, lastLog |-> lastLog[i]]

-----------------------------------------------------------------------------
(* Pure parts of the handlers *)

\* electionTally: the votes marked true are at least half the voters plus one.
Quorum(S) == Cardinality(S) >= (Cardinality(Voter) \div 2) + 1

\* electionVote: the comparison of the candidate's last entry with ours.
AtLeastAsUpToDate(theirs, ours) ==
  \/ ours.index = 0
  \/ theirs.term > ours.term
  \/ theirs.term = ours.term /\ theirs.index >= ours.index

\* Mutants of electionVote.
electionVoteAnyLog(i, m, voted) ==
  /\ i \in Voter
  /\ m.preVote \/ voted \in {None, m.from} \/ transfer[i] = m.from

electionVoteTwice(i, m, voted) ==
  /\ i \in Voter
  /\ AtLeastAsUpToDate(m.lastLog, lastLog[i])

electionVotePreVoteAsVote(i, m, voted) ==
  /\ i \in Voter
  /\ voted \in {None, m.from} \/ transfer[i] = m.from
  /\ AtLeastAsUpToDate(m.lastLog, lastLog[i])

\* electionVote, given the value of r->voted_for when it is called.
electionVote(i, m, voted) ==
  /\ i \in Voter
  /\ \/ m.preVote
     \/ voted \in {None, m.from}
     \/ transfer[i] = m.from
  /\ AtLeastAsUpToDate(m.lastLog, lastLog[i])

\* recvRequestVote: has_leader.
HasLeader(i) ==
  state[i] = "leader" \/ (state[i] = "follower" /\ currentLeader[i] # None)

\* electionSend to every other voter.
electionSend(i, term, disrupt, pre) ==
  {[type |-> "RequestVote", from |-> i, to |-> j,
    term |-> IF pre THEN term + 1 ELSE term, lastLog |-> lastLog[i],
    disruptLeader |-> disrupt, preVote |-> pre] : j \in Voter \ {i}}

\* triggerAll: an AppendEntries RPC to every other server.
heartbeats(i, term, pos) ==
  {[type |-> "AppendEntries", from |-> i, to |-> j, term |-> term,
    lastLog |-> pos] : j \in Server \ {i}}

timeoutNow(i, j) ==
  [type |-> "TimeoutNow", from |-> i, to |-> j, term |-> currentTerm[i],
   lastLog |-> lastLog[i]]

\* The network holds the messages of rest and the new ones sent.
Send(rest, new) ==
  /\ Cardinality(rest \cup new) <= MaxInFlight
  /\ msgs' = rest \cup new

\* checkContactQuorum counts us in, whatever our own flag says.
ContactQuorum(i) ==
  Cardinality((recentRecv[i] \cap Voter) \cup {i}) > Cardinality(Voter) \div 2

-----------------------------------------------------------------------------
(* State conversions (convert.c) *)

\* convertClear and convertSetState: the union of per-role state is replaced.
Become(i, role, leader, granted, pre, disrupt) ==
  /\ state' = [state EXCEPT ![i] = role]
  /\ currentLeader' = [currentLeader EXCEPT ![i] = leader]
  /\ votes' = [votes EXCEPT ![i] = granted]
  /\ inPreVote' = [inPreVote EXCEPT ![i] = pre]
  /\ disruptLeader' = [disruptLeader EXCEPT ![i] = disrupt]
  /\ recentRecv' = [recentRecv EXCEPT ![i] = {}]
  /\ upToDate' = [upToDate EXCEPT ![i] = {}]

\* membershipLeadershipTransferClose.
CloseTransfer(i) ==
  /\ transfer' = [transfer EXCEPT ![i] = None]
  /\ timeoutSent' = [timeoutSent EXCEPT ![i] = FALSE]

\* Mutant: the candidate's votes survive the conversion.
convertToFollowerKeepsVotes(i) ==
  /\ Become(i, "follower", None, votes[i], FALSE, FALSE)
  /\ UNCHANGED transferVars

\* convertToFollower, which leaves a pending transfer request alone.
convertToFollower(i) ==
  /\ Become(i, "follower", None, {}, FALSE, FALSE)
  /\ UNCHANGED transferVars

convertToUnavailable(i) ==
  /\ Become(i, "unavailable", None, {}, FALSE, FALSE)
  /\ CloseTransfer(i)

KeepRole == UNCHANGED <<state, currentLeader, candidateVars, leaderVars>>

\* io->set_term (which also resets the vote on disk), then io->set_vote.
SetTermAndVote(i, term, vote) ==
  /\ currentTerm' = [currentTerm EXCEPT ![i] = term]
  /\ votedFor' = [votedFor EXCEPT ![i] = vote]
  /\ cast' = IF vote = None \/ (term = currentTerm[i] /\ vote = votedFor[i])
               THEN cast
               ELSE cast \cup {VoteOf(i, term, vote)}

\* electionStart on a server whose term is base; rest are the messages left.
\* The third disjunct is the crash, or the failed write, between set_term and
\* set_vote: the new term is on disk without a vote and the server is down.
electionStart(i, base, pre, disrupt, rest) ==
  \/ /\ pre
     /\ Become(i, "candidate", None, {i}, TRUE, disrupt)
     /\ Send(rest, electionSend(i, base, disrupt, TRUE))
     /\ UNCHANGED <<termVars, transferVars>>
  \/ /\ ~pre /\ base < MaxTerm
     /\ SetTermAndVote(i, base + 1, i)
     /\ Become(i, "candidate", None, {i}, FALSE, disrupt)
     /\ Send(rest, electionSend(i, base + 1, disrupt, FALSE))
     /\ UNCHANGED transferVars
  \/ /\ ~pre /\ base < MaxTerm
     /\ i \in Crasher
     /\ SetTermAndVote(i, base + 1, None)
     /\ convertToUnavailable(i)
     /\ msgs' = rest

\* convertToLeader: the term opens with a barrier entry, which raft_barrier
\* refuses while a transfer request is pending; recvCb then gives up.
convertToLeader(i, rest) ==
  LET pos == [term |-> currentTerm[i], index |-> lastLog[i].index + 1] IN
  \/ /\ transfer[i] = None
     /\ Become(i, "leader", None, {}, FALSE, FALSE)
     /\ lastLog' = [lastLog EXCEPT ![i] = pos]
     /\ Send(rest, heartbeats(i, currentTerm[i], pos))
     /\ UNCHANGED transferVars
  \/ /\ transfer[i] # None
     /\ convertToUnavailable(i)
     /\ msgs' = rest
     /\ UNCHANGED lastLog

-----------------------------------------------------------------------------
(* Timers (tick.c) *)

TickFollower(i) ==
  /\ state[i] = "follower" /\ i \in Voter \cap Elector
  /\ electionStart(i, currentTerm[i], PreVote, FALSE, msgs)
  /\ UNCHANGED lastLog

TickCandidate(i) ==
  /\ state[i] = "candidate" /\ i \in Elector
  /\ electionStart(i, currentTerm[i], inPreVote[i], disruptLeader[i], msgs)
  /\ UNCHANGED lastLog

\* tickLeader before an election timeout has elapsed: only the heartbeat.
TickLeaderHeartbeat(i) ==
  /\ state[i] = "leader"
  /\ Send(msgs, heartbeats(i, currentTerm[i], lastLog[i]))
  /\ UNCHANGED <<state, termVars, currentLeader, candidateVars, leaderVars,
                 lastLog, transferVars>>

\* tickLeader after an election timeout: step down unless a majority answered
\* since the last check, which also resets the recent_recv flags.
TickLeaderContact(i) ==
  /\ state[i] = "leader"
  /\ \/ /\ ~ContactQuorum(i)
        /\ convertToFollower(i)
        /\ UNCHANGED msgs
     \/ /\ ContactQuorum(i)
        /\ recentRecv' = [recentRecv EXCEPT ![i] = {}]
        /\ Send(msgs, heartbeats(i, currentTerm[i], lastLog[i]))
        /\ UNCHANGED <<state, currentLeader, candidateVars, upToDate,
                       transferVars>>
  /\ UNCHANGED <<termVars, lastLog>>

\* tickCb: a transfer request expires an election timeout after its start.
TransferExpires(i) ==
  /\ transfer[i] # None
  /\ CloseTransfer(i)
  /\ KeepRole
  /\ UNCHANGED <<termVars, lastLog, msgs>>

-----------------------------------------------------------------------------
(* RPC handlers *)

\* recvRequestVote.  The reply to a pre-vote request always echoes its term.
recvRequestVote(m) ==
  LET i == m.to
      ignored == HasLeader(i) /\ ~m.disruptLeader
      bump == ~ignored /\ ~m.preVote /\ m.term > currentTerm[i]
      term == IF bump THEN m.term ELSE currentTerm[i]
      voted == IF bump THEN None ELSE votedFor[i]
      granted == /\ ~ignored
                 /\ m.term >= currentTerm[i]
                 /\ electionVote(i, m, voted)
      vote == IF granted /\ ~m.preVote THEN m.from ELSE voted
      reply == [type |-> "RequestVoteResult", from |-> i, to |-> m.from,
                term |-> IF m.preVote THEN m.term ELSE term,
                granted |-> granted, preVote |-> m.preVote]
  IN /\ m.type = "RequestVote"
     /\ SetTermAndVote(i, term, vote)
     /\ IF bump /\ state[i] # "follower"
          THEN convertToFollower(i)
          ELSE KeepRole /\ UNCHANGED transferVars
     /\ Send(msgs \ {m}, {reply})
     /\ UNCHANGED lastLog

\* recvRequestVoteResult: the answer carries a term that makes us step down.
StepsDown(i, m) ==
  IF inPreVote[i] THEN m.preVote /\ m.term > currentTerm[i] + 1
                  ELSE m.term > currentTerm[i]

\* Mutant: an answer to the pre-vote counts in the election proper.
CountsAnyPhase(i, m) ==
  /\ m.granted
  /\ m.term >= currentTerm[i]

\* recvRequestVoteResult: the answer counts as a vote for the current phase.
Counts(i, m) ==
  /\ m.granted
  /\ m.preVote = inPreVote[i]
  /\ m.term >= currentTerm[i]

recvRequestVoteResult(m) ==
  LET i == m.to
      relevant == m.from \in Voter /\ state[i] = "candidate"
      tally == votes[i] \cup {m.from}
  IN /\ m.type = "RequestVoteResult"
     /\ \/ /\ relevant /\ StepsDown(i, m)
           /\ SetTermAndVote(i, m.term, None)
           /\ convertToFollower(i)
           /\ msgs' = msgs \ {m}
           /\ UNCHANGED lastLog
        \/ /\ relevant /\ ~StepsDown(i, m) /\ Counts(i, m)
           /\ ~Quorum(tally)
           /\ votes' = [votes EXCEPT ![i] = tally]
           /\ msgs' = msgs \ {m}
           /\ UNCHANGED <<state, termVars, currentLeader, inPreVote,
                          disruptLeader, leaderVars, lastLog, transferVars>>
        \/ /\ relevant /\ ~StepsDown(i, m) /\ Counts(i, m)
           /\ Quorum(tally) /\ inPreVote[i]
           /\ electionStart(i, currentTerm[i], FALSE, disruptLeader[i],
                            msgs \ {m})
           /\ UNCHANGED lastLog
        \/ /\ relevant /\ ~StepsDown(i, m) /\ Counts(i, m)
           /\ Quorum(tally) /\ ~inPreVote[i]
           /\ convertToLeader(i, msgs \ {m})
           /\ UNCHANGED termVars
        \/ /\ ~relevant \/ (~StepsDown(i, m) /\ ~Counts(i, m))
           /\ msgs' = msgs \ {m}
           /\ KeepRole
           /\ UNCHANGED <<termVars, lastLog, transferVars>>

\* recvAppendEntries.  Whether the follower's log matches at prev_log_index,
\* and so whether it takes the leader's entries, is the choice of accepted.
\* recvMessage closes a transfer request once the transferee is our leader.
recvAppendEntries(m) ==
  LET i == m.to
      reply(term, accepted) ==
        [type |-> "AppendEntriesResult", from |-> i, to |-> m.from,
         term |-> term, accepted |-> accepted]
  IN /\ m.type = "AppendEntries"
     /\ \/ /\ m.term < currentTerm[i]
           /\ Send(msgs \ {m}, {reply(currentTerm[i], FALSE)})
           /\ KeepRole
           /\ UNCHANGED <<termVars, lastLog, transferVars>>
        \/ /\ m.term >= currentTerm[i]
           /\ m.term = currentTerm[i] => state[i] # "leader"  \* assert
           /\ IF m.term > currentTerm[i]
                THEN SetTermAndVote(i, m.term, None)
                ELSE UNCHANGED termVars
           /\ Become(i, "follower", m.from, {}, FALSE, FALSE)
           /\ IF transfer[i] = m.from THEN CloseTransfer(i)
                                      ELSE UNCHANGED transferVars
           /\ \E accepted \in BOOLEAN :
                /\ Send(msgs \ {m}, {reply(m.term, accepted)})
                /\ lastLog' = IF accepted
                                THEN [lastLog EXCEPT ![i] = m.lastLog]
                                ELSE lastLog

\* recvAppendEntriesResult: a higher term deposes us; a rejection makes us
\* retry; an acceptance may complete the condition for sending TimeoutNow.
recvAppendEntriesResult(m) ==
  LET i == m.to
      j == m.from
      startTransfer == transfer[i] = j /\ ~timeoutSent[i] /\ j \notin upToDate[i]
  IN /\ m.type = "AppendEntriesResult"
     /\ \/ /\ state[i] = "leader" /\ m.term > currentTerm[i]
           /\ SetTermAndVote(i, m.term, None)
           /\ convertToFollower(i)
           /\ msgs' = msgs \ {m}
           /\ UNCHANGED lastLog
        \/ /\ state[i] = "leader" /\ m.term = currentTerm[i]
           /\ recentRecv' = [recentRecv EXCEPT ![i] = @ \cup {j}]
           /\ upToDate' = [upToDate EXCEPT ![i] =
                             IF m.accepted THEN @ \cup {j} ELSE @]
           /\ timeoutSent' = [timeoutSent EXCEPT ![i] =
                                @ \/ (m.accepted /\ startTransfer)]
           /\ Send(msgs \ {m},
                   CASE ~m.accepted ->
                          {h \in heartbeats(i, currentTerm[i], lastLog[i]) :
                             h.to = j}
                     [] m.accepted /\ startTransfer -> {timeoutNow(i, j)}
                     [] OTHER -> {})
           /\ UNCHANGED <<state, termVars, currentLeader, candidateVars,
                          lastLog, transfer>>
        \/ /\ state[i] # "leader" \/ m.term < currentTerm[i]
           /\ msgs' = msgs \ {m}
           /\ KeepRole
           /\ UNCHANGED <<termVars, lastLog, transferVars>>

\* recvTimeoutNow.
recvTimeoutNow(m) ==
  LET i == m.to
      listens == /\ i \in Voter
                 /\ state[i] = "follower" /\ currentLeader[i] = m.from
                 /\ m.term >= currentTerm[i]
  IN /\ m.type = "TimeoutNow"
     /\ UNCHANGED lastLog
     /\ \/ /\ listens /\ lastLog[i] = m.lastLog
           /\ electionStart(i, m.term, FALSE, TRUE, msgs \ {m})
        \/ /\ listens /\ lastLog[i] # m.lastLog
           /\ IF m.term > currentTerm[i]
                THEN SetTermAndVote(i, m.term, None)
                ELSE UNCHANGED termVars
           /\ msgs' = msgs \ {m}
           /\ KeepRole /\ UNCHANGED transferVars
        \/ /\ ~listens
           /\ msgs' = msgs \ {m}
           /\ KeepRole /\ UNCHANGED <<termVars, transferVars>>

\* recvCb: a server that is not running ignores its messages.
recvCb(m) ==
  /\ state[m.to] # "unavailable"
  /\ \/ recvRequestVote(m)
     \/ recvRequestVoteResult(m)
     \/ recvAppendEntries(m)
     \/ recvAppendEntriesResult(m)
     \/ recvTimeoutNow(m)

\* A connection breaks, or there is nobody to connect to: the message is lost.
Lose(m) ==
  /\ Lossy \/ state[m.to] = "unavailable"
  /\ msgs' = msgs \ {m}
  /\ KeepRole
  /\ UNCHANGED <<termVars, lastLog, transferVars>>

-----------------------------------------------------------------------------
(* Requests of the application, crashes and restarts *)

\* raft_transfer: the TimeoutNow is sent at once to a follower that is known
\* to have stored our whole log, and by recvAppendEntriesResult otherwise.
raft_transfer(i, j) ==
  /\ i \in Transferrer /\ state[i] = "leader" /\ transfer[i] = None
  /\ j \in Voter \ {i}
  /\ transfer' = [transfer EXCEPT ![i] = j]
  /\ timeoutSent' = [timeoutSent EXCEPT ![i] = j \in upToDate[i]]
  /\ Send(msgs, IF j \in upToDate[i] THEN {timeoutNow(i, j)} ELSE {})
  /\ KeepRole
  /\ UNCHANGED <<termVars, lastLog>>

Crash(i) ==
  /\ i \in Crasher /\ state[i] # "unavailable"
  /\ convertToUnavailable(i)
  /\ UNCHANGED <<termVars, lastLog, msgs>>

\* Mutant: the vote is not reloaded.
raft_startForgetsVote(i) ==
  /\ state[i] = "unavailable"
  /\ Become(i, "follower", None, {}, FALSE, FALSE)
  /\ votedFor' = [votedFor EXCEPT ![i] = None]
  /\ UNCHANGED <<currentTerm, cast, lastLog, msgs, transferVars>>

\* raft_start: the term and the vote are those of the metadata on disk.
raft_start(i) ==
  /\ state[i] = "unavailable"
  /\ Become(i, "follower", None, {}, FALSE, FALSE)
  /\ UNCHANGED <<termVars, lastLog, msgs, transferVars>>

-----------------------------------------------------------------------------
Init ==
  /\ state = [i \in Server |-> "follower"]
  /\ currentTerm = InitTerm
  /\ votedFor = InitVote
  /\ currentLeader = [i \in Server |-> None]
  /\ votes = [i \in Server |-> {}]
  /\ inPreVote = [i \in Server |-> FALSE]
  /\ disruptLeader = [i \in Server |-> FALSE]
  /\ recentRecv = [i \in Server |-> {}]
  /\ upToDate = [i \in Server |-> {}]
  /\ lastLog = InitLog
  /\ transfer = [i \in Server |-> None]
  /\ timeoutSent = [i \in Server |-> FALSE]
  /\ msgs = {}
  /\ cast = {VoteOf(i, InitTerm[i], InitVote[i]) :
               i \in {k \in Server : InitVote[k] # None}}

Next ==
  \/ \E m \in msgs : recvCb(m) \/ Lose(m)
  \/ \E i \in Server :
       \/ TickFollower(i)
       \/ TickCandidate(i)
       \/ TickLeaderHeartbeat(i)
       \/ TickLeaderContact(i)
       \/ TransferExpires(i)
       \/ \E j \in Server : raft_transfer(i, j)
       \/ Crash(i)
       \/ raft_start(i)

Spec == Init /\ [][Next]_vars

\* What the event loops guarantee while servers run and connections hold: the
\* timers of tickCb keep firing and every message sent is handled.  Nothing
\* obliges a server that went down to come back.
Receive(i, j, type) ==
  \E m \in msgs : m.from = i /\ m.to = j /\ m.type = type /\ recvCb(m)

Fairness ==
  /\ \A i \in Server :
       /\ WF_vars(TickFollower(i))
       /\ WF_vars(TickCandidate(i))
  /\ \A i, j \in Server : \A type \in {"RequestVote", "RequestVoteResult"} :
       WF_vars(Receive(i, j, type))

FairSpec == Spec /\ Fairness

-----------------------------------------------------------------------------
(* Properties *)

\* Every variable keeps the type the C declarations give it, and the fields of
\* the per-role union are only set in their role (convertClear).
RoleOK ==
  /\ state \in [Server -> State]
  /\ currentLeader \in [Server -> Server \cup {None}]
  /\ votes \in [Server -> SUBSET Voter]
  /\ inPreVote \in [Server -> BOOLEAN]
  /\ disruptLeader \in [Server -> BOOLEAN]
  /\ recentRecv \in [Server -> SUBSET Server]
  /\ upToDate \in [Server -> SUBSET Server]
  /\ \A i \in Server :
       /\ state[i] # "follower" => currentLeader[i] = None
       /\ state[i] = "candidate" => i \in votes[i]
       /\ state[i] # "candidate" => votes[i] = {} /\ ~inPreVote[i]
       /\ state[i] # "leader" => recentRecv[i] = {} /\ upToDate[i] = {}

TermOK ==
  /\ currentTerm \in [Server -> Nat]
  /\ votedFor \in [Server -> Server \cup {None}]
  /\ cast \in SUBSET Vote

TransferOK ==
  /\ transfer \in [Server -> Server \cup {None}]
  /\ timeoutSent \in [Server -> BOOLEAN]

TypeOK ==
  /\ RoleOK
  /\ TermOK
  /\ TransferOK
  /\ lastLog \in [Server -> Position]
  /\ msgs \in SUBSET Message

\* At most one leader can be elected in any given term: what the assertion of
\* recvAppendEntries that we are not leader relies on.
ElectionSafety ==
  \A i, j \in Server :
    state[i] = "leader" /\ state[j] = "leader"
      /\ currentTerm[i] = currentTerm[j] => i = j

\* A leader holds the votes of a quorum, cast in its own term and never in the
\* pre-vote phase: stale answers, answers of an earlier phase and answers to a
\* request sent before a crash are never tallied (recvRequestVoteResult).
VotersOf(i) ==
  {v \in Voter : \E c \in cast :
     c.voter = v /\ c.term = currentTerm[i] /\ c.candidate = i}

LeaderWasElected ==
  \A i \in Server : state[i] = "leader" => Quorum(VotersOf(i))

\* While a candidate counts votes its log is at least as up to date as the log
\* every one of its voters had when it voted, so that a winner's log covers a
\* quorum: what electionVote compared is still the candidate's log.
CandidateCoversVoters ==
  \A i \in Server : state[i] = "candidate" /\ ~inPreVote[i] =>
    \A c \in cast : c.term = currentTerm[i] /\ c.candidate = i =>
      AtLeastAsUpToDate(lastLog[i], c.lastLog)

\* Across crashes and restarts terms never go back, and a vote written for a
\* term is never erased and only ever replaced, in that term, by one for the
\* transferee.
VoteStability ==
  [][\A i \in Server :
       /\ currentTerm'[i] >= currentTerm[i]
       /\ currentTerm'[i] = currentTerm[i] /\ votedFor[i] # None =>
            votedFor'[i] \in {votedFor[i], transfer[i]} \ {None}]_vars

\* As long as a majority of the voters is online a leader is elected.
EventuallyLeader == <>(\E i \in Server : state[i] = "leader")
=============================================================================
