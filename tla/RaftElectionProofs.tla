------------------------- MODULE RaftElectionProofs -------------------------
(***************************************************************************)
(* Theorems about RaftElection, for every set of servers and every value of *)
(* the bounds: type correctness, vote stability, that a leader was elected  *)
(* by a quorum of its own term, and, as long as no leadership transfer is   *)
(* requested, election safety.                                              *)
(***************************************************************************)
EXTENDS RaftElection, FiniteSetTheorems, TLAPS

-----------------------------------------------------------------------------
(* Types *)

\* A message taken from the network has the fields of its type.
LEMMA MessageFields ==
  ASSUME msgs \in SUBSET Message, NEW m \in msgs
  PROVE  /\ m.from \in Server /\ m.to \in Server /\ m.term \in Nat
         /\ m.type = "RequestVote" => m \in RequestVote
         /\ m.type = "RequestVoteResult" => m \in RequestVoteResult
         /\ m.type = "AppendEntries" => m \in AppendEntries
         /\ m.type = "AppendEntriesResult" => m \in AppendEntriesResult
         /\ m.type = "TimeoutNow" => m \in TimeoutNow
BY DEF Message, RequestVote, RequestVoteResult, AppendEntries,
       AppendEntriesResult, TimeoutNow

\* The conversions of convert.c keep the per-role fields in their role.
LEMMA BecomeType ==
  ASSUME RoleOK, NEW i \in Server, NEW role \in State,
         NEW leader \in Server \cup {None}, NEW granted \in SUBSET Voter,
         NEW pre \in BOOLEAN, NEW disrupt \in BOOLEAN,
         role # "follower" => leader = None,
         role = "candidate" => i \in granted,
         role # "candidate" => granted = {} /\ ~pre,
         Become(i, role, leader, granted, pre, disrupt)
  PROVE  RoleOK'
BY DEF RoleOK, Become

LEMMA ConvertType ==
  ASSUME RoleOK, TransferOK, NEW i \in Server,
         convertToFollower(i) \/ convertToUnavailable(i)
  PROVE  RoleOK' /\ TransferOK'
<1>1. CASE convertToFollower(i)
  <2>1. RoleOK'
    BY <1>1, BecomeType DEF convertToFollower, State
  <2>2. TransferOK'
    BY <1>1 DEF convertToFollower, TransferOK, transferVars
  <2> QED BY <2>1, <2>2
<1>2. CASE convertToUnavailable(i)
  <2>1. RoleOK'
    BY <1>2, BecomeType DEF convertToUnavailable, State
  <2>2. TransferOK'
    BY <1>2 DEF convertToUnavailable, CloseTransfer, TransferOK
  <2> QED BY <2>1, <2>2
<1> QED BY <1>1, <1>2

LEMMA KeepRoleType ==
  ASSUME RoleOK, KeepRole
  PROVE  RoleOK'
BY DEF RoleOK, KeepRole, candidateVars, leaderVars

LEMMA KeepTermType ==
  ASSUME TermOK, UNCHANGED termVars
  PROVE  TermOK'
BY DEF TermOK, termVars

LEMMA KeepTransferType ==
  ASSUME TransferOK, UNCHANGED transferVars
  PROVE  TransferOK'
BY DEF TransferOK, transferVars

LEMMA VoteOfType ==
  ASSUME lastLog \in [Server -> Position],
         NEW i \in Server, NEW term \in Nat, NEW j \in Server
  PROVE  VoteOf(i, term, j) \in Vote
BY DEF VoteOf, Vote

LEMMA SetTermAndVoteType ==
  ASSUME TermOK, lastLog \in [Server -> Position],
         NEW i \in Server, NEW term \in Nat, NEW vote \in Server \cup {None},
         SetTermAndVote(i, term, vote)
  PROVE  TermOK'
<1>1. vote # None => VoteOf(i, term, vote) \in Vote
  BY VoteOfType
<1> QED BY <1>1 DEF TermOK, SetTermAndVote

LEMMA SendType ==
  ASSUME msgs \in SUBSET Message,
         NEW rest \in SUBSET msgs, NEW new \in SUBSET Message, Send(rest, new)
  PROVE  msgs' \in SUBSET Message
BY DEF Send

LEMMA electionSendType ==
  ASSUME lastLog \in [Server -> Position], NEW i \in Server,
         NEW term \in Nat, NEW disrupt \in BOOLEAN, NEW pre \in BOOLEAN
  PROVE  electionSend(i, term, disrupt, pre) \in SUBSET Message
BY ServerAssumption DEF electionSend, Message, RequestVote

LEMMA heartbeatsType ==
  ASSUME NEW i \in Server, NEW term \in Nat, NEW pos \in Position
  PROVE  heartbeats(i, term, pos) \in SUBSET Message
BY DEF heartbeats, Message, AppendEntries

LEMMA timeoutNowType ==
  ASSUME TermOK, lastLog \in [Server -> Position],
         NEW i \in Server, NEW j \in Server
  PROVE  timeoutNow(i, j) \in Message
BY DEF timeoutNow, Message, TimeoutNow, TermOK

\* electionStart is called by tick.c, recvRequestVoteResult and recvTimeoutNow.
LEMMA electionStartType ==
  ASSUME TypeOK, NEW i \in Voter, NEW base \in Nat, NEW pre \in BOOLEAN,
         NEW disrupt \in BOOLEAN, NEW rest \in SUBSET msgs,
         electionStart(i, base, pre, disrupt, rest)
  PROVE  RoleOK' /\ TermOK' /\ TransferOK' /\ msgs' \in SUBSET Message
<1> USE ServerAssumption
<1>0. i \in Server /\ {i} \in SUBSET Voter
  OBVIOUS
<1>1. ASSUME NEW p \in BOOLEAN, Become(i, "candidate", None, {i}, p, disrupt)
      PROVE  RoleOK'
  BY <1>0, <1>1, BecomeType DEF TypeOK, State
<1>2. ASSUME NEW term \in Nat, NEW p \in BOOLEAN,
             Send(rest, electionSend(i, term, disrupt, p))
      PROVE  msgs' \in SUBSET Message
  BY <1>0, <1>2, electionSendType, SendType DEF TypeOK
<1>3. CASE /\ pre
           /\ Become(i, "candidate", None, {i}, TRUE, disrupt)
           /\ Send(rest, electionSend(i, base, disrupt, TRUE))
           /\ UNCHANGED <<termVars, transferVars>>
  BY <1>1, <1>2, <1>3, KeepTermType, KeepTransferType DEF TypeOK
<1>4. CASE /\ SetTermAndVote(i, base + 1, i)
           /\ Become(i, "candidate", None, {i}, FALSE, disrupt)
           /\ Send(rest, electionSend(i, base + 1, disrupt, FALSE))
           /\ UNCHANGED transferVars
  <2>1. TermOK'
    BY <1>0, <1>4, SetTermAndVoteType DEF TypeOK
  <2>2. msgs' \in SUBSET Message
    <3>1. base + 1 \in Nat
      OBVIOUS
    <3> QED BY <3>1, <1>2, <1>4
  <2> QED BY <2>1, <2>2, <1>1, <1>4, KeepTransferType DEF TypeOK
<1>5. CASE /\ SetTermAndVote(i, base + 1, None)
           /\ convertToUnavailable(i)
           /\ msgs' = rest
  <2>1. TermOK'
    BY <1>0, <1>5, SetTermAndVoteType DEF TypeOK
  <2> QED BY <2>1, <1>0, <1>5, ConvertType DEF TypeOK
<1> QED BY <1>3, <1>4, <1>5 DEF electionStart

LEMMA convertToLeaderType ==
  ASSUME TypeOK, NEW i \in Server, NEW rest \in SUBSET msgs,
         convertToLeader(i, rest)
  PROVE  /\ RoleOK' /\ TransferOK'
         /\ lastLog' \in [Server -> Position] /\ msgs' \in SUBSET Message
<1> DEFINE pos == [term |-> currentTerm[i], index |-> lastLog[i].index + 1]
<1>0. pos \in Position /\ currentTerm[i] \in Nat
  BY DEF TypeOK, TermOK, Position
<1>1. CASE /\ Become(i, "leader", None, {}, FALSE, FALSE)
           /\ lastLog' = [lastLog EXCEPT ![i] = pos]
           /\ Send(rest, heartbeats(i, currentTerm[i], pos))
           /\ UNCHANGED transferVars
  <2>1. RoleOK'
    BY <1>1, BecomeType DEF TypeOK, State
  <2>2. lastLog' \in [Server -> Position]
    BY <1>0, <1>1 DEF TypeOK
  <2>3. msgs' \in SUBSET Message
    <3>1. heartbeats(i, currentTerm[i], pos) \in SUBSET Message
      BY <1>0, heartbeatsType
    <3> QED BY <3>1, <1>1, SendType DEF TypeOK
  <2> QED BY <1>1, <2>1, <2>2, <2>3, KeepTransferType DEF TypeOK
<1>2. CASE convertToUnavailable(i) /\ msgs' = rest /\ UNCHANGED lastLog
  BY <1>2, ConvertType DEF TypeOK
<1> QED BY <1>1, <1>2 DEF convertToLeader

LEMMA TickType ==
  ASSUME TypeOK, NEW i \in Server,
         \/ TickFollower(i) \/ TickCandidate(i)
         \/ TickLeaderHeartbeat(i) \/ TickLeaderContact(i)
         \/ TransferExpires(i)
  PROVE  TypeOK'
<1> USE OptionAssumption
<1>0. /\ msgs \in SUBSET msgs /\ currentTerm[i] \in Nat
      /\ lastLog[i] \in Position
      /\ inPreVote[i] \in BOOLEAN /\ disruptLeader[i] \in BOOLEAN
      /\ heartbeats(i, currentTerm[i], lastLog[i]) \in SUBSET Message
  BY heartbeatsType DEF TypeOK, TermOK, RoleOK
<1>1. CASE TickFollower(i)
  <2>1. i \in Voter /\ electionStart(i, currentTerm[i], PreVote, FALSE, msgs)
    BY <1>1 DEF TickFollower
  <2>2. RoleOK' /\ TermOK' /\ TransferOK' /\ msgs' \in SUBSET Message
    BY <1>0, <2>1, electionStartType
  <2> QED BY <1>1, <2>2 DEF TickFollower, TypeOK
<1>2. CASE TickCandidate(i)
  <2>1. i \in Voter
    BY <1>2 DEF TickCandidate, TypeOK, RoleOK
  <2>2. electionStart(i, currentTerm[i], inPreVote[i], disruptLeader[i], msgs)
    BY <1>2 DEF TickCandidate
  <2>3. RoleOK' /\ TermOK' /\ TransferOK' /\ msgs' \in SUBSET Message
    BY <1>0, <2>1, <2>2, electionStartType
  <2> QED BY <1>2, <2>3 DEF TickCandidate, TypeOK
<1>3. CASE TickLeaderHeartbeat(i)
  <2>1. msgs' \in SUBSET Message
    BY <1>0, <1>3, SendType DEF TickLeaderHeartbeat, TypeOK
  <2>2. RoleOK' /\ TermOK' /\ TransferOK'
    BY <1>3, KeepRoleType, KeepTermType, KeepTransferType
    DEF TickLeaderHeartbeat, TypeOK, KeepRole
  <2> QED BY <1>3, <2>1, <2>2 DEF TickLeaderHeartbeat, TypeOK
<1>4. CASE TickLeaderContact(i)
  <2>1. TermOK' /\ lastLog' \in [Server -> Position]
    BY <1>4, KeepTermType DEF TickLeaderContact, TypeOK
  <2>2. CASE convertToFollower(i) /\ UNCHANGED msgs
    BY <2>1, <2>2, ConvertType DEF TypeOK
  <2>3. CASE /\ state[i] = "leader"
             /\ recentRecv' = [recentRecv EXCEPT ![i] = {}]
             /\ Send(msgs, heartbeats(i, currentTerm[i], lastLog[i]))
             /\ UNCHANGED <<state, currentLeader, candidateVars, upToDate,
                            transferVars>>
    <3>1. RoleOK'
      BY <2>3 DEF TypeOK, RoleOK, candidateVars
    <3>2. msgs' \in SUBSET Message
      BY <1>0, <2>3, SendType DEF TypeOK
    <3> QED BY <2>1, <2>3, <3>1, <3>2, KeepTransferType DEF TypeOK
  <2> QED BY <1>4, <2>2, <2>3 DEF TickLeaderContact
<1>5. CASE TransferExpires(i)
  <2>1. TransferOK'
    BY <1>5 DEF TransferExpires, CloseTransfer, TransferOK, TypeOK
  <2> QED BY <1>5, <2>1, KeepRoleType, KeepTermType DEF TransferExpires, TypeOK
<1> QED BY <1>1, <1>2, <1>3, <1>4, <1>5
LEMMA recvRequestVoteType ==
  ASSUME TypeOK, NEW m \in msgs, recvRequestVote(m)
  PROVE  TypeOK'
<1> DEFINE i == m.to
           ignored == HasLeader(i) /\ ~m.disruptLeader
           bump == ~ignored /\ ~m.preVote /\ m.term > currentTerm[i]
           term == IF bump THEN m.term ELSE currentTerm[i]
           voted == IF bump THEN None ELSE votedFor[i]
           granted == /\ ~ignored
                      /\ m.term >= currentTerm[i]
                      /\ electionVote(i, m, voted)
           vote == IF granted /\ ~m.preVote THEN m.from ELSE voted
           reply == [type |-> "RequestVoteResult", from |-> i, to |-> m.from,
                     term |-> IF m.preVote THEN m.term ELSE term,
                     granted |-> granted, preVote |-> m.preVote]
<1>1. m \in RequestVote /\ i \in Server /\ m.from \in Server /\ m.term \in Nat
  BY MessageFields DEF recvRequestVote, TypeOK
<1>2. /\ SetTermAndVote(i, term, vote)
      /\ IF bump /\ state[i] # "follower"
           THEN convertToFollower(i)
           ELSE KeepRole /\ UNCHANGED transferVars
      /\ Send(msgs \ {m}, {reply})
      /\ UNCHANGED lastLog
  BY DEF recvRequestVote
<1>3. term \in Nat /\ voted \in Server \cup {None}
  BY <1>1 DEF TypeOK, TermOK
<1>4. granted \in BOOLEAN
  BY DEF electionVote
<1>5. vote \in Server \cup {None}
  BY <1>1, <1>3
<1>6. reply \in Message
  <2>1. m.preVote \in BOOLEAN
    BY <1>1 DEF RequestVote
  <2>2. reply \in RequestVoteResult
    <3> HIDE DEF granted, term
    <3> QED BY <1>1, <1>3, <1>4, <2>1 DEF RequestVoteResult
  <2> QED BY <2>2 DEF Message
<1> HIDE DEF i, bump, term, voted, granted, vote, reply
<1>7. TermOK'
  BY <1>1, <1>2, <1>3, <1>5, SetTermAndVoteType DEF TypeOK
<1>8. RoleOK' /\ TransferOK'
  BY <1>1, <1>2, ConvertType, KeepRoleType, KeepTransferType DEF TypeOK
<1>9. msgs' \in SUBSET Message
  BY <1>2, <1>6, SendType DEF TypeOK
<1> QED BY <1>2, <1>7, <1>8, <1>9 DEF TypeOK

LEMMA recvRequestVoteResultType ==
  ASSUME TypeOK, NEW m \in msgs, recvRequestVoteResult(m)
  PROVE  TypeOK'
<1> DEFINE i == m.to
<1> USE ServerAssumption
<1>0. /\ i \in Server /\ m.from \in Server /\ m.term \in Nat
      /\ currentTerm[i] \in Nat /\ disruptLeader[i] \in BOOLEAN
      /\ msgs \ {m} \in SUBSET msgs
  BY MessageFields DEF TypeOK, TermOK, RoleOK
<1>1. CASE /\ SetTermAndVote(i, m.term, None)
           /\ convertToFollower(i)
           /\ msgs' = msgs \ {m}
           /\ UNCHANGED lastLog
  <2>1. TermOK'
    BY <1>0, <1>1, SetTermAndVoteType DEF TypeOK
  <2> QED BY <1>0, <1>1, <2>1, ConvertType DEF TypeOK
<1>2. CASE /\ m.from \in Voter /\ state[i] = "candidate"
           /\ votes' = [votes EXCEPT ![i] = votes[i] \cup {m.from}]
           /\ msgs' = msgs \ {m}
           /\ UNCHANGED <<state, termVars, currentLeader, inPreVote,
                          disruptLeader, leaderVars, lastLog, transferVars>>
  <2>1. RoleOK'
    BY <1>0, <1>2 DEF TypeOK, RoleOK, leaderVars
  <2> QED BY <1>2, <2>1, KeepTermType, KeepTransferType DEF TypeOK
<1>3. CASE /\ state[i] = "candidate"
           /\ electionStart(i, currentTerm[i], FALSE, disruptLeader[i],
                            msgs \ {m})
           /\ UNCHANGED lastLog
  <2>1. i \in Voter
    BY <1>0, <1>3 DEF TypeOK, RoleOK
  <2>2. RoleOK' /\ TermOK' /\ TransferOK' /\ msgs' \in SUBSET Message
    BY <1>0, <1>3, <2>1, electionStartType
  <2> QED BY <1>3, <2>2 DEF TypeOK
<1>4. CASE convertToLeader(i, msgs \ {m}) /\ UNCHANGED termVars
  <2>1. /\ RoleOK' /\ TransferOK'
        /\ lastLog' \in [Server -> Position] /\ msgs' \in SUBSET Message
    BY <1>0, <1>4, convertToLeaderType
  <2> QED BY <1>4, <2>1, KeepTermType DEF TypeOK
<1>5. CASE /\ msgs' = msgs \ {m}
           /\ KeepRole
           /\ UNCHANGED <<termVars, lastLog, transferVars>>
  BY <1>5, KeepRoleType, KeepTermType, KeepTransferType DEF TypeOK
<1> QED BY <1>1, <1>2, <1>3, <1>4, <1>5 DEF recvRequestVoteResult
LEMMA recvAppendEntriesType ==
  ASSUME TypeOK, NEW m \in msgs, recvAppendEntries(m)
  PROVE  TypeOK'
<1> DEFINE i == m.to
           reply(term, accepted) ==
             [type |-> "AppendEntriesResult", from |-> i, to |-> m.from,
              term |-> term, accepted |-> accepted]
<1>0. /\ i \in Server /\ m.from \in Server /\ m.term \in Nat
      /\ m.lastLog \in Position /\ currentTerm[i] \in Nat
      /\ msgs \ {m} \in SUBSET msgs
  BY MessageFields DEF TypeOK, TermOK, AppendEntries, recvAppendEntries
<1>1. ASSUME NEW term \in Nat, NEW accepted \in BOOLEAN
      PROVE  {reply(term, accepted)} \in SUBSET Message
  BY <1>0, <1>1 DEF Message, AppendEntriesResult
<1>2. CASE /\ Send(msgs \ {m}, {reply(currentTerm[i], FALSE)})
           /\ KeepRole
           /\ UNCHANGED <<termVars, lastLog, transferVars>>
  <2>1. msgs' \in SUBSET Message
    <3>1. {reply(currentTerm[i], FALSE)} \in SUBSET Message
      BY <1>0, <1>1
    <3> HIDE DEF reply
    <3> QED BY <1>0, <1>2, <3>1, SendType DEF TypeOK
  <2> QED BY <1>2, <2>1, KeepRoleType, KeepTermType, KeepTransferType DEF TypeOK
<1>3. CASE /\ IF m.term > currentTerm[i]
                THEN SetTermAndVote(i, m.term, None)
                ELSE UNCHANGED termVars
           /\ Become(i, "follower", m.from, {}, FALSE, FALSE)
           /\ IF transfer[i] = m.from THEN CloseTransfer(i)
                                      ELSE UNCHANGED transferVars
           /\ \E accepted \in BOOLEAN :
                /\ Send(msgs \ {m}, {reply(m.term, accepted)})
                /\ lastLog' = IF accepted
                                THEN [lastLog EXCEPT ![i] = m.lastLog]
                                ELSE lastLog
  <2>1. TermOK'
    BY <1>0, <1>3, SetTermAndVoteType, KeepTermType DEF TypeOK
  <2>2. RoleOK'
    BY <1>0, <1>3, BecomeType DEF TypeOK, State
  <2>3. TransferOK'
    BY <1>0, <1>3 DEF TypeOK, TransferOK, CloseTransfer, transferVars
  <2>4. PICK accepted \in BOOLEAN :
          /\ Send(msgs \ {m}, {reply(m.term, accepted)})
          /\ lastLog' = IF accepted THEN [lastLog EXCEPT ![i] = m.lastLog]
                                    ELSE lastLog
    BY <1>3
  <2>5. lastLog' \in [Server -> Position]
    BY <1>0, <2>4 DEF TypeOK
  <2>6. msgs' \in SUBSET Message
    <3>1. {reply(m.term, accepted)} \in SUBSET Message
      BY <1>0, <1>1
    <3> HIDE DEF reply
    <3> QED BY <1>0, <2>4, <3>1, SendType DEF TypeOK
  <2> QED BY <2>1, <2>2, <2>3, <2>5, <2>6 DEF TypeOK
<1> QED BY <1>2, <1>3 DEF recvAppendEntries

LEMMA recvAppendEntriesResultType ==
  ASSUME TypeOK, NEW m \in msgs, recvAppendEntriesResult(m)
  PROVE  TypeOK'
<1> DEFINE i == m.to
           j == m.from
           startTransfer ==
             transfer[i] = j /\ ~timeoutSent[i] /\ j \notin upToDate[i]
           sent ==
             CASE ~m.accepted ->
                    {h \in heartbeats(i, currentTerm[i], lastLog[i]) : h.to = j}
               [] m.accepted /\ startTransfer -> {timeoutNow(i, j)}
               [] OTHER -> {}
<1>0. /\ i \in Server /\ j \in Server /\ m.term \in Nat
      /\ m.accepted \in BOOLEAN /\ currentTerm[i] \in Nat
      /\ lastLog[i] \in Position /\ msgs \ {m} \in SUBSET msgs
  BY MessageFields
  DEF TypeOK, TermOK, AppendEntriesResult, recvAppendEntriesResult
<1>1. CASE /\ SetTermAndVote(i, m.term, None)
           /\ convertToFollower(i)
           /\ msgs' = msgs \ {m}
           /\ UNCHANGED lastLog
  <2>1. TermOK'
    BY <1>0, <1>1, SetTermAndVoteType DEF TypeOK
  <2> QED BY <1>0, <1>1, <2>1, ConvertType DEF TypeOK
<1>2. CASE /\ state[i] = "leader"
           /\ recentRecv' = [recentRecv EXCEPT ![i] = @ \cup {j}]
           /\ upToDate' = [upToDate EXCEPT ![i] =
                             IF m.accepted THEN @ \cup {j} ELSE @]
           /\ timeoutSent' = [timeoutSent EXCEPT ![i] =
                                @ \/ (m.accepted /\ startTransfer)]
           /\ Send(msgs \ {m}, sent)
           /\ UNCHANGED <<state, termVars, currentLeader, candidateVars,
                          lastLog, transfer>>
  <2>1. RoleOK'
    BY <1>0, <1>2 DEF TypeOK, RoleOK, candidateVars
  <2>2. TransferOK'
    BY <1>0, <1>2 DEF TypeOK, TransferOK
  <2>3. sent \in SUBSET Message
    <3>1. heartbeats(i, currentTerm[i], lastLog[i]) \in SUBSET Message
      BY <1>0, heartbeatsType
    <3>2. timeoutNow(i, j) \in Message
      BY <1>0, timeoutNowType DEF TypeOK
    <3> HIDE DEF startTransfer
    <3> QED BY <1>0, <3>1, <3>2
  <2> HIDE DEF sent
  <2>4. msgs' \in SUBSET Message
    BY <1>0, <1>2, <2>3, SendType DEF TypeOK
  <2> QED BY <1>2, <2>1, <2>2, <2>4, KeepTermType DEF TypeOK
<1>3. CASE /\ msgs' = msgs \ {m}
           /\ KeepRole
           /\ UNCHANGED <<termVars, lastLog, transferVars>>
  BY <1>3, KeepRoleType, KeepTermType, KeepTransferType DEF TypeOK
<1> QED BY <1>1, <1>2, <1>3 DEF recvAppendEntriesResult

LEMMA recvTimeoutNowType ==
  ASSUME TypeOK, NEW m \in msgs, recvTimeoutNow(m)
  PROVE  TypeOK'
<1> DEFINE i == m.to
<1> USE ServerAssumption
<1>0. /\ i \in Server /\ m.term \in Nat /\ msgs \ {m} \in SUBSET msgs
      /\ UNCHANGED lastLog
  BY MessageFields DEF TypeOK, recvTimeoutNow
<1>1. CASE i \in Voter /\ electionStart(i, m.term, FALSE, TRUE, msgs \ {m})
  <2>1. RoleOK' /\ TermOK' /\ TransferOK' /\ msgs' \in SUBSET Message
    BY <1>0, <1>1, electionStartType
  <2> QED BY <1>0, <2>1 DEF TypeOK
<1>2. CASE /\ \/ SetTermAndVote(i, m.term, None)
              \/ UNCHANGED termVars
           /\ msgs' = msgs \ {m}
           /\ KeepRole /\ UNCHANGED transferVars
  <2>1. TermOK'
    BY <1>0, <1>2, SetTermAndVoteType, KeepTermType DEF TypeOK
  <2> QED BY <1>0, <1>2, <2>1, KeepRoleType, KeepTransferType DEF TypeOK
<1> QED BY <1>1, <1>2 DEF recvTimeoutNow

LEMMA OtherType ==
  ASSUME TypeOK,
         \/ \E m \in msgs : Lose(m)
         \/ \E i, j \in Server : raft_transfer(i, j)
         \/ \E i \in Server : Crash(i) \/ raft_start(i)
  PROVE  TypeOK'
<1>1. ASSUME NEW m \in msgs, Lose(m) PROVE TypeOK'
  BY <1>1, KeepRoleType, KeepTermType, KeepTransferType DEF Lose, TypeOK
<1>2. ASSUME NEW i \in Server, NEW j \in Server, raft_transfer(i, j)
      PROVE  TypeOK'
  <2> DEFINE sent == IF j \in upToDate[i] THEN {timeoutNow(i, j)} ELSE {}
  <2>1. sent \in SUBSET Message
    BY timeoutNowType DEF TypeOK
  <2>2. Send(msgs, sent)
    BY <1>2 DEF raft_transfer
  <2> HIDE DEF sent
  <2>3. msgs' \in SUBSET Message
    BY <2>1, <2>2, SendType DEF TypeOK
  <2>4. TransferOK'
    BY <1>2 DEF raft_transfer, TransferOK, TypeOK
  <2> QED BY <1>2, <2>3, <2>4, KeepRoleType, KeepTermType
          DEF raft_transfer, TypeOK
<1>3. ASSUME NEW i \in Server, Crash(i) PROVE TypeOK'
  BY <1>3, ConvertType, KeepTermType DEF Crash, TypeOK
<1>4. ASSUME NEW i \in Server, raft_start(i) PROVE TypeOK'
  <2>1. RoleOK'
    BY <1>4, BecomeType DEF raft_start, State, TypeOK
  <2> QED BY <1>4, <2>1, KeepTermType, KeepTransferType DEF raft_start, TypeOK
<1> QED BY <1>1, <1>2, <1>3, <1>4

LEMMA StutterType ==
  ASSUME TypeOK, UNCHANGED vars
  PROVE  TypeOK'
BY DEF TypeOK, RoleOK, TermOK, TransferOK, vars

LEMMA InitType == Init => TypeOK
<1> SUFFICES ASSUME Init PROVE TypeOK
  OBVIOUS
<1> USE ServerAssumption, InitAssumption
<1>1. RoleOK /\ TransferOK
  BY DEF Init, RoleOK, TransferOK, State
<1>2. lastLog \in [Server -> Position]
  BY DEF Init
<1>3. cast \in SUBSET Vote
  BY <1>2, VoteOfType DEF Init
<1> QED BY <1>1, <1>2, <1>3 DEF Init, TypeOK, TermOK

\* Every variable keeps its type and every per-role field stays in its role
\* (the union of raft.h that convertClear resets), whatever the servers.
THEOREM TypeCorrect == Spec => []TypeOK
<1>1. TypeOK /\ [Next]_vars => TypeOK'
  <2> SUFFICES ASSUME TypeOK, [Next]_vars PROVE TypeOK'
    OBVIOUS
  <2>1. ASSUME NEW m \in msgs, recvCb(m) PROVE TypeOK'
    BY <2>1, recvRequestVoteType, recvRequestVoteResultType,
       recvAppendEntriesType, recvAppendEntriesResultType, recvTimeoutNowType
    DEF recvCb
  <2> QED BY <2>1, TickType, OtherType, StutterType DEF Next
<1> QED BY <1>1, InitType, PTL DEF Spec
-----------------------------------------------------------------------------
(* What one step may do to terms and votes, to roles, and to the answers in *)
(* flight.  The invariants below follow from these three shapes alone.      *)

\* A step writes the metadata of at most one server, never lowers its term,
\* and within a term only fills in a missing vote or obeys a transfer.
TermStep ==
  \/ UNCHANGED termVars
  \/ \E i \in Server, term \in Nat, vote \in Server \cup {None} :
       /\ SetTermAndVote(i, term, vote)
       /\ term >= currentTerm[i]
       /\ term = currentTerm[i] =>
            \/ vote = votedFor[i]
            \/ votedFor[i] = None
            \/ vote = transfer[i] /\ vote # None

\* m is an answer that candidate i may tally in the election of its term.
Ballot(i, m) ==
  /\ m.type = "RequestVoteResult" /\ m.to = i
  /\ m.granted /\ ~m.preVote
  /\ m.term = currentTerm[i] /\ m.from \in Voter

InElection(i) == state[i] = "candidate" /\ ~inPreVote[i]

\* A leader or a candidate of a term got there by an election of that term.
RoleStep ==
  \A i \in Server :
    /\ state'[i] = "leader" =>
         /\ currentTerm'[i] = currentTerm[i]
         /\ \/ state[i] = "leader"
            \/ /\ InElection(i)
               /\ \E m \in msgs : Ballot(i, m) /\ Quorum(votes[i] \cup {m.from})
    /\ state'[i] = "candidate" /\ ~inPreVote'[i] =>
         \/ /\ currentTerm'[i] = currentTerm[i]
            /\ InElection(i)
            /\ \/ votes'[i] = votes[i]
               \/ \E m \in msgs : Ballot(i, m) /\ votes'[i] = votes[i] \cup {m.from}
         \/ votes'[i] = {i} /\ votedFor'[i] = i

\* A vote is on disk before the answer that grants it is sent.
GrantStep ==
  \A m \in msgs' :
    \/ m \in msgs
    \/ m.type # "RequestVoteResult"
    \/ m.type = "RequestVoteResult" /\ (~m.granted \/ m.preVote)
    \/ /\ m.from \in Server /\ m.to \in Server
       /\ votedFor'[m.from] = m.to /\ currentTerm'[m.from] = m.term

LEMMA SendGrant ==
  ASSUME NEW rest \in SUBSET msgs, NEW new, Send(rest, new),
         \A m \in new : m.type # "RequestVoteResult"
  PROVE  GrantStep
BY DEF Send, GrantStep

LEMMA NoNewMessage ==
  ASSUME NEW rest \in SUBSET msgs, msgs' = rest
  PROVE  GrantStep
BY DEF GrantStep

\* Steps that leave terms, votes and roles as they are.
LEMMA KeepShape ==
  ASSUME UNCHANGED termVars, KeepRole
  PROVE  TermStep /\ RoleStep
<1>1. UNCHANGED <<currentTerm, state, votes, inPreVote>>
  BY DEF KeepRole, candidateVars, termVars
<1> QED BY <1>1 DEF TermStep, RoleStep, InElection

\* A server that becomes follower or unavailable is in no election.
LEMMA DownShape ==
  ASSUME TypeOK, NEW i \in Server, NEW leader,
         NEW role \in {"follower", "unavailable"},
         Become(i, role, leader, {}, FALSE, FALSE),
         \/ UNCHANGED termVars
         \/ \E term \in Nat, vote \in Server \cup {None} :
               term > currentTerm[i] /\ SetTermAndVote(i, term, vote)
  PROVE  TermStep /\ RoleStep
<1>1. TermStep
  <2>1. CASE UNCHANGED termVars
    BY <2>1 DEF TermStep
  <2>2. ASSUME NEW term \in Nat, NEW vote \in Server \cup {None},
               term > currentTerm[i], SetTermAndVote(i, term, vote)
        PROVE  TermStep
    <3>1. term >= currentTerm[i] /\ term # currentTerm[i]
      BY <2>2 DEF TypeOK, TermOK
    <3> QED BY <2>2, <3>1 DEF TermStep
  <2> QED BY <2>1, <2>2
<1>2. \A j \in Server \ {i} : currentTerm'[j] = currentTerm[j]
  BY DEF termVars, SetTermAndVote, TypeOK, TermOK
<1>3. \A j \in Server \ {i} :
        state'[j] = state[j] /\ votes'[j] = votes[j] /\ inPreVote'[j] = inPreVote[j]
  BY DEF Become, TypeOK, RoleOK
<1>4. state'[i] = role
  BY DEF Become, TypeOK, RoleOK
<1> QED BY <1>1, <1>2, <1>3, <1>4 DEF RoleStep, InElection

LEMMA electionStartShape ==
  ASSUME TypeOK, NEW i \in Voter, NEW base \in Nat, NEW pre, NEW disrupt,
         NEW rest \in SUBSET msgs, base >= currentTerm[i],
         electionStart(i, base, pre, disrupt, rest)
  PROVE  TermStep /\ RoleStep /\ GrantStep
<1> USE ServerAssumption
<1>0. i \in Server /\ currentTerm[i] \in Nat /\ base + 1 \in Nat
  BY DEF TypeOK, TermOK
<1>1. \A t, p : \A m \in electionSend(i, t, disrupt, p) :
        m.type # "RequestVoteResult"
  BY DEF electionSend
<1>2. CASE /\ Become(i, "candidate", None, {i}, TRUE, disrupt)
           /\ Send(rest, electionSend(i, base, disrupt, TRUE))
           /\ UNCHANGED <<termVars, transferVars>>
  <2>1. TermStep
    BY <1>2 DEF TermStep
  <2>2. RoleStep
    BY <1>0, <1>2 DEF RoleStep, Become, TypeOK, RoleOK, termVars, InElection
  <2> QED BY <1>1, <1>2, <2>1, <2>2, SendGrant
<1>3. CASE /\ SetTermAndVote(i, base + 1, i)
           /\ Become(i, "candidate", None, {i}, FALSE, disrupt)
           /\ Send(rest, electionSend(i, base + 1, disrupt, FALSE))
           /\ UNCHANGED transferVars
  <2>1. TermStep
    BY <1>0, <1>3 DEF TermStep
  <2>2. RoleStep
    BY <1>0, <1>3 DEF RoleStep, Become, TypeOK, RoleOK, TermOK, SetTermAndVote,
                      InElection
  <2> QED BY <1>1, <1>3, <2>1, <2>2, SendGrant
<1>4. CASE /\ SetTermAndVote(i, base + 1, None)
           /\ convertToUnavailable(i)
           /\ msgs' = rest
  <2>1. \E term \in Nat, vote \in Server \cup {None} :
          term > currentTerm[i] /\ SetTermAndVote(i, term, vote)
    BY <1>0, <1>4
  <2> QED BY <1>0, <1>4, <2>1, DownShape, NoNewMessage DEF convertToUnavailable
<1> QED BY <1>2, <1>3, <1>4 DEF electionStart
LEMMA convertToLeaderShape ==
  ASSUME TypeOK, NEW i \in Server, NEW rest \in SUBSET msgs,
         UNCHANGED termVars, convertToLeader(i, rest), InElection(i),
         NEW m \in msgs, Ballot(i, m), Quorum(votes[i] \cup {m.from})
  PROVE  TermStep /\ RoleStep /\ GrantStep
<1> DEFINE pos == [term |-> currentTerm[i], index |-> lastLog[i].index + 1]
<1>1. CASE /\ Become(i, "leader", None, {}, FALSE, FALSE)
           /\ Send(rest, heartbeats(i, currentTerm[i], pos))
  <2>1. TermStep
    BY DEF TermStep
  <2>2. RoleStep
    BY <1>1 DEF RoleStep, Become, TypeOK, RoleOK, termVars, InElection
  <2>3. GrantStep
    BY <1>1, SendGrant DEF heartbeats
  <2> QED BY <2>1, <2>2, <2>3
<1>2. CASE convertToUnavailable(i) /\ msgs' = rest
  BY <1>2, DownShape, NoNewMessage DEF convertToUnavailable
<1> QED BY <1>1, <1>2 DEF convertToLeader

LEMMA TickShape ==
  ASSUME TypeOK, NEW i \in Server,
         \/ TickFollower(i) \/ TickCandidate(i)
         \/ TickLeaderHeartbeat(i) \/ TickLeaderContact(i)
         \/ TransferExpires(i)
  PROVE  TermStep /\ RoleStep /\ GrantStep
<1>0. /\ msgs \in SUBSET msgs /\ currentTerm[i] \in Nat
      /\ currentTerm[i] >= currentTerm[i]
      /\ \A m \in heartbeats(i, currentTerm[i], lastLog[i]) :
           m.type # "RequestVoteResult"
  BY DEF TypeOK, TermOK, heartbeats
<1>1. CASE TickFollower(i)
  BY <1>0, <1>1, electionStartShape DEF TickFollower
<1>2. CASE TickCandidate(i)
  <2>1. i \in Voter
    BY <1>2 DEF TickCandidate, TypeOK, RoleOK
  <2> QED BY <1>0, <1>2, <2>1, electionStartShape DEF TickCandidate
<1>3. CASE TickLeaderHeartbeat(i)
  BY <1>0, <1>3, KeepShape, SendGrant DEF TickLeaderHeartbeat, KeepRole
<1>4. CASE TickLeaderContact(i)
  <2>0. UNCHANGED termVars
    BY <1>4 DEF TickLeaderContact
  <2>1. CASE convertToFollower(i) /\ UNCHANGED msgs
    BY <1>0, <2>0, <2>1, DownShape, NoNewMessage DEF convertToFollower
  <2>2. CASE /\ Send(msgs, heartbeats(i, currentTerm[i], lastLog[i]))
             /\ UNCHANGED <<state, currentLeader, candidateVars, upToDate,
                            transferVars>>
    <3>1. RoleStep
      BY <2>0, <2>2 DEF RoleStep, termVars, candidateVars, InElection
    <3> QED BY <1>0, <2>0, <2>2, <3>1, SendGrant DEF TermStep
  <2> QED BY <1>4, <2>1, <2>2 DEF TickLeaderContact
<1>5. CASE TransferExpires(i)
  BY <1>0, <1>5, KeepShape, NoNewMessage DEF TransferExpires
<1> QED BY <1>1, <1>2, <1>3, <1>4, <1>5

LEMMA recvRequestVoteShape ==
  ASSUME TypeOK, NEW m \in msgs, recvRequestVote(m)
  PROVE  TermStep /\ RoleStep /\ GrantStep
<1> DEFINE i == m.to
           ignored == HasLeader(i) /\ ~m.disruptLeader
           bump == ~ignored /\ ~m.preVote /\ m.term > currentTerm[i]
           term == IF bump THEN m.term ELSE currentTerm[i]
           voted == IF bump THEN None ELSE votedFor[i]
           granted == /\ ~ignored
                      /\ m.term >= currentTerm[i]
                      /\ electionVote(i, m, voted)
           vote == IF granted /\ ~m.preVote THEN m.from ELSE voted
           reply == [type |-> "RequestVoteResult", from |-> i, to |-> m.from,
                     term |-> IF m.preVote THEN m.term ELSE term,
                     granted |-> granted, preVote |-> m.preVote]
<1>1. /\ i \in Server /\ m.from \in Server /\ m.term \in Nat
      /\ currentTerm[i] \in Nat /\ votedFor[i] \in Server \cup {None}
      /\ currentTerm \in [Server -> Nat]
      /\ votedFor \in [Server -> Server \cup {None}]
  BY MessageFields DEF TypeOK, TermOK
<1>2. /\ SetTermAndVote(i, term, vote)
      /\ IF bump /\ state[i] # "follower"
           THEN convertToFollower(i)
           ELSE KeepRole /\ UNCHANGED transferVars
      /\ Send(msgs \ {m}, {reply})
  BY DEF recvRequestVote
<1>3. /\ term \in Nat /\ vote \in Server \cup {None}
      /\ term >= currentTerm[i]
      /\ bump => term > currentTerm[i]
      /\ ~bump => term = currentTerm[i]
  BY <1>1
<1>4. ~bump => \/ vote = votedFor[i]
               \/ votedFor[i] = None
               \/ vote = transfer[i] /\ vote # None
  <2>1. granted /\ ~m.preVote =>
          voted = None \/ voted = m.from \/ transfer[i] = m.from
    BY DEF electionVote
  <2> QED BY <1>1, <2>1, ServerAssumption
<1>5. reply.granted /\ ~reply.preVote => vote = m.from /\ reply.term = term
  OBVIOUS
<1>6. /\ reply.from = i /\ reply.to = m.from
      /\ reply.type = "RequestVoteResult"
  OBVIOUS
<1> HIDE DEF i, bump, term, voted, granted, vote, reply
<1>7. TermStep
  BY <1>1, <1>2, <1>3, <1>4 DEF TermStep
<1>8. currentTerm'[i] = term /\ votedFor'[i] = vote
  BY <1>1, <1>2 DEF SetTermAndVote
<1>9. GrantStep
  <2>1. \A r \in msgs' : r \in msgs \/ r = reply
    BY <1>2 DEF Send
  <2> QED BY <1>1, <1>5, <1>6, <1>8, <2>1 DEF GrantStep
<1>10. RoleStep
  <2>1. CASE bump /\ convertToFollower(i)
    BY <1>1, <1>2, <1>3, <2>1, DownShape DEF convertToFollower
  <2>2. CASE KeepRole /\ ~(bump /\ state[i] # "follower")
    <3>1. /\ UNCHANGED <<state, votes, inPreVote>>
          /\ \A j \in Server \ {i} : currentTerm'[j] = currentTerm[j]
      BY <1>1, <1>2, <2>2 DEF KeepRole, candidateVars, SetTermAndVote
    <3>2. state[i] # "follower" => currentTerm'[i] = currentTerm[i]
      BY <1>3, <1>8, <2>2
    <3> QED BY <3>1, <3>2 DEF RoleStep, InElection
  <2> QED BY <1>2, <2>1, <2>2
<1> QED BY <1>7, <1>9, <1>10
LEMMA recvRequestVoteResultShape ==
  ASSUME TypeOK, NEW m \in msgs, recvRequestVoteResult(m)
  PROVE  TermStep /\ RoleStep /\ GrantStep
<1> DEFINE i == m.to
           tally == votes[i] \cup {m.from}
<1>0. /\ i \in Server /\ m.term \in Nat /\ currentTerm[i] \in Nat
      /\ currentTerm[i] >= currentTerm[i] /\ inPreVote[i] \in BOOLEAN
      /\ msgs \ {m} \in SUBSET msgs
      /\ m.type = "RequestVoteResult" /\ m.preVote \in BOOLEAN
  BY MessageFields DEF TypeOK, TermOK, RoleOK, recvRequestVoteResult,
                       RequestVoteResult
<1>1. CASE /\ StepsDown(i, m)
           /\ SetTermAndVote(i, m.term, None)
           /\ convertToFollower(i)
           /\ msgs' = msgs \ {m}
  <2>1. m.term > currentTerm[i]
    BY <1>0, <1>1 DEF StepsDown
  <2>2. \E term \in Nat, vote \in Server \cup {None} :
          term > currentTerm[i] /\ SetTermAndVote(i, term, vote)
    BY <1>0, <1>1, <2>1
  <2> QED BY <1>0, <1>1, <2>2, DownShape, NoNewMessage DEF convertToFollower
<1>2. ASSUME m.from \in Voter, ~StepsDown(i, m), Counts(i, m), ~inPreVote[i]
      PROVE  Ballot(i, m)
  BY <1>0, <1>2 DEF Ballot, StepsDown, Counts
<1>3. CASE /\ m.from \in Voter /\ state[i] = "candidate"
           /\ ~StepsDown(i, m) /\ Counts(i, m)
           /\ votes' = [votes EXCEPT ![i] = tally]
           /\ msgs' = msgs \ {m}
           /\ UNCHANGED <<state, termVars, currentLeader, inPreVote,
                          disruptLeader, leaderVars, lastLog, transferVars>>
  <2>1. TermStep
    BY <1>3 DEF TermStep
  <2>2. GrantStep
    BY <1>3, NoNewMessage
  <2>3. /\ UNCHANGED <<state, currentTerm, inPreVote>>
        /\ \A j \in Server : votes'[j] = IF j = i THEN tally ELSE votes[j]
    BY <1>3 DEF TypeOK, RoleOK, termVars
  <2>4. ~inPreVote[i] => Ballot(i, m)
    BY <1>2, <1>3
  <2>5. RoleStep
    BY <1>0, <1>3, <2>3, <2>4 DEF RoleStep, InElection
  <2> QED BY <2>1, <2>2, <2>5
<1>4. CASE /\ state[i] = "candidate"
           /\ electionStart(i, currentTerm[i], FALSE, disruptLeader[i],
                            msgs \ {m})
  <2>1. i \in Voter
    BY <1>0, <1>4 DEF TypeOK, RoleOK
  <2> QED BY <1>0, <1>4, <2>1, electionStartShape
<1>5. CASE /\ m.from \in Voter /\ state[i] = "candidate"
           /\ ~StepsDown(i, m) /\ Counts(i, m)
           /\ Quorum(tally) /\ ~inPreVote[i]
           /\ convertToLeader(i, msgs \ {m})
           /\ UNCHANGED termVars
  <2>1. Ballot(i, m) /\ InElection(i)
    BY <1>2, <1>5 DEF InElection
  <2> QED BY <1>0, <1>5, <2>1, convertToLeaderShape
<1>6. CASE /\ msgs' = msgs \ {m}
           /\ KeepRole
           /\ UNCHANGED <<termVars, lastLog, transferVars>>
  BY <1>0, <1>6, KeepShape, NoNewMessage
<1> QED BY <1>1, <1>3, <1>4, <1>5, <1>6 DEF recvRequestVoteResult

LEMMA recvAppendEntriesShape ==
  ASSUME TypeOK, NEW m \in msgs, recvAppendEntries(m)
  PROVE  TermStep /\ RoleStep /\ GrantStep
<1> DEFINE i == m.to
           reply(term, accepted) ==
             [type |-> "AppendEntriesResult", from |-> i, to |-> m.from,
              term |-> term, accepted |-> accepted]
<1>0. /\ i \in Server /\ m.term \in Nat /\ msgs \ {m} \in SUBSET msgs
  BY MessageFields DEF TypeOK
<1>1. ASSUME NEW term, NEW accepted, Send(msgs \ {m}, {reply(term, accepted)})
      PROVE  GrantStep
  BY <1>0, <1>1, SendGrant
<1>2. CASE /\ Send(msgs \ {m}, {reply(currentTerm[i], FALSE)})
           /\ KeepRole
           /\ UNCHANGED <<termVars, lastLog, transferVars>>
  <2>1. GrantStep
    BY <1>1, <1>2
  <2> QED BY <1>2, <2>1, KeepShape
<1>3. CASE /\ IF m.term > currentTerm[i]
                THEN SetTermAndVote(i, m.term, None)
                ELSE UNCHANGED termVars
           /\ Become(i, "follower", m.from, {}, FALSE, FALSE)
           /\ \E accepted \in BOOLEAN :
                Send(msgs \ {m}, {reply(m.term, accepted)})
  <2>1. GrantStep
    BY <1>1, <1>3
  <2>2. \/ UNCHANGED termVars
        \/ \E term \in Nat, vote \in Server \cup {None} :
              term > currentTerm[i] /\ SetTermAndVote(i, term, vote)
    BY <1>0, <1>3
  <2> QED BY <1>0, <1>3, <2>1, <2>2, DownShape
<1> QED BY <1>2, <1>3 DEF recvAppendEntries

LEMMA recvAppendEntriesResultShape ==
  ASSUME TypeOK, NEW m \in msgs, recvAppendEntriesResult(m)
  PROVE  TermStep /\ RoleStep /\ GrantStep
<1> DEFINE i == m.to
           j == m.from
           startTransfer ==
             transfer[i] = j /\ ~timeoutSent[i] /\ j \notin upToDate[i]
           sent ==
             CASE ~m.accepted ->
                    {h \in heartbeats(i, currentTerm[i], lastLog[i]) : h.to = j}
               [] m.accepted /\ startTransfer -> {timeoutNow(i, j)}
               [] OTHER -> {}
<1>0. /\ i \in Server /\ m.term \in Nat /\ msgs \ {m} \in SUBSET msgs
      /\ m.accepted \in BOOLEAN
  BY MessageFields DEF TypeOK, AppendEntriesResult, recvAppendEntriesResult
<1>1. CASE /\ m.term > currentTerm[i]
           /\ SetTermAndVote(i, m.term, None)
           /\ convertToFollower(i)
           /\ msgs' = msgs \ {m}
  <2>1. \E term \in Nat, vote \in Server \cup {None} :
          term > currentTerm[i] /\ SetTermAndVote(i, term, vote)
    BY <1>0, <1>1
  <2> QED BY <1>0, <1>1, <2>1, DownShape, NoNewMessage DEF convertToFollower
<1>2. CASE /\ Send(msgs \ {m}, sent)
           /\ UNCHANGED <<state, termVars, candidateVars>>
  <2>1. \A r \in sent : r.type # "RequestVoteResult"
    BY <1>0 DEF heartbeats, timeoutNow
  <2>2. GrantStep
    <3> HIDE DEF sent
    <3> QED BY <1>0, <1>2, <2>1, SendGrant
  <2>3. RoleStep
    BY <1>2 DEF RoleStep, candidateVars, termVars, InElection
  <2> QED BY <1>2, <2>2, <2>3 DEF TermStep
<1>3. CASE /\ msgs' = msgs \ {m}
           /\ KeepRole
           /\ UNCHANGED <<termVars, lastLog, transferVars>>
  BY <1>0, <1>3, KeepShape, NoNewMessage
<1> QED BY <1>1, <1>2, <1>3 DEF recvAppendEntriesResult

LEMMA recvTimeoutNowShape ==
  ASSUME TypeOK, NEW m \in msgs, recvTimeoutNow(m)
  PROVE  TermStep /\ RoleStep /\ GrantStep
<1> DEFINE i == m.to
<1>0. /\ i \in Server /\ m.term \in Nat /\ msgs \ {m} \in SUBSET msgs
      /\ currentTerm[i] \in Nat
  BY MessageFields DEF TypeOK, TermOK
<1>1. CASE /\ i \in Voter /\ m.term >= currentTerm[i]
           /\ electionStart(i, m.term, FALSE, TRUE, msgs \ {m})
  BY <1>0, <1>1, electionStartShape
<1>2. CASE /\ state[i] = "follower"
           /\ IF m.term > currentTerm[i]
                THEN SetTermAndVote(i, m.term, None)
                ELSE UNCHANGED termVars
           /\ msgs' = msgs \ {m}
           /\ KeepRole
  <2>1. CASE UNCHANGED termVars
    BY <1>0, <1>2, <2>1, KeepShape, NoNewMessage
  <2>2. CASE m.term > currentTerm[i] /\ SetTermAndVote(i, m.term, None)
    <3>1. m.term >= currentTerm[i] /\ m.term # currentTerm[i]
      BY <1>0, <2>2
    <3>2. TermStep
      BY <1>0, <2>2, <3>1 DEF TermStep
    <3>3. /\ UNCHANGED <<state, votes, inPreVote>>
          /\ \A j \in Server \ {i} : currentTerm'[j] = currentTerm[j]
      BY <1>0, <1>2, <2>2
      DEF KeepRole, candidateVars, SetTermAndVote, TypeOK, TermOK
    <3>4. RoleStep
      BY <1>2, <3>3 DEF RoleStep, InElection
    <3> QED BY <1>0, <1>2, <3>2, <3>4, NoNewMessage
  <2> QED BY <1>2, <2>1, <2>2
<1>3. CASE /\ msgs' = msgs \ {m}
           /\ KeepRole /\ UNCHANGED <<termVars, transferVars>>
  BY <1>0, <1>3, KeepShape, NoNewMessage
<1> QED BY <1>1, <1>2, <1>3 DEF recvTimeoutNow

LEMMA OtherShape ==
  ASSUME TypeOK,
         \/ \E m \in msgs : Lose(m)
         \/ \E i, j \in Server : raft_transfer(i, j)
         \/ \E i \in Server : Crash(i) \/ raft_start(i)
         \/ UNCHANGED vars
  PROVE  TermStep /\ RoleStep /\ GrantStep
<1>1. ASSUME NEW m \in msgs, Lose(m)
      PROVE  TermStep /\ RoleStep /\ GrantStep
  <2>1. msgs \ {m} \in SUBSET msgs
    OBVIOUS
  <2> QED BY <1>1, <2>1, KeepShape, NoNewMessage DEF Lose
<1>2. ASSUME NEW i \in Server, NEW j \in Server, raft_transfer(i, j)
      PROVE  TermStep /\ RoleStep /\ GrantStep
  <2> DEFINE sent == IF j \in upToDate[i] THEN {timeoutNow(i, j)} ELSE {}
  <2>1. Send(msgs, sent) /\ \A r \in sent : r.type # "RequestVoteResult"
    BY <1>2 DEF raft_transfer, timeoutNow
  <2> HIDE DEF sent
  <2>2. msgs \in SUBSET msgs
    OBVIOUS
  <2> QED BY <1>2, <2>1, <2>2, KeepShape, SendGrant DEF raft_transfer
<1>3. ASSUME NEW i \in Server, Crash(i) \/ raft_start(i)
      PROVE  TermStep /\ RoleStep /\ GrantStep
  <2>1. msgs \in SUBSET msgs
    OBVIOUS
  <2> QED BY <1>3, <2>1, DownShape, NoNewMessage
          DEF Crash, raft_start, convertToUnavailable
<1>4. CASE UNCHANGED vars
  BY <1>4 DEF vars, TermStep, RoleStep, GrantStep, termVars, InElection
<1> QED BY <1>1, <1>2, <1>3, <1>4

LEMMA StepShape ==
  ASSUME TypeOK, [Next]_vars
  PROVE  TermStep /\ RoleStep /\ GrantStep
<1>1. ASSUME NEW m \in msgs, recvCb(m)
      PROVE  TermStep /\ RoleStep /\ GrantStep
  BY <1>1, recvRequestVoteShape, recvRequestVoteResultShape,
     recvAppendEntriesShape, recvAppendEntriesResultShape, recvTimeoutNowShape
  DEF recvCb
<1> QED BY <1>1, TickShape, OtherShape DEF Next
-----------------------------------------------------------------------------
(* Votes are stable *)

\* Terms never go back and the vote of a term is only ever replaced by a vote
\* for the transferee: io->set_term and io->set_vote are called under the
\* guards of recvBumpCurrentTerm, electionStart and electionVote, for every
\* number of servers, crashes, restarts and transfers.
THEOREM VotesAreStable == Spec => VoteStability
<1> DEFINE Stable ==
      \A i \in Server :
        /\ currentTerm'[i] >= currentTerm[i]
        /\ currentTerm'[i] = currentTerm[i] /\ votedFor[i] # None =>
             votedFor'[i] \in {votedFor[i], transfer[i]} \ {None}
<1>1. TypeOK /\ [Next]_vars => Stable
  <2> SUFFICES ASSUME TypeOK, [Next]_vars, NEW i \in Server
               PROVE  /\ currentTerm'[i] >= currentTerm[i]
                      /\ currentTerm'[i] = currentTerm[i] /\ votedFor[i] # None =>
                           votedFor'[i] \in {votedFor[i], transfer[i]} \ {None}
    OBVIOUS
  <2>1. currentTerm[i] \in Nat
    BY DEF TypeOK, TermOK
  <2>2. TermStep
    BY StepShape
  <2>3. CASE UNCHANGED termVars
    BY <2>1, <2>3 DEF termVars
  <2>4. ASSUME NEW j \in Server, NEW term \in Nat,
               NEW vote \in Server \cup {None},
               SetTermAndVote(j, term, vote), term >= currentTerm[j],
               term = currentTerm[j] =>
                 \/ vote = votedFor[j]
                 \/ votedFor[j] = None
                 \/ vote = transfer[j] /\ vote # None
        PROVE  /\ currentTerm'[i] >= currentTerm[i]
               /\ currentTerm'[i] = currentTerm[i] /\ votedFor[i] # None =>
                    votedFor'[i] \in {votedFor[i], transfer[i]} \ {None}
    BY <2>1, <2>4 DEF SetTermAndVote, TypeOK, TermOK
  <2> QED BY <2>2, <2>3, <2>4 DEF TermStep
<1>2. TypeOK /\ [Next]_vars => [Stable]_vars
  BY <1>1
<1> HIDE DEF Stable
<1>3. Spec => [][Stable]_vars
  BY <1>2, TypeCorrect, PTL DEF Spec
<1> QED BY <1>3 DEF VoteStability, Stable

-----------------------------------------------------------------------------
(* A leader was elected *)

HasVote(v, term, candidate) ==
  \E c \in cast : c.voter = v /\ c.term = term /\ c.candidate = candidate

VoteRecorded ==
  \A i \in Server : votedFor[i] # None => HasVote(i, currentTerm[i], votedFor[i])

GrantsSound ==
  \A m \in msgs :
    m.type = "RequestVoteResult" /\ m.granted /\ ~m.preVote =>
      HasVote(m.from, m.term, m.to)

BallotSound ==
  \A i \in Server : InElection(i) =>
    \A v \in votes[i] : HasVote(v, currentTerm[i], i)

ElectedInv ==
  TypeOK /\ VoteRecorded /\ GrantsSound /\ BallotSound /\ LeaderWasElected

\* Votes are never taken back, and a vote on disk was recorded.
LEMMA VotesKept ==
  ASSUME TypeOK, VoteRecorded, TermStep
  PROVE  /\ cast \subseteq cast'
         /\ \A v, t, c : HasVote(v, t, c) => HasVote(v, t, c)'
         /\ VoteRecorded'
<1>1. CASE UNCHANGED termVars
  BY <1>1 DEF termVars, HasVote, VoteRecorded
<1>2. ASSUME NEW i \in Server, NEW term \in Nat,
             NEW vote \in Server \cup {None}, SetTermAndVote(i, term, vote)
      PROVE  cast \subseteq cast' /\ VoteRecorded'
  <2>1. cast \subseteq cast'
    BY <1>2 DEF SetTermAndVote
  <2>2. \A j \in Server \ {i} :
          currentTerm'[j] = currentTerm[j] /\ votedFor'[j] = votedFor[j]
    BY <1>2 DEF SetTermAndVote, TypeOK, TermOK
  <2>3. currentTerm'[i] = term /\ votedFor'[i] = vote
    BY <1>2 DEF SetTermAndVote, TypeOK, TermOK
  <2>4. vote # None => HasVote(i, term, vote)'
    <3>1. CASE vote # None /\ term = currentTerm[i] /\ vote = votedFor[i]
      BY <2>1, <3>1 DEF VoteRecorded, HasVote
    <3>2. CASE vote # None /\ ~(term = currentTerm[i] /\ vote = votedFor[i])
      <4>1. VoteOf(i, term, vote) \in cast'
        BY <1>2, <3>2 DEF SetTermAndVote
      <4>2. /\ VoteOf(i, term, vote).voter = i
            /\ VoteOf(i, term, vote).term = term
            /\ VoteOf(i, term, vote).candidate = vote
        BY DEF VoteOf
      <4> QED BY <4>1, <4>2 DEF HasVote
    <3> QED BY <3>1, <3>2
  <2> QED BY <2>1, <2>2, <2>3, <2>4 DEF VoteRecorded, HasVote
<1>3. cast \subseteq cast' => \A v, t, c : HasVote(v, t, c) => HasVote(v, t, c)'
  BY DEF HasVote
<1> QED BY <1>1, <1>2, <1>3 DEF TermStep

LEMMA VoterFinite == IsFiniteSet(Voter) /\ Cardinality(Voter) \in Nat
BY ServerAssumption, FS_Subset, FS_CardinalityType

LEMMA QuorumMonotone ==
  ASSUME NEW S, NEW T \in SUBSET Voter, S \subseteq T, Quorum(S)
  PROVE  Quorum(T)
<1>1. IsFiniteSet(T) /\ IsFiniteSet(S)
  BY VoterFinite, FS_Subset
<1>2. Cardinality(S) <= Cardinality(T)
  BY <1>1, FS_Subset
<1>3. Cardinality(S) \in Nat /\ Cardinality(T) \in Nat
  BY <1>1, FS_CardinalityType
<1> QED BY <1>2, <1>3, VoterFinite DEF Quorum

LEMMA ElectedInductive ==
  ASSUME ElectedInv, TypeOK', TermStep, RoleStep, GrantStep
  PROVE  ElectedInv'
<1> USE DEF ElectedInv
<1>1. /\ \A v, t, c : HasVote(v, t, c) => HasVote(v, t, c)'
      /\ VoteRecorded'
  BY VotesKept
<1>2. GrantsSound'
  <2> SUFFICES ASSUME NEW m \in msgs', m.type = "RequestVoteResult",
                      m.granted, ~m.preVote
               PROVE  HasVote(m.from, m.term, m.to)'
    BY DEF GrantsSound
  <2>1. CASE m \in msgs
    BY <1>1, <2>1 DEF GrantsSound
  <2>2. CASE /\ m.from \in Server /\ m.to \in Server
             /\ votedFor'[m.from] = m.to /\ currentTerm'[m.from] = m.term
    BY <1>1, <2>2, ServerAssumption DEF VoteRecorded
  <2> QED BY <2>1, <2>2 DEF GrantStep
<1>3. ASSUME NEW i \in Server, NEW m \in msgs, Ballot(i, m),
             currentTerm'[i] = currentTerm[i]
      PROVE  HasVote(m.from, currentTerm[i], i)'
  <2>1. HasVote(m.from, currentTerm[i], i)
    BY <1>3 DEF Ballot, GrantsSound
  <2> QED BY <1>1, <1>3, <2>1
<1>4. BallotSound'
  <2> SUFFICES ASSUME NEW i \in Server, InElection(i)', NEW v \in votes'[i]
               PROVE  HasVote(v, currentTerm[i], i)'
    BY DEF BallotSound
  <2>1. CASE /\ currentTerm'[i] = currentTerm[i] /\ InElection(i)
             /\ \/ votes'[i] = votes[i]
                \/ \E m \in msgs : Ballot(i, m) /\ votes'[i] = votes[i] \cup {m.from}
    <3>1. CASE v \in votes[i]
      <4>1. HasVote(v, currentTerm[i], i)
        BY <2>1, <3>1 DEF BallotSound
      <4> QED BY <1>1, <2>1, <4>1
    <3>2. CASE \E m \in msgs : Ballot(i, m) /\ v = m.from
      BY <1>3, <2>1, <3>2
    <3> QED BY <2>1, <3>1, <3>2
  <2>2. CASE votes'[i] = {i} /\ votedFor'[i] = i
    BY <1>1, <2>2, ServerAssumption DEF VoteRecorded
  <2> QED BY <2>1, <2>2 DEF RoleStep, InElection
<1>5. LeaderWasElected'
  <2> SUFFICES ASSUME NEW i \in Server, state'[i] = "leader"
               PROVE  Quorum(VotersOf(i)')
    BY DEF LeaderWasElected, Quorum
  <2>1. currentTerm'[i] = currentTerm[i]
    BY DEF RoleStep
  <2>2. \A v \in Voter : HasVote(v, currentTerm[i], i)' => v \in VotersOf(i)'
    BY <2>1 DEF HasVote, VotersOf
  <2>3. VotersOf(i)' \in SUBSET Voter
    BY DEF VotersOf
  <2>4. CASE state[i] = "leader"
    <3>1. Quorum(VotersOf(i))
      BY <2>4 DEF LeaderWasElected
    <3>2. VotersOf(i) \subseteq VotersOf(i)'
      <4>1. \A v \in VotersOf(i) : v \in Voter /\ HasVote(v, currentTerm[i], i)
        BY DEF HasVote, VotersOf
      <4>2. \A v \in VotersOf(i) : HasVote(v, currentTerm[i], i)'
        BY <1>1, <2>1, <4>1
      <4> QED BY <2>2, <4>1, <4>2
    <3> QED BY <2>3, <3>1, <3>2, QuorumMonotone
  <2>5. ASSUME InElection(i), NEW m \in msgs, Ballot(i, m),
               Quorum(votes[i] \cup {m.from})
        PROVE  Quorum(VotersOf(i)')
    <3>1. m.from \in VotersOf(i)'
      BY <1>3, <2>1, <2>2, <2>5 DEF Ballot
    <3>2. votes[i] \subseteq VotersOf(i)'
      <4>1. \A v \in votes[i] : v \in Voter /\ HasVote(v, currentTerm[i], i)
        BY <2>5 DEF BallotSound, TypeOK, RoleOK
      <4>2. \A v \in votes[i] : HasVote(v, currentTerm[i], i)'
        BY <1>1, <2>1, <4>1
      <4> QED BY <2>2, <4>1, <4>2
    <3> QED BY <2>3, <2>5, <3>1, <3>2, QuorumMonotone
  <2> QED BY <2>4, <2>5 DEF RoleStep
<1> QED BY <1>1, <1>2, <1>4, <1>5
LEMMA InitVotesRecorded ==
  ASSUME Init
  PROVE  VoteRecorded /\ \A c \in cast : /\ c.voter \in Server
                                         /\ c.term = currentTerm[c.voter]
                                         /\ c.candidate = votedFor[c.voter]
<1>1. \A i \in Server : votedFor[i] # None =>
        VoteOf(i, currentTerm[i], votedFor[i]) \in cast
  BY DEF Init
<1>2. \A c \in cast : \E i \in Server : c = VoteOf(i, currentTerm[i], votedFor[i])
  BY DEF Init
<1>3. ASSUME NEW i \in Server
      PROVE  LET c == VoteOf(i, currentTerm[i], votedFor[i])
             IN  /\ c.voter = i /\ c.term = currentTerm[i]
                 /\ c.candidate = votedFor[i]
  BY DEF VoteOf
<1> QED BY <1>1, <1>2, <1>3 DEF VoteRecorded, HasVote

\* Whoever leads a term holds the votes of a quorum cast in that very term:
\* the checks of recvRequestVoteResult keep out answers of earlier terms, of
\* the pre-vote phase and of elections started before a crash.
THEOREM LeadersAreElected == Spec => []LeaderWasElected
<1>1. Init => ElectedInv
  <2> SUFFICES ASSUME Init PROVE ElectedInv
    OBVIOUS
  <2>1. TypeOK /\ VoteRecorded
    BY InitType, InitVotesRecorded
  <2>2. GrantsSound /\ BallotSound /\ LeaderWasElected
    BY DEF Init, GrantsSound, BallotSound, LeaderWasElected, InElection
  <2> QED BY <2>1, <2>2 DEF ElectedInv
<1>2. ElectedInv /\ TypeOK /\ TypeOK' /\ [Next]_vars => ElectedInv'
  BY StepShape, ElectedInductive
<1>3. ElectedInv => LeaderWasElected
  BY DEF ElectedInv
<1> QED BY <1>1, <1>2, <1>3, TypeCorrect, PTL DEF Spec

-----------------------------------------------------------------------------
(* Election safety, in a cluster whose application never calls raft_transfer *)

NoTransfer == \A i \in Server : transfer[i] = None

\* The vote of a server's current term is the one in its metadata.
VotesCurrent ==
  \A c \in cast :
    /\ c.term <= currentTerm[c.voter]
    /\ c.term = currentTerm[c.voter] => c.candidate = votedFor[c.voter]

OneVotePerTerm ==
  \A c, d \in cast :
    c.voter = d.voter /\ c.term = d.term => c.candidate = d.candidate

SafetyInv == ElectedInv /\ NoTransfer /\ VotesCurrent /\ OneVotePerTerm

LEMMA NoTransferInductive ==
  ASSUME Transferrer = {}, TypeOK, NoTransfer, [Next]_vars
  PROVE  NoTransfer'
<1>0. ASSUME UNCHANGED transferVars PROVE NoTransfer'
  BY <1>0 DEF NoTransfer, transferVars
<1>1. ASSUME NEW i \in Server, CloseTransfer(i) PROVE NoTransfer'
  BY <1>1 DEF CloseTransfer, NoTransfer, TypeOK, TransferOK
<1>2. ASSUME NEW i \in Server, NEW base, NEW pre, NEW disrupt, NEW rest,
             electionStart(i, base, pre, disrupt, rest)
      PROVE  NoTransfer'
  BY <1>0, <1>1, <1>2 DEF electionStart, convertToUnavailable
<1>3. ASSUME NEW m \in msgs, recvCb(m) PROVE NoTransfer'
  <2>0. m.to \in Server
    BY MessageFields DEF TypeOK
  <2>1. CASE recvRequestVote(m)
    BY <1>0, <2>1 DEF recvRequestVote, convertToFollower
  <2>2. CASE recvRequestVoteResult(m)
    BY <1>0, <1>1, <1>2, <2>0, <2>2
    DEF recvRequestVoteResult, convertToFollower, convertToLeader,
        convertToUnavailable
  <2>3. CASE recvAppendEntries(m)
    BY <1>0, <1>1, <2>0, <2>3 DEF recvAppendEntries
  <2>4. CASE recvAppendEntriesResult(m)
    <3>1. CASE UNCHANGED transfer
      BY <3>1 DEF NoTransfer
    <3> QED BY <1>0, <2>4, <3>1 DEF recvAppendEntriesResult, convertToFollower
  <2>5. CASE recvTimeoutNow(m)
    BY <1>0, <1>2, <2>0, <2>5 DEF recvTimeoutNow
  <2> QED BY <1>3, <2>1, <2>2, <2>3, <2>4, <2>5 DEF recvCb
<1>4. ASSUME NEW m \in msgs, Lose(m) PROVE NoTransfer'
  BY <1>0, <1>4 DEF Lose
<1>5. ASSUME NEW i \in Server,
             \/ TickFollower(i) \/ TickCandidate(i)
             \/ TickLeaderHeartbeat(i) \/ TickLeaderContact(i)
             \/ TransferExpires(i) \/ Crash(i) \/ raft_start(i)
      PROVE  NoTransfer'
  BY <1>0, <1>1, <1>2, <1>5
  DEF TickFollower, TickCandidate, TickLeaderHeartbeat, TickLeaderContact,
      TransferExpires, Crash, raft_start, convertToFollower,
      convertToUnavailable
<1>6. \A i, j : ~raft_transfer(i, j)
  BY DEF raft_transfer
<1>7. CASE UNCHANGED vars
  BY <1>7 DEF vars, NoTransfer
<1> QED BY <1>3, <1>4, <1>5, <1>6, <1>7 DEF Next

LEMMA VotesInductive ==
  ASSUME TypeOK, NoTransfer, VotesCurrent, OneVotePerTerm, TermStep
  PROVE  VotesCurrent' /\ OneVotePerTerm'
<1>1. CASE UNCHANGED termVars
  BY <1>1 DEF termVars, VotesCurrent, OneVotePerTerm
<1>2. ASSUME NEW i \in Server, NEW term \in Nat,
             NEW vote \in Server \cup {None},
             SetTermAndVote(i, term, vote), term >= currentTerm[i],
             term = currentTerm[i] =>
               \/ vote = votedFor[i]
               \/ votedFor[i] = None
               \/ vote = transfer[i] /\ vote # None
      PROVE  VotesCurrent' /\ OneVotePerTerm'
  <2> USE ServerAssumption
  <2>1. /\ currentTerm' = [currentTerm EXCEPT ![i] = term]
        /\ votedFor' = [votedFor EXCEPT ![i] = vote]
        /\ currentTerm \in [Server -> Nat]
        /\ votedFor \in [Server -> Server \cup {None}]
    BY <1>2 DEF SetTermAndVote, TypeOK, TermOK
  <2>2. \A c \in cast : c.voter \in Server /\ c.term \in Nat /\ c.candidate \in Server
    BY DEF TypeOK, TermOK, Vote
  <2>3. \A c \in cast : c.voter = i =>
          c.term < term \/ (c.term = term /\ votedFor[i] = c.candidate
                            /\ vote = c.candidate /\ term = currentTerm[i])
    <3> SUFFICES ASSUME NEW c \in cast, c.voter = i, ~(c.term < term)
                 PROVE  /\ c.term = term /\ votedFor[i] = c.candidate
                        /\ vote = c.candidate /\ term = currentTerm[i]
      OBVIOUS
    <3>1. c.term <= currentTerm[i] /\ currentTerm[i] \in Nat /\ c.term \in Nat
      BY <2>1, <2>2 DEF VotesCurrent
    <3>2. c.term = term /\ term = currentTerm[i]
      BY <1>2, <3>1
    <3>3. votedFor[i] = c.candidate /\ votedFor[i] # None
      BY <2>2, <3>2 DEF VotesCurrent
    <3> QED BY <1>2, <3>2, <3>3 DEF NoTransfer
  <2>4. \A c \in cast' : c \in cast \/
          /\ c.voter = i /\ c.term = term /\ c.candidate = vote
          /\ vote # None
          /\ ~(term = currentTerm[i] /\ vote = votedFor[i])
    BY <1>2 DEF SetTermAndVote, VoteOf
  <2>5. VotesCurrent'
    <3> SUFFICES ASSUME NEW c \in cast'
                 PROVE  /\ c.term <= currentTerm'[c.voter]
                        /\ c.term = currentTerm'[c.voter] =>
                             c.candidate = votedFor'[c.voter]
      BY DEF VotesCurrent
    <3>1. CASE c \in cast /\ c.voter # i
      BY <2>1, <2>2, <3>1 DEF VotesCurrent
    <3>2. CASE c \in cast /\ c.voter = i
      BY <1>2, <2>1, <2>2, <2>3, <3>2
    <3>3. CASE c.voter = i /\ c.term = term /\ c.candidate = vote
      BY <2>1, <3>3
    <3> QED BY <2>4, <3>1, <3>2, <3>3
  <2>6. OneVotePerTerm'
    <3>1. ASSUME NEW c \in cast, NEW d \in cast', d \notin cast,
                 c.voter = d.voter, c.term = d.term
          PROVE  FALSE
      BY <1>2, <2>2, <2>3, <2>4, <3>1
    <3> QED BY <2>4, <3>1 DEF OneVotePerTerm
  <2> QED BY <2>5, <2>6
<1> QED BY <1>1, <1>2 DEF TermStep

\* Two quorums of voters share a voter.
LEMMA QuorumsMeet ==
  ASSUME NEW S \in SUBSET Voter, NEW T \in SUBSET Voter, Quorum(S), Quorum(T)
  PROVE  S \cap T # {}
<1>1. /\ IsFiniteSet(S) /\ IsFiniteSet(T) /\ IsFiniteSet(Voter)
      /\ IsFiniteSet(S \cup T) /\ IsFiniteSet(S \cap T)
  BY VoterFinite, FS_Subset, FS_Union, FS_Intersection
<1>2. /\ Cardinality(S) \in Nat /\ Cardinality(T) \in Nat
      /\ Cardinality(Voter) \in Nat /\ Cardinality(S \cup T) \in Nat
      /\ Cardinality(S \cap T) \in Nat
  BY <1>1, FS_CardinalityType
<1>3. Cardinality(S \cup T) =
        Cardinality(S) + Cardinality(T) - Cardinality(S \cap T)
  BY <1>1, FS_Union
<1>4. Cardinality(S \cup T) <= Cardinality(Voter)
  BY <1>1, FS_Subset
<1>5. Cardinality(S \cap T) # 0
  BY <1>2, <1>3, <1>4 DEF Quorum
<1> QED BY <1>5, FS_EmptySet

LEMMA OneVoteOneLeader ==
  ASSUME ElectedInv, OneVotePerTerm
  PROVE  ElectionSafety
<1> SUFFICES ASSUME NEW i \in Server, NEW j \in Server,
                    state[i] = "leader", state[j] = "leader",
                    currentTerm[i] = currentTerm[j]
             PROVE  i = j
  BY DEF ElectionSafety
<1>1. Quorum(VotersOf(i)) /\ Quorum(VotersOf(j))
  BY DEF ElectedInv, LeaderWasElected
<1>2. VotersOf(i) \in SUBSET Voter /\ VotersOf(j) \in SUBSET Voter
  BY DEF VotersOf
<1>3. PICK v \in Voter : v \in VotersOf(i) /\ v \in VotersOf(j)
  BY <1>1, <1>2, QuorumsMeet
<1>4. PICK c \in cast : c.voter = v /\ c.term = currentTerm[i] /\ c.candidate = i
  BY <1>3 DEF VotersOf
<1>5. PICK d \in cast : d.voter = v /\ d.term = currentTerm[j] /\ d.candidate = j
  BY <1>3 DEF VotersOf
<1> QED BY <1>4, <1>5 DEF OneVotePerTerm

\* At most one leader can be elected in any given term, the comment and the
\* assertion of recvAppendEntries, for every configuration whose application
\* never calls raft_transfer (with transfers TLC finds two leaders).
THEOREM OneLeaderPerTerm ==
  ASSUME Transferrer = {}
  PROVE  Spec => []ElectionSafety
<1>1. Init => SafetyInv
  <2> SUFFICES ASSUME Init PROVE SafetyInv
    OBVIOUS
  <2>1. TypeOK /\ VoteRecorded
    BY InitType, InitVotesRecorded
  <2>2. ElectedInv
    BY <2>1
    DEF Init, GrantsSound, BallotSound, LeaderWasElected, InElection, ElectedInv
  <2>3. NoTransfer
    BY DEF Init, NoTransfer
  <2>4. \A c \in cast : currentTerm[c.voter] \in Nat
    BY <2>1, InitVotesRecorded DEF TypeOK, TermOK
  <2>5. VotesCurrent /\ OneVotePerTerm
    BY <2>4, InitVotesRecorded DEF VotesCurrent, OneVotePerTerm
  <2> QED BY <2>2, <2>3, <2>5 DEF SafetyInv
<1>2. SafetyInv /\ TypeOK /\ TypeOK' /\ [Next]_vars => SafetyInv'
  <2> SUFFICES ASSUME SafetyInv, TypeOK, TypeOK', [Next]_vars PROVE SafetyInv'
    OBVIOUS
  <2>1. TermStep /\ RoleStep /\ GrantStep
    BY StepShape
  <2>2. ElectedInv'
    BY <2>1, ElectedInductive DEF SafetyInv
  <2>3. NoTransfer'
    BY NoTransferInductive DEF SafetyInv
  <2>4. VotesCurrent' /\ OneVotePerTerm'
    BY <2>1, VotesInductive DEF SafetyInv
  <2> QED BY <2>2, <2>3, <2>4 DEF SafetyInv
<1>3. SafetyInv => ElectionSafety
  BY OneVoteOneLeader DEF SafetyInv
<1> QED BY <1>1, <1>2, <1>3, TypeCorrect, PTL DEF Spec
-----------------------------------------------------------------------------
(* A candidate's log covers the logs of its voters *)

\* A request for a vote in an election proper.
Request(m) == m.type = "RequestVote" /\ ~m.preVote

\* A request carries the term and the log its sender has when it sends it.
RequestStep ==
  \A m \in msgs' : Request(m) =>
    \/ m \in msgs
    \/ m.from \in Server /\ m.term = currentTerm'[m.from] /\ m.lastLog = lastLog'[m.from]

\* While a server counts votes its log stays as it is.
LogStep ==
  \A i \in Server : state'[i] = "candidate" /\ ~inPreVote'[i] =>
    \/ InElection(i) /\ currentTerm'[i] = currentTerm[i] /\ lastLog'[i] = lastLog[i]
    \/ currentTerm'[i] > currentTerm[i]

\* A vote is cast by a candidate for itself, or after the comparison of the
\* voter's log with that of a request.
CastStep ==
  \A c \in cast' :
    \/ c \in cast
    \/ /\ c.candidate \in Server /\ c.term = currentTerm'[c.candidate]
       /\ c.lastLog = lastLog'[c.candidate]
    \/ \E m \in msgs : /\ Request(m) /\ m.from = c.candidate /\ m.term = c.term
                       /\ AtLeastAsUpToDate(m.lastLog, c.lastLog)

CoverStep == RequestStep /\ LogStep /\ CastStep

LEMMA RequestKept ==
  ASSUME NEW rest \in SUBSET msgs, NEW new,
         Send(rest, new) \/ (msgs' = rest /\ new = {}),
         \A m \in new : ~Request(m)
  PROVE  RequestStep
BY DEF RequestStep, Send

\* Steps that keep the log and start no election.
LEMMA KeepCover ==
  ASSUME TypeOK, RequestStep, UNCHANGED lastLog, KeepRole, UNCHANGED termVars
  PROVE  CoverStep
<1>1. LogStep
  BY DEF LogStep, KeepRole, candidateVars, termVars, InElection
<1>2. CastStep
  BY DEF CastStep, termVars
<1> QED BY <1>1, <1>2 DEF CoverStep

\* A server that becomes follower, leader or unavailable counts no votes.
LEMMA DownCover ==
  ASSUME TypeOK, RequestStep, NEW i \in Server, NEW leader,
         NEW role \in State \ {"candidate"},
         Become(i, role, leader, {}, FALSE, FALSE),
         NEW pos, lastLog' = [lastLog EXCEPT ![i] = pos] \/ lastLog' = lastLog,
         \/ UNCHANGED termVars
         \/ \E term \in Nat : SetTermAndVote(i, term, None)
  PROVE  CoverStep
<1>1. \A k \in Server \ {i} : currentTerm'[k] = currentTerm[k] /\ lastLog'[k] = lastLog[k]
  BY DEF SetTermAndVote, termVars, TypeOK, TermOK
<1>2. /\ state'[i] # "candidate"
      /\ \A k \in Server \ {i} : state'[k] = state[k] /\ inPreVote'[k] = inPreVote[k]
  BY DEF Become, TypeOK, RoleOK
<1>3. LogStep
  BY <1>1, <1>2 DEF LogStep, InElection
<1>4. CastStep
  BY DEF CastStep, termVars, SetTermAndVote
<1> QED BY <1>3, <1>4 DEF CoverStep

LEMMA electionStartCover ==
  ASSUME TypeOK, NEW i \in Voter, NEW base \in Nat, NEW pre, NEW disrupt,
         NEW rest \in SUBSET msgs, base >= currentTerm[i], UNCHANGED lastLog,
         electionStart(i, base, pre, disrupt, rest)
  PROVE  CoverStep
<1> USE ServerAssumption
<1>0. /\ i \in Server /\ currentTerm[i] \in Nat /\ base + 1 \in Nat
      /\ base + 1 > currentTerm[i]
  BY DEF TypeOK, TermOK
<1>2. CASE /\ Become(i, "candidate", None, {i}, TRUE, disrupt)
           /\ Send(rest, electionSend(i, base, disrupt, TRUE))
           /\ UNCHANGED <<termVars, transferVars>>
  <2>1. RequestStep
    <3>1. \A m \in electionSend(i, base, disrupt, TRUE) : ~Request(m)
      BY DEF electionSend, Request
    <3> HIDE DEF electionSend
    <3> QED BY <1>2, <3>1, RequestKept
  <2>2. /\ inPreVote'[i]
        /\ \A k \in Server \ {i} : state'[k] = state[k] /\ inPreVote'[k] = inPreVote[k]
    BY <1>0, <1>2 DEF Become, TypeOK, RoleOK
  <2>3. LogStep
    BY <1>2, <2>2 DEF LogStep, InElection, termVars
  <2>4. CastStep
    BY <1>2 DEF CastStep, termVars
  <2> QED BY <2>1, <2>3, <2>4 DEF CoverStep
<1>3. CASE /\ SetTermAndVote(i, base + 1, i)
           /\ Become(i, "candidate", None, {i}, FALSE, disrupt)
           /\ Send(rest, electionSend(i, base + 1, disrupt, FALSE))
  <2>1. /\ currentTerm'[i] = base + 1
        /\ \A k \in Server \ {i} : currentTerm'[k] = currentTerm[k]
    BY <1>0, <1>3 DEF SetTermAndVote, TypeOK, TermOK
  <2>2. RequestStep
    <3>1. \A m \in electionSend(i, base + 1, disrupt, FALSE) :
            m.from = i /\ m.term = base + 1 /\ m.lastLog = lastLog[i]
      BY DEF electionSend
    <3> HIDE DEF electionSend
    <3> QED BY <1>0, <1>3, <2>1, <3>1 DEF RequestStep, Send
  <2>3. \A k \in Server \ {i} : state'[k] = state[k] /\ inPreVote'[k] = inPreVote[k]
    BY <1>0, <1>3 DEF Become, TypeOK, RoleOK
  <2>4. LogStep
    BY <1>0, <2>1, <2>3 DEF LogStep, InElection
  <2>5. CastStep
    <3>1. cast' \subseteq cast \cup {VoteOf(i, base + 1, i)}
      BY <1>3 DEF SetTermAndVote
    <3>2. /\ VoteOf(i, base + 1, i).candidate = i /\ VoteOf(i, base + 1, i).term = base + 1
          /\ VoteOf(i, base + 1, i).lastLog = lastLog[i]
      BY DEF VoteOf
    <3> QED BY <1>0, <2>1, <3>1, <3>2 DEF CastStep
  <2> QED BY <2>2, <2>4, <2>5 DEF CoverStep
<1>4. CASE /\ SetTermAndVote(i, base + 1, None)
           /\ convertToUnavailable(i)
           /\ msgs' = rest
  <2>1. RequestStep
    BY <1>4 DEF RequestStep
  <2> QED BY <1>0, <1>4, <2>1, DownCover DEF convertToUnavailable, State
<1> QED BY <1>2, <1>3, <1>4 DEF electionStart

LEMMA TickCover ==
  ASSUME TypeOK, NEW i \in Server,
         \/ TickFollower(i) \/ TickCandidate(i)
         \/ TickLeaderHeartbeat(i) \/ TickLeaderContact(i)
         \/ TransferExpires(i)
  PROVE  CoverStep
<1>0. /\ msgs \in SUBSET msgs /\ currentTerm[i] \in Nat
      /\ currentTerm[i] >= currentTerm[i]
      /\ \A m \in heartbeats(i, currentTerm[i], lastLog[i]) : ~Request(m)
  BY DEF TypeOK, TermOK, heartbeats, Request
<1>1. CASE TickFollower(i)
  BY <1>0, <1>1, electionStartCover DEF TickFollower
<1>2. CASE TickCandidate(i)
  <2>1. i \in Voter
    BY <1>2 DEF TickCandidate, TypeOK, RoleOK
  <2> QED BY <1>0, <1>2, <2>1, electionStartCover DEF TickCandidate
<1>3. CASE TickLeaderHeartbeat(i)
  <2>1. RequestStep
    BY <1>0, <1>3, RequestKept DEF TickLeaderHeartbeat
  <2> QED BY <1>3, <2>1, KeepCover DEF TickLeaderHeartbeat, KeepRole
<1>4. CASE TickLeaderContact(i)
  <2>0. UNCHANGED termVars /\ UNCHANGED lastLog
    BY <1>4 DEF TickLeaderContact
  <2>1. CASE convertToFollower(i) /\ UNCHANGED msgs
    <3>1. RequestStep
      BY <2>1 DEF RequestStep
    <3> QED BY <2>0, <2>1, <3>1, DownCover DEF convertToFollower, State
  <2>2. CASE /\ Send(msgs, heartbeats(i, currentTerm[i], lastLog[i]))
             /\ UNCHANGED <<state, currentLeader, candidateVars, upToDate,
                            transferVars>>
    <3>1. RequestStep
      BY <1>0, <2>2, RequestKept
    <3>2. LogStep
      BY <2>0, <2>2 DEF LogStep, termVars, candidateVars, InElection
    <3>3. CastStep
      BY <2>0 DEF CastStep, termVars
    <3> QED BY <3>1, <3>2, <3>3 DEF CoverStep
  <2> QED BY <1>4, <2>1, <2>2 DEF TickLeaderContact
<1>5. CASE TransferExpires(i)
  <2>1. RequestStep
    BY <1>5 DEF RequestStep, TransferExpires
  <2> QED BY <1>5, <2>1, KeepCover DEF TransferExpires
<1> QED BY <1>1, <1>2, <1>3, <1>4, <1>5

LEMMA recvRequestVoteCover ==
  ASSUME TypeOK, NEW m \in msgs, recvRequestVote(m)
  PROVE  CoverStep
<1> DEFINE i == m.to
           ignored == HasLeader(i) /\ ~m.disruptLeader
           bump == ~ignored /\ ~m.preVote /\ m.term > currentTerm[i]
           term == IF bump THEN m.term ELSE currentTerm[i]
           voted == IF bump THEN None ELSE votedFor[i]
           granted == /\ ~ignored
                      /\ m.term >= currentTerm[i]
                      /\ electionVote(i, m, voted)
           vote == IF granted /\ ~m.preVote THEN m.from ELSE voted
           reply == [type |-> "RequestVoteResult", from |-> i, to |-> m.from,
                     term |-> IF m.preVote THEN m.term ELSE term,
                     granted |-> granted, preVote |-> m.preVote]
<1>1. /\ i \in Server /\ m.from \in Server /\ m.term \in Nat
      /\ currentTerm[i] \in Nat /\ currentTerm \in [Server -> Nat]
      /\ m.type = "RequestVote" /\ m.preVote \in BOOLEAN
  BY MessageFields DEF TypeOK, TermOK, recvRequestVote, RequestVote
<1>2. /\ SetTermAndVote(i, term, vote)
      /\ IF bump /\ state[i] # "follower"
           THEN convertToFollower(i)
           ELSE KeepRole /\ UNCHANGED transferVars
      /\ Send(msgs \ {m}, {reply}) /\ UNCHANGED lastLog
  BY DEF recvRequestVote
<1>3. RequestStep
  <2>1. ~Request(reply) /\ msgs \ {m} \in SUBSET msgs
    BY DEF Request
  <2> HIDE DEF reply
  <2> QED BY <1>2, <2>1, RequestKept
<1>4. /\ vote = None \/ (term = currentTerm[i] /\ vote = votedFor[i]) \/ (granted /\ ~m.preVote)
      /\ granted /\ ~m.preVote => /\ Request(m) /\ vote = m.from /\ term = m.term
                                  /\ AtLeastAsUpToDate(m.lastLog, lastLog[i])
      /\ bump => term > currentTerm[i]
      /\ ~bump => term = currentTerm[i]
  BY <1>1 DEF Request, electionVote
<1> HIDE DEF i, bump, term, voted, granted, vote, reply
<1>5. CastStep
  <2>1. \/ cast' = cast
        \/ granted /\ ~m.preVote /\ cast' = cast \cup {VoteOf(i, term, vote)}
    BY <1>2, <1>4 DEF SetTermAndVote
  <2>2. /\ VoteOf(i, term, vote).candidate = vote /\ VoteOf(i, term, vote).term = term
        /\ VoteOf(i, term, vote).lastLog = lastLog[i]
    BY DEF VoteOf
  <2> QED BY <1>4, <2>1, <2>2 DEF CastStep
<1>6. LogStep
  <2>1. CASE bump /\ state[i] # "follower" /\ convertToFollower(i)
    <3>1. /\ state'[i] # "candidate"
          /\ \A k \in Server \ {i} : state'[k] = state[k] /\ inPreVote'[k] = inPreVote[k]
      BY <1>1, <2>1 DEF convertToFollower, Become, TypeOK, RoleOK
    <3>2. \A k \in Server \ {i} : currentTerm'[k] = currentTerm[k]
      BY <1>1, <1>2 DEF SetTermAndVote
    <3> QED BY <1>2, <3>1, <3>2 DEF LogStep, InElection
  <2>2. CASE KeepRole /\ ~(bump /\ state[i] # "follower")
    <3>1. /\ UNCHANGED <<state, inPreVote>> /\ currentTerm'[i] = term
          /\ \A k \in Server \ {i} : currentTerm'[k] = currentTerm[k]
      BY <1>1, <1>2, <2>2 DEF KeepRole, candidateVars, SetTermAndVote
    <3>2. state[i] # "follower" => currentTerm'[i] = currentTerm[i]
      BY <1>4, <2>2, <3>1
    <3> QED BY <1>2, <3>1, <3>2 DEF LogStep, InElection
  <2> QED BY <1>2, <2>1, <2>2
<1> QED BY <1>3, <1>5, <1>6 DEF CoverStep

LEMMA recvRequestVoteResultCover ==
  ASSUME TypeOK, NEW m \in msgs, recvRequestVoteResult(m)
  PROVE  CoverStep
<1> DEFINE i == m.to
           tally == votes[i] \cup {m.from}
           pos == [term |-> currentTerm[i], index |-> lastLog[i].index + 1]
<1>0. /\ i \in Server /\ m.term \in Nat /\ currentTerm[i] \in Nat
      /\ currentTerm[i] >= currentTerm[i] /\ msgs \ {m} \in SUBSET msgs
  BY MessageFields DEF TypeOK, TermOK
<1>1. msgs' = msgs \ {m} => RequestStep
  BY DEF RequestStep
<1>2. CASE /\ SetTermAndVote(i, m.term, None)
           /\ convertToFollower(i)
           /\ msgs' = msgs \ {m}
           /\ UNCHANGED lastLog
  BY <1>0, <1>1, <1>2, DownCover DEF convertToFollower, State
<1>3. CASE /\ msgs' = msgs \ {m}
           /\ UNCHANGED <<state, termVars, currentLeader, inPreVote,
                          disruptLeader, leaderVars, lastLog, transferVars>>
  <2>1. LogStep
    BY <1>3 DEF LogStep, termVars, InElection
  <2>2. CastStep
    BY <1>3 DEF CastStep, termVars
  <2> QED BY <1>1, <1>3, <2>1, <2>2 DEF CoverStep
<1>4. CASE /\ state[i] = "candidate"
           /\ electionStart(i, currentTerm[i], FALSE, disruptLeader[i],
                            msgs \ {m})
           /\ UNCHANGED lastLog
  <2>1. i \in Voter
    BY <1>0, <1>4 DEF TypeOK, RoleOK
  <2> QED BY <1>0, <1>4, <2>1, electionStartCover
<1>5. CASE convertToLeader(i, msgs \ {m}) /\ UNCHANGED termVars
  <2>1. CASE /\ Become(i, "leader", None, {}, FALSE, FALSE)
             /\ lastLog' = [lastLog EXCEPT ![i] = pos]
             /\ Send(msgs \ {m}, heartbeats(i, currentTerm[i], pos))
    <3>1. \A h \in heartbeats(i, currentTerm[i], pos) : ~Request(h)
      BY DEF heartbeats, Request
    <3> HIDE DEF pos
    <3>2. RequestStep
      BY <1>0, <2>1, <3>1, RequestKept
    <3> QED BY <1>0, <1>5, <2>1, <3>2, DownCover DEF State
  <2>2. CASE convertToUnavailable(i) /\ msgs' = msgs \ {m} /\ UNCHANGED lastLog
    BY <1>0, <1>1, <1>5, <2>2, DownCover DEF convertToUnavailable, State
  <2> QED BY <1>5, <2>1, <2>2 DEF convertToLeader
<1>6. CASE /\ msgs' = msgs \ {m}
           /\ KeepRole
           /\ UNCHANGED <<termVars, lastLog, transferVars>>
  BY <1>1, <1>6, KeepCover
<1> QED BY <1>2, <1>3, <1>4, <1>5, <1>6 DEF recvRequestVoteResult

LEMMA recvAppendEntriesCover ==
  ASSUME TypeOK, NEW m \in msgs, recvAppendEntries(m)
  PROVE  CoverStep
<1> DEFINE i == m.to
           reply(term, accepted) ==
             [type |-> "AppendEntriesResult", from |-> i, to |-> m.from,
              term |-> term, accepted |-> accepted]
<1>0. /\ i \in Server /\ m.term \in Nat /\ msgs \ {m} \in SUBSET msgs
  BY MessageFields DEF TypeOK
<1>1. ASSUME NEW term, NEW accepted, Send(msgs \ {m}, {reply(term, accepted)})
      PROVE  RequestStep
  <2>1. ~Request(reply(term, accepted))
    BY DEF Request
  <2> HIDE DEF reply
  <2> QED BY <1>0, <1>1, <2>1, RequestKept
<1>2. CASE /\ Send(msgs \ {m}, {reply(currentTerm[i], FALSE)})
           /\ KeepRole
           /\ UNCHANGED <<termVars, lastLog, transferVars>>
  <2>1. RequestStep
    BY <1>1, <1>2
  <2> QED BY <1>2, <2>1, KeepCover
<1>3. CASE /\ IF m.term > currentTerm[i]
                THEN SetTermAndVote(i, m.term, None)
                ELSE UNCHANGED termVars
           /\ Become(i, "follower", m.from, {}, FALSE, FALSE)
           /\ \E accepted \in BOOLEAN :
                /\ Send(msgs \ {m}, {reply(m.term, accepted)})
                /\ lastLog' = IF accepted
                                THEN [lastLog EXCEPT ![i] = m.lastLog]
                                ELSE lastLog
  <2>1. RequestStep
    BY <1>1, <1>3
  <2>2. \/ UNCHANGED termVars
        \/ \E term \in Nat : SetTermAndVote(i, term, None)
    BY <1>0, <1>3
  <2>3. lastLog' = [lastLog EXCEPT ![i] = m.lastLog] \/ lastLog' = lastLog
    BY <1>3
  <2> QED BY <1>0, <1>3, <2>1, <2>2, <2>3, DownCover DEF State
<1> QED BY <1>2, <1>3 DEF recvAppendEntries

LEMMA recvAppendEntriesResultCover ==
  ASSUME TypeOK, NEW m \in msgs, recvAppendEntriesResult(m)
  PROVE  CoverStep
<1> DEFINE i == m.to
           j == m.from
           startTransfer ==
             transfer[i] = j /\ ~timeoutSent[i] /\ j \notin upToDate[i]
           sent ==
             CASE ~m.accepted ->
                    {h \in heartbeats(i, currentTerm[i], lastLog[i]) : h.to = j}
               [] m.accepted /\ startTransfer -> {timeoutNow(i, j)}
               [] OTHER -> {}
<1>0. /\ i \in Server /\ m.term \in Nat /\ msgs \ {m} \in SUBSET msgs
      /\ m.accepted \in BOOLEAN
  BY MessageFields DEF TypeOK, AppendEntriesResult, recvAppendEntriesResult
<1>a. msgs' = msgs \ {m} => RequestStep
  BY DEF RequestStep
<1>1. CASE /\ SetTermAndVote(i, m.term, None)
           /\ convertToFollower(i)
           /\ msgs' = msgs \ {m}
           /\ UNCHANGED lastLog
  BY <1>0, <1>a, <1>1, DownCover DEF convertToFollower, State
<1>2. CASE /\ Send(msgs \ {m}, sent)
           /\ UNCHANGED <<state, termVars, candidateVars, lastLog>>
  <2>1. \A r \in sent : ~Request(r)
    BY <1>0 DEF heartbeats, timeoutNow, Request
  <2>2. RequestStep
    <3> HIDE DEF sent
    <3> QED BY <1>0, <1>2, <2>1, RequestKept
  <2>3. LogStep
    BY <1>2 DEF LogStep, candidateVars, termVars, InElection
  <2>4. CastStep
    BY <1>2 DEF CastStep, termVars
  <2> QED BY <2>2, <2>3, <2>4 DEF CoverStep
<1>3. CASE /\ msgs' = msgs \ {m}
           /\ KeepRole
           /\ UNCHANGED <<termVars, lastLog, transferVars>>
  BY <1>a, <1>3, KeepCover
<1> QED BY <1>1, <1>2, <1>3 DEF recvAppendEntriesResult

LEMMA recvTimeoutNowCover ==
  ASSUME TypeOK, NEW m \in msgs, recvTimeoutNow(m)
  PROVE  CoverStep
<1> DEFINE i == m.to
<1>0. /\ i \in Server /\ m.term \in Nat /\ msgs \ {m} \in SUBSET msgs
      /\ currentTerm[i] \in Nat /\ UNCHANGED lastLog
  BY MessageFields DEF TypeOK, TermOK, recvTimeoutNow
<1>a. msgs' = msgs \ {m} => RequestStep
  BY DEF RequestStep
<1>1. CASE /\ i \in Voter /\ m.term >= currentTerm[i]
           /\ electionStart(i, m.term, FALSE, TRUE, msgs \ {m})
  BY <1>0, <1>1, electionStartCover
<1>2. CASE /\ state[i] = "follower"
           /\ SetTermAndVote(i, m.term, None)
           /\ msgs' = msgs \ {m}
           /\ KeepRole
  <2>1. /\ UNCHANGED <<state, inPreVote>>
        /\ \A k \in Server \ {i} : currentTerm'[k] = currentTerm[k]
    BY <1>0, <1>2
    DEF KeepRole, candidateVars, SetTermAndVote, TypeOK, TermOK
  <2>2. LogStep
    BY <1>0, <1>2, <2>1 DEF LogStep, InElection
  <2>3. CastStep
    BY <1>2 DEF CastStep, SetTermAndVote
  <2> QED BY <1>a, <1>2, <2>2, <2>3 DEF CoverStep
<1>3. CASE /\ msgs' = msgs \ {m}
           /\ KeepRole /\ UNCHANGED termVars
  BY <1>0, <1>a, <1>3, KeepCover
<1> QED BY <1>1, <1>2, <1>3 DEF recvTimeoutNow

LEMMA CoverShape ==
  ASSUME TypeOK, [Next]_vars
  PROVE  CoverStep
<1>1. ASSUME NEW m \in msgs, recvCb(m) PROVE CoverStep
  BY <1>1, recvRequestVoteCover, recvRequestVoteResultCover, recvAppendEntriesCover,
     recvAppendEntriesResultCover, recvTimeoutNowCover DEF recvCb
<1>2. ASSUME NEW m \in msgs, Lose(m) PROVE CoverStep
  <2>1. RequestStep
    BY <1>2 DEF Lose, RequestStep
  <2> QED BY <1>2, <2>1, KeepCover DEF Lose
<1>3. ASSUME NEW i \in Server, NEW j \in Server, raft_transfer(i, j) PROVE CoverStep
  <2> DEFINE sent == IF j \in upToDate[i] THEN {timeoutNow(i, j)} ELSE {}
  <2>1. /\ Send(msgs, sent) /\ msgs \in SUBSET msgs
        /\ \A r \in sent : ~Request(r)
    BY <1>3 DEF raft_transfer, timeoutNow, Request
  <2> HIDE DEF sent
  <2>2. RequestStep
    BY <2>1, RequestKept
  <2> QED BY <1>3, <2>2, KeepCover DEF raft_transfer
<1>4. ASSUME NEW i \in Server, Crash(i) \/ raft_start(i) PROVE CoverStep
  <2>1. RequestStep
    BY <1>4 DEF Crash, raft_start, RequestStep
  <2> QED BY <1>4, <2>1, DownCover DEF Crash, raft_start, convertToUnavailable, State
<1>5. CASE UNCHANGED vars
  BY <1>5 DEF vars, CoverStep, RequestStep, LogStep, CastStep, InElection
<1> QED BY <1>1, <1>2, <1>3, <1>4, <1>5, TickCover DEF Next

\* Nobody asks for, or gets, a vote for a term the candidate has not reached, and
\* what a candidate asked its votes with is still its log.
RequestsSound ==
  \A m \in msgs : Request(m) =>
    /\ m.term <= currentTerm[m.from]
    /\ InElection(m.from) /\ m.term = currentTerm[m.from] => m.lastLog = lastLog[m.from]

VotesReached == \A c \in cast : c.term <= currentTerm[c.candidate]

CoverInv == TypeOK /\ RequestsSound /\ VotesReached /\ CandidateCoversVoters

LEMMA TermsGrow ==
  ASSUME TypeOK, TermStep, NEW i \in Server
  PROVE  currentTerm'[i] >= currentTerm[i]
BY DEF TermStep, SetTermAndVote, termVars, TypeOK, TermOK

LEMMA CoverInductive ==
  ASSUME CoverInv, TypeOK', TermStep, CoverStep
  PROVE  CoverInv'
<1> USE DEF CoverInv, CoverStep
<1>0. /\ \A i \in Server : /\ currentTerm[i] \in Nat /\ currentTerm'[i] \in Nat
                           /\ currentTerm'[i] >= currentTerm[i]
                           /\ lastLog'[i].term \in Nat /\ lastLog'[i].index \in Nat
      /\ \A c \in cast : c.candidate \in Server /\ c.term \in Nat
      /\ \A c \in cast' : c.candidate \in Server /\ c.term \in Nat
      /\ \A m \in msgs : m.from \in Server /\ m.term \in Nat
      /\ \A m \in msgs' : m.from \in Server /\ m.term \in Nat
  <2>1. \A i \in Server : currentTerm'[i] >= currentTerm[i]
    BY TermsGrow
  <2>2. /\ \A i \in Server : currentTerm[i] \in Nat /\ currentTerm'[i] \in Nat
        /\ \A c \in cast : c.candidate \in Server /\ c.term \in Nat
        /\ \A c \in cast' : c.candidate \in Server /\ c.term \in Nat
    BY DEF TypeOK, TermOK, Vote
  <2>3. \A i \in Server : lastLog'[i].term \in Nat /\ lastLog'[i].index \in Nat
    BY DEF TypeOK, Position
  <2>4. \A m \in msgs : m.from \in Server /\ m.term \in Nat
    BY MessageFields DEF TypeOK
  <2>5. \A m \in msgs' : m.from \in Server /\ m.term \in Nat
    BY DEF TypeOK, Message, RequestVote, RequestVoteResult, AppendEntries,
           AppendEntriesResult, TimeoutNow
  <2> QED BY <2>1, <2>2, <2>3, <2>4, <2>5
<1>1. RequestsSound'
  <2> SUFFICES ASSUME NEW m \in msgs', Request(m)
               PROVE  /\ m.term <= currentTerm'[m.from]
                      /\ /\ state'[m.from] = "candidate" /\ ~inPreVote'[m.from]
                         /\ m.term = currentTerm'[m.from]
                         => m.lastLog = lastLog'[m.from]
    BY DEF RequestsSound, Request, InElection
  <2>1. CASE m \in msgs
    BY <1>0, <2>1 DEF RequestsSound, LogStep, InElection
  <2>2. CASE m.term = currentTerm'[m.from] /\ m.lastLog = lastLog'[m.from]
    BY <1>0, <2>2
  <2> QED BY <2>1, <2>2 DEF RequestStep
<1>2. VotesReached'
  <2> SUFFICES ASSUME NEW c \in cast' PROVE c.term <= currentTerm'[c.candidate]
    BY DEF VotesReached
  <2>1. CASE c \in cast
    BY <1>0, <2>1 DEF VotesReached
  <2>2. CASE c.term = currentTerm'[c.candidate]
    BY <1>0, <2>2
  <2>3. ASSUME NEW m \in msgs, Request(m), m.from = c.candidate, m.term = c.term
        PROVE  c.term <= currentTerm'[c.candidate]
    <3>1. m.term <= currentTerm[m.from]
      BY <2>3 DEF RequestsSound
    <3> QED BY <1>0, <2>3, <3>1
  <2> QED BY <2>1, <2>2, <2>3 DEF CastStep
<1>3. CandidateCoversVoters'
  <2> SUFFICES ASSUME NEW i \in Server, state'[i] = "candidate", ~inPreVote'[i],
                      NEW c \in cast', c.term = currentTerm'[i], c.candidate = i
               PROVE  AtLeastAsUpToDate(lastLog'[i], c.lastLog)
    BY DEF CandidateCoversVoters, AtLeastAsUpToDate
  <2>1. CASE InElection(i) /\ currentTerm'[i] = currentTerm[i] /\ lastLog'[i] = lastLog[i]
    <3>1. CASE c \in cast
      BY <2>1, <3>1 DEF CandidateCoversVoters, InElection
    <3>2. CASE c.lastLog = lastLog'[c.candidate]
      BY <1>0, <3>2 DEF AtLeastAsUpToDate
    <3>3. ASSUME NEW m \in msgs, Request(m), m.from = c.candidate, m.term = c.term,
                 AtLeastAsUpToDate(m.lastLog, c.lastLog)
          PROVE  AtLeastAsUpToDate(lastLog'[i], c.lastLog)
      BY <2>1, <3>3 DEF RequestsSound
    <3> QED BY <3>1, <3>2, <3>3 DEF CastStep
  <2>2. CASE currentTerm'[i] > currentTerm[i]
    <3>1. CASE c \in cast
      BY <1>0, <2>2, <3>1 DEF VotesReached
    <3>2. CASE c.lastLog = lastLog'[c.candidate]
      BY <1>0, <3>2 DEF AtLeastAsUpToDate
    <3>3. ASSUME NEW m \in msgs, Request(m), m.from = c.candidate, m.term = c.term
          PROVE  FALSE
      <4>1. m.term <= currentTerm[i]
        BY <3>3 DEF RequestsSound
      <4> QED BY <1>0, <2>2, <3>3, <4>1
    <3> QED BY <3>1, <3>2, <3>3 DEF CastStep
  <2> QED BY <2>1, <2>2 DEF LogStep
<1> QED BY <1>1, <1>2, <1>3

LEMMA InitCover == Init => CoverInv
<1> SUFFICES ASSUME Init PROVE CoverInv
  OBVIOUS
<1>1. TypeOK
  BY InitType
<1>2. RequestsSound /\ CandidateCoversVoters
  BY DEF Init, RequestsSound, CandidateCoversVoters
<1>3. VotesReached
  <2> SUFFICES ASSUME NEW k \in Server, InitVote[k] # None
               PROVE  InitTerm[k] <= InitTerm[InitVote[k]]
    BY DEF Init, VotesReached, VoteOf
  <2> QED BY InitVoteAssumption
<1> QED BY <1>1, <1>2, <1>3 DEF CoverInv

\* While a candidate counts votes its log covers the log each of its voters had
\* when it voted (electionVote): requests delayed past an election, a follower's
\* log overwritten between two elections, restarts and transfers included.
THEOREM CandidatesCoverVoters == Spec => []CandidateCoversVoters
<1>1. Init => CoverInv
  BY InitCover
<1>2. CoverInv /\ TypeOK' /\ [Next]_vars => CoverInv'
  BY CoverInductive, CoverShape, StepShape DEF CoverInv
<1>3. CoverInv => CandidateCoversVoters
  BY DEF CoverInv
<1> QED BY <1>1, <1>2, <1>3, TypeCorrect, PTL DEF Spec
=============================================================================
