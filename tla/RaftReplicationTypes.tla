------------------------- MODULE RaftReplicationTypes -------------------------
(***************************************************************************)
(* What the helpers on logs compute, the types of RaftReplication, and the  *)
(* assertion of appendFollowerCb, for any number of servers and any         *)
(* situation to start from.                                                 *)
(***************************************************************************)
EXTENDS RaftReplication, Induction, FiniteSetTheorems

(* Logs *)

LEMMA TermAtType ==
  ASSUME NEW S \in SUBSET Nat, NEW l \in Seq(S), NEW k \in Int
  PROVE  /\ TermAt(l, k) \in S \cup {0}
         /\ 0 \notin S => (TermAt(l, k) # 0 <=> k \in 1..Len(l))
  BY DEF TermAt

LEMMA SubSeqFacts ==
  ASSUME NEW S, NEW l \in Seq(S), NEW m \in Nat \ {0}, NEW n \in Int, n <= Len(l)
  PROVE  /\ SubSeq(l, m, n) \in Seq(S)
         /\ Len(SubSeq(l, m, n)) = IF m <= n THEN n - m + 1 ELSE 0
         /\ \A k \in 1..n - m + 1 : SubSeq(l, m, n)[k] = l[m + k - 1]
<1>1. \A k \in m..n : l[k] \in S
  OBVIOUS
<1> QED BY <1>1, SubSeqProperties

LEMMA TruncateFacts ==
  ASSUME NEW S, NEW l \in Seq(S), NEW index \in Nat \ {0}
  PROVE  /\ Truncate(l, index) \in Seq(S)
         /\ Len(Truncate(l, index)) = IF index - 1 <= Len(l) THEN index - 1 ELSE Len(l)
         /\ \A k \in 1..Len(Truncate(l, index)) : Truncate(l, index)[k] = l[k]
<1> DEFINE n == IF index - 1 <= Len(l) THEN index - 1 ELSE Len(l)
<1>1. Truncate(l, index) = SubSeq(l, 1, n)
  <2>1. Min({index - 1, Len(l)}) = n
    BY MinOfTwo
  <2> QED BY <2>1 DEF Truncate
<1>2. n \in 0..Len(l)
  OBVIOUS
<1> HIDE DEF n
<1>3. \A i \in 1..n : l[i] \in S
  BY <1>2
<1>4. /\ SubSeq(l, 1, n) \in Seq(S)
      /\ Len(SubSeq(l, 1, n)) = n
      /\ \A k \in 1..n : SubSeq(l, 1, n)[k] = l[k]
  BY <1>2, <1>3, SubSeqProperties
<1> QED BY <1>1, <1>4 DEF n

\* The loops of deleteConflictingEntries and updateLastStored stop at the first
\* entry that is not in the log.
LEMMA MatchingFacts ==
  ASSUME NEW l, NEW first \in Nat \ {0}, NEW S, NEW entries \in Seq(S)
  PROVE  LET n == Matching(l, first, entries)
         IN  /\ n \in 0..Len(entries)
             /\ \A k \in 1..n : TermAt(l, first + k - 1) = entries[k]
             /\ n < Len(entries) => TermAt(l, first + n) # entries[n + 1]
<1> DEFINE T == {n \in 0..Len(entries) :
                   \A k \in 1..n : TermAt(l, first + k - 1) = entries[k]}
           m == Matching(l, first, entries)
<1>1. T \in SUBSET (0..Len(entries)) /\ 0 \in T
  OBVIOUS
<1>2. m = Max(T)
  BY DEF Matching
<1> HIDE DEF m
<1>3. m \in T /\ \A x \in T : x <= m
  <2> HIDE DEF T
  <2>1. Len(entries) \in Nat
    OBVIOUS
  <2> QED BY <1>1, <1>2, <2>1, MaxIsGreatest
<1>4. ASSUME m < Len(entries), TermAt(l, first + m) = entries[m + 1] PROVE FALSE
  <2>1. m + 1 \in 0..Len(entries)
    BY <1>3, <1>4
  <2>2. \A k \in 1..m + 1 : k \in 1..m \/ k = m + 1
    BY <1>3
  <2>3. first + (m + 1) - 1 = first + m
    BY <1>3
  <2>4. m + 1 \in T
    BY <1>3, <1>4, <2>1, <2>2, <2>3
  <2> QED BY <1>3, <2>4
<1> QED BY <1>3, <1>4 DEF m

(* The inductive invariant *)

Term == 0..Conf.maxTerm

AppendEntries ==
  [type : {"AppendEntries"}, from : Server, to : Server, term : Term,
   prev : Nat, prevTerm : Nat, entries : Log, commit : Nat]

AppendEntriesResult ==
  [type : {"AppendEntriesResult"}, from : Server, to : Server, term : Term,
   rejected : Nat, last : Nat]

\* The first entry is never written again, nor truncated.
WriteIndex == Nat \ {0, 1}

LeaderWrite == [op : {"leader"}, index : WriteIndex, entries : Log]

FollowerWrite ==
  [op : {"follower"}, index : WriteIndex, entries : Log, term : Term,
   prev : Nat, commit : Nat]

TruncateWrite == [op : {"truncate"}, index : WriteIndex]

Write == LeaderWrite \cup FollowerWrite \cup TruncateWrite

\* The types that TypeOK leaves out.
QueuesOK ==
  /\ conf \in DOMAIN Configurations
  /\ writes \in [Server -> Seq(Write)]
  /\ msgs \subseteq AppendEntries \cup AppendEntriesResult

\* A server with writes of entries of a leader is follower of that leader.
HasFollowerWrite(i) == \E k \in DOMAIN writes[i] : writes[i][k].op = "follower"

Roles ==
  \A i \in Server :
    /\ currentTerm[i] > 0 /\ leader[i] # i
    /\ state[i] = "candidate" => leader[i] = None /\ progress[i] = NoProgress
    /\ HasFollowerWrite(i) => state[i] = "follower" /\ leader[i] # None

\* A leader never has more to send, or more acknowledged, than it has.
Bounded(l, p) == p.next <= Len(l) + 1 /\ p.match <= Len(l)

ProgressBounded ==
  \A i \in Server : state[i] = "leader" =>
    \A j \in Server \ {i} : Bounded(log[i], progress[i][j])

\* No server sends to itself, and the entry before those in a message exists.
MessagesOK ==
  \A m \in msgs :
    /\ m.from # m.to
    /\ m.type = "AppendEntries" /\ m.prev > 0 => m.prevTerm > 0

\* The first entry is always there.
NonEmpty ==
  \A i \in Server : log[i] # << >> /\ disk[i] # << >> /\ commitIndex[i] >= 1

TypeInv ==
  TypeOK /\ QueuesOK /\ Roles /\ ProgressBounded /\ MessagesOK /\ NonEmpty

LEMMA ConfFacts ==
  ASSUME conf \in DOMAIN Configurations
  PROVE  /\ Conf \in Configuration /\ Restartable(Conf)
         /\ Conf.maxTerm \in Nat /\ Conf.maxLog \in Nat
<1>1. Conf \in Configuration /\ Restartable(Conf)
  BY ReplicationAssumption DEF Conf
<1> QED BY <1>1 DEF Configuration

\* The sets that depend on the configuration stay the same.
LEMMA SetsKept ==
  ASSUME conf' = conf
  PROVE  Conf' = Conf /\ Log' = Log /\ Entry' = Entry /\ Term' = Term /\ Write' = Write
         /\ AppendEntries' = AppendEntries /\ AppendEntriesResult' = AppendEntriesResult
  BY DEF Conf, Log, Entry, Term, Write, WriteIndex, LeaderWrite, FollowerWrite, TruncateWrite,
         AppendEntries, AppendEntriesResult

\* The typing of one server's log, in the form the lemmas on logs need.
LEMMA LogFacts ==
  ASSUME TypeInv, NEW i \in Server
  PROVE  /\ log[i] \in Log /\ Len(log[i]) \in Nat \ {0}
         /\ disk[i] \in Log /\ Len(disk[i]) \in Nat \ {0}
         /\ lastStored[i] \in Nat /\ commitIndex[i] \in Nat /\ applied[i] \in Log
         /\ writes[i] \in Seq(Write) /\ Len(writes[i]) \in Nat
  BY DEF TypeInv, TypeOK, QueuesOK, Log, NonEmpty

LEMMA SendSubset ==
  ASSUME NEW rest, NEW new, Send(rest, new)
  PROVE  msgs' \subseteq rest \cup new
  BY DEF Send

\* What is sent from a log l, with the progress p, is well formed.
LEMMA sendAppendEntriesType ==
  ASSUME TypeInv, NEW i \in Server, NEW j \in Server, i # j,
         NEW l \in Log, NEW commit \in Nat, NEW p, p.next \in 1..Len(l) + 1
  PROVE  LET m == sendAppendEntries(i, j, l, commit, p)
         IN  /\ m \in AppendEntries /\ m.from # m.to
             /\ m.prev > 0 => m.prevTerm > 0
<1> DEFINE e == SubSeq(l, p.next, Len(l))
<1>1. Conf.maxTerm \in Nat
  BY ConfFacts DEF TypeInv, QueuesOK
<1>2. l \in Seq(Entry) /\ Len(l) \in Nat
  BY DEF Log
<1>3. e \in Log
  BY <1>2, SubSeqFacts DEF Log
<1>4. /\ p.next - 1 \in Nat /\ TermAt(l, p.next - 1) \in Nat
      /\ p.next - 1 > 0 => TermAt(l, p.next - 1) > 0
  BY <1>1, <1>2 DEF TermAt, Entry
<1>5. currentTerm[i] \in Term
  BY DEF TypeInv, TypeOK, Term
<1> HIDE DEF e
<1>6. sendAppendEntries(i, j, l, commit, p) =
        [type |-> "AppendEntries", from |-> i, to |-> j, term |-> currentTerm[i],
         prev |-> p.next - 1, prevTerm |-> TermAt(l, p.next - 1),
         entries |-> e, commit |-> commit]
  BY DEF sendAppendEntries, e
<1> QED BY <1>3, <1>4, <1>5, <1>6 DEF AppendEntries

LEMMA resultType ==
  ASSUME NEW i \in Server, NEW j \in Server, i # j, NEW term \in Term,
         NEW rejected \in Nat, NEW last \in Nat
  PROVE  LET m == result(i, j, term, rejected, last)
         IN  m \in AppendEntriesResult /\ m.from # m.to /\ m.type # "AppendEntries"
  BY DEF result, AppendEntriesResult

\* Messages that are consumed, and new ones that are well formed.
LEMMA MessagesType ==
  ASSUME TypeInv, conf' = conf, NEW rest \in SUBSET msgs, NEW new,
         msgs' \subseteq rest \cup new,
         \A m \in new : /\ m \in AppendEntries \cup AppendEntriesResult /\ m.from # m.to
                        /\ m.type = "AppendEntries" /\ m.prev > 0 => m.prevTerm > 0
  PROVE  msgs' \subseteq (AppendEntries \cup AppendEntriesResult)' /\ MessagesOK'
<1>1. (AppendEntries \cup AppendEntriesResult)' = AppendEntries \cup AppendEntriesResult
  BY SetsKept
<1>2. msgs' \subseteq AppendEntries \cup AppendEntriesResult
  BY DEF TypeInv, QueuesOK
<1>3. MessagesOK'
  BY DEF TypeInv, MessagesOK
<1> QED BY <1>1, <1>2, <1>3

LEMMA MessagesKept ==
  ASSUME TypeInv, conf' = conf, msgs' \subseteq msgs
  PROVE  msgs' \subseteq (AppendEntries \cup AppendEntriesResult)' /\ MessagesOK'
<1>1. (AppendEntries \cup AppendEntriesResult)' = AppendEntries \cup AppendEntriesResult
  BY SetsKept
<1>2. msgs' \subseteq AppendEntries \cup AppendEntriesResult
  BY DEF TypeInv, QueuesOK
<1>3. MessagesOK'
  BY DEF TypeInv, MessagesOK
<1> QED BY <1>1, <1>2, <1>3

\* replicationApply.
LEMMA ApplyUpToType ==
  ASSUME TypeInv, NEW i \in Server, NEW l \in Log, NEW c \in Nat, ApplyUpTo(i, l, c)
  PROVE  /\ commitIndex' \in [Server -> Nat]
         /\ applied' \in [Server -> Log] /\ chosen' \in Log
<1> DEFINE n == IF c <= Len(l) THEN c ELSE Len(l)
           a == Len(applied[i])
           s == SubSeq(l, a + 1, n)
<1>1. l \in Seq(Entry) /\ Len(l) \in Nat /\ applied[i] \in Seq(Entry)
  BY DEF TypeInv, TypeOK, Log
<1>2. a \in Nat /\ n \in 0..Len(l)
  BY <1>1
<1>3. Min({c, Len(l)}) = n
  BY <1>1, MinOfTwo
<1>4. Applied(i, l, c) = applied[i] \o s
  BY <1>3 DEF Applied
<1> HIDE DEF a, n
<1>5. s \in Log
  BY <1>1, <1>2, SubSeqFacts DEF Log
<1> HIDE DEF s
<1>6. Applied(i, l, c) \in Log
  BY <1>1, <1>4, <1>5, ConcatProperties DEF Log
<1> QED BY <1>6 DEF ApplyUpTo, TypeInv, TypeOK

(* Each action keeps the types *)

LEMMA tickType ==
  ASSUME TypeInv, conf' = conf, NEW i \in Server, tick(i)
  PROVE  TypeInv'
<1> USE DEF TypeInv
<1>0. Log' = Log /\ Write' = Write /\ Conf' = Conf
      /\ (AppendEntries \cup AppendEntriesResult)' = AppendEntries \cup AppendEntriesResult
  BY SetsKept
<1>1. /\ state' = [state EXCEPT ![i] = "candidate"] /\ leader' = [leader EXCEPT ![i] = None]
      /\ UNCHANGED <<currentTerm, votedFor, votes, logVars, progress, diskVars, msgs>>
  BY DEF tick
<1>2. state[i] \in {"follower", "candidate"} /\ ~HasFollowerWrite(i)
  BY DEF tick, MayTimeOut, HasFollowerWrite
<1>3. TypeOK'
  BY <1>0, <1>1 DEF TypeOK, Role, logVars, diskVars
<1>4. QueuesOK'
  BY <1>0, <1>1 DEF QueuesOK, diskVars
<1>5. Roles'
  BY <1>1, <1>2, ReplicationAssumption DEF Roles, NoProgress, TypeOK, HasFollowerWrite, diskVars
<1>6. ProgressBounded'
  BY <1>1 DEF ProgressBounded, TypeOK, Bounded, logVars
<1>7. MessagesOK' /\ NonEmpty'
  BY <1>1 DEF MessagesOK, NonEmpty, logVars, diskVars
<1> QED BY <1>3, <1>4, <1>5, <1>6, <1>7

LEMMA electionStartType ==
  ASSUME TypeInv, conf' = conf, NEW i \in Server, electionStart(i)
  PROVE  TypeInv'
<1> USE DEF TypeInv
<1>0. Log' = Log /\ Write' = Write /\ Conf' = Conf
      /\ (AppendEntries \cup AppendEntriesResult)' = AppendEntries \cup AppendEntriesResult
  BY SetsKept
<1>1. /\ state' = [state EXCEPT ![i] = "candidate"] /\ leader' = [leader EXCEPT ![i] = None]
      /\ currentTerm[i] < Conf.maxTerm
      /\ currentTerm' = [currentTerm EXCEPT ![i] = @ + 1]
      /\ votedFor' = [votedFor EXCEPT ![i] = i] /\ votes' = [votes EXCEPT ![i] = {i}]
      /\ UNCHANGED <<logVars, progress, diskVars, msgs>>
  BY DEF electionStart
<1>2. state[i] \in {"follower", "candidate"} /\ ~HasFollowerWrite(i)
  BY DEF electionStart, MayTimeOut, HasFollowerWrite
<1>a. Conf.maxTerm \in Nat
  BY ConfFacts DEF QueuesOK
<1>3. TypeOK'
  BY <1>0, <1>1, <1>a DEF TypeOK, Role, logVars, diskVars
<1>4. QueuesOK'
  BY <1>0, <1>1 DEF QueuesOK, diskVars
<1>5. Roles'
  BY <1>1, <1>2, ReplicationAssumption DEF Roles, NoProgress, TypeOK, HasFollowerWrite, diskVars
<1>6. ProgressBounded'
  BY <1>1 DEF ProgressBounded, TypeOK, Bounded, logVars
<1>7. MessagesOK' /\ NonEmpty'
  BY <1>1 DEF MessagesOK, NonEmpty, logVars, diskVars
<1> QED BY <1>3, <1>4, <1>5, <1>6, <1>7

LEMMA recvRequestVoteType ==
  ASSUME TypeInv, conf' = conf, NEW i \in Server, NEW j \in Server, recvRequestVote(j, i)
  PROVE  TypeInv'
<1> USE DEF TypeInv
<1> DEFINE bump == currentTerm[i] > currentTerm[j]
           granted == /\ bump \/ votedFor[j] \in {None, i}
                      /\ AtLeastAsUpToDate(i, j)
<1>0. Log' = Log /\ Write' = Write /\ Conf' = Conf
      /\ (AppendEntries \cup AppendEntriesResult)' = AppendEntries \cup AppendEntriesResult
  BY SetsKept
<1>1. /\ i # j /\ state[i] = "candidate" /\ ~HasLeader(j)
      /\ currentTerm' = [currentTerm EXCEPT ![j] = currentTerm[i]]
      /\ votedFor' = [votedFor EXCEPT ![j] = IF granted THEN i ELSE None]
      /\ state' = [state EXCEPT ![j] = IF bump THEN "follower" ELSE @]
      /\ votes' = [votes EXCEPT ![i] = IF granted THEN @ \cup {j} ELSE @,
                                ![j] = IF bump THEN {} ELSE @]
      /\ UNCHANGED <<leader, logVars, progress, diskVars, msgs>>
  BY DEF recvRequestVote
<1> HIDE DEF bump, granted
<1>2. state[j] # "leader" /\ (state[j] = "follower" => leader[j] = None)
  BY <1>1 DEF HasLeader
<1>3. TypeOK'
  <2>1. /\ state' \in [Server -> Role] /\ currentTerm' \in [Server -> 0..Conf.maxTerm]
        /\ votedFor' \in [Server -> Server \cup {None}]
        /\ votes' \in [Server -> SUBSET Server]
    BY <1>1 DEF TypeOK, Role
  <2>2. progress[j] = NoProgress
    BY <1>2 DEF TypeOK, Role, Roles
  <2>3. \A k \in Server :
          /\ state'[k] = "follower" => votes'[k] = {} /\ progress'[k] = NoProgress
          /\ state'[k] = "leader" => leader'[k] = None /\ votes'[k] = {}
    BY <1>1, <2>2 DEF TypeOK, Role
  <2> QED BY <1>0, <1>1, <2>1, <2>3 DEF TypeOK, logVars, diskVars, NoProgress
<1>4. QueuesOK'
  BY <1>0, <1>1 DEF QueuesOK, diskVars
<1>5. Roles'
  BY <1>1, <1>2, ReplicationAssumption DEF Roles, NoProgress, TypeOK, HasFollowerWrite, diskVars
<1>6. ProgressBounded'
  BY <1>1 DEF ProgressBounded, TypeOK, Bounded, logVars
<1>7. MessagesOK' /\ NonEmpty'
  BY <1>1 DEF MessagesOK, NonEmpty, logVars, diskVars
<1> QED BY <1>3, <1>4, <1>5, <1>6, <1>7

ProgressType == [next : Nat \ {0}, match : Nat, pipeline : BOOLEAN]

\* progressOptimisticNextIndex, within the log.
LEMMA SentType ==
  ASSUME NEW l \in Log, NEW p \in ProgressType, p.next <= Len(l) + 1
  PROVE  /\ Sent(l, p) \in ProgressType /\ Sent(l, p).next <= Len(l) + 1
         /\ Sent(l, p).match = p.match
  BY DEF Sent, ProgressType, Log

\* appendLeader and triggerAll, with the progress prog of the other servers.
LEMMA Append1Type ==
  ASSUME TypeInv, conf' = conf, NEW i \in Server, NEW prog \in [Server -> ProgressType],
         NEW due, currentTerm[i] > 0,
         \A j \in Server \ {i} : Bounded(log[i], prog[j]),
         Append1(i, prog, due)
  PROVE  /\ log' = [log EXCEPT ![i] = Append(log[i], currentTerm[i])]
         /\ log' \in [Server -> Log] /\ log'[i] # << >>
         /\ writes' \in [Server -> Seq(Write)]
         /\ \A k \in Server \ {i} : writes'[k] = writes[k]
         /\ ~HasFollowerWrite(i) => ~HasFollowerWrite(i)'
         /\ msgs' \subseteq (AppendEntries \cup AppendEntriesResult)' /\ MessagesOK'
         /\ progress' = [progress EXCEPT ![i] = progress'[i]]
         /\ progress'[i] \in [Server -> ProgressType]
         /\ \A j \in Server \ {i} : Bounded(log'[i], progress'[i][j])
         /\ UNCHANGED <<lastStored, commitIndex, applied, chosen, disk>>
<1> USE DEF TypeInv
<1> DEFINE l == Append(log[i], currentTerm[i])
           w == [op |-> "leader", index |-> Len(l), entries |-> <<currentTerm[i]>>]
           new == triggerAll(i, l, commitIndex[i], prog, due)
<1>1. /\ log' = [log EXCEPT ![i] = l]
      /\ writes' = [writes EXCEPT ![i] = Append(@, w)]
      /\ Send(msgs, new)
      /\ progress' = [progress EXCEPT ![i] = Triggered(i, l, prog, due)]
      /\ UNCHANGED <<lastStored, commitIndex, applied, chosen, disk>>
  BY DEF Append1
<1>2. currentTerm[i] \in Entry
  BY ConfFacts DEF TypeOK, QueuesOK, Entry
<1>3. log[i] \in Seq(Entry)
  BY DEF TypeOK, Log
<1>4. l \in Log /\ Len(l) = Len(log[i]) + 1 /\ Len(log[i]) \in Nat
  BY <1>2, <1>3, AppendProperties DEF Log
<1>5. w \in Write /\ w.op = "leader"
  <2>1. <<currentTerm[i]>> \in Log
    BY <1>2 DEF Log
  <2>2. Len(l) \in WriteIndex
    BY <1>4, LogFacts DEF WriteIndex
  <2> QED BY <2>1, <2>2 DEF Write, LeaderWrite
<1> HIDE DEF w, l
<1>6. \A j \in Server \ {i} : /\ prog[j] \in ProgressType
                              /\ Bounded(l, prog[j]) /\ prog[j].next \in 1..Len(l) + 1
  BY <1>4 DEF Bounded, ProgressType
<1>7. ASSUME NEW m \in new
      PROVE  /\ m \in AppendEntries \cup AppendEntriesResult /\ m.from # m.to
             /\ m.type = "AppendEntries" /\ m.prev > 0 => m.prevTerm > 0
  <2>1. PICK j \in Server \ {i} : m = sendAppendEntries(i, j, l, commitIndex[i], prog[j])
    BY DEF triggerAll, Receivers
  <2>2. commitIndex[i] \in Nat
    BY DEF TypeOK
  <2> QED BY <1>4, <1>6, <2>1, <2>2, sendAppendEntriesType
<1>8. msgs' \subseteq msgs \cup new
  BY <1>1, SendSubset
<1> HIDE DEF new
<1>9. msgs' \subseteq (AppendEntries \cup AppendEntriesResult)' /\ MessagesOK'
  BY <1>7, <1>8, MessagesType
<1>10. writes' \in [Server -> Seq(Write)] /\ writes'[i] = Append(writes[i], w)
  BY <1>1, <1>5 DEF QueuesOK
<1>11. ~HasFollowerWrite(i) => ~HasFollowerWrite(i)'
  BY <1>5, <1>10 DEF HasFollowerWrite, QueuesOK
<1>12. /\ progress'[i] = Triggered(i, l, prog, due)
       /\ progress' = [progress EXCEPT ![i] = progress'[i]]
  BY <1>1 DEF TypeOK
<1>13. /\ progress'[i] \in [Server -> ProgressType]
       /\ \A j \in Server \ {i} : Bounded(l, progress'[i][j])
  <2>1. ASSUME NEW j \in Server
        PROVE  /\ progress'[i][j] \in ProgressType
               /\ j # i => Bounded(l, progress'[i][j])
    <3>1. CASE j \in Receivers(i, l, prog, due)
      <4>1. j # i
        BY <3>1 DEF Receivers
      <4>2. progress'[i][j] = Sent(l, prog[j])
        BY <1>12, <3>1 DEF Triggered
      <4> QED BY <1>4, <1>6, <4>1, <4>2, SentType DEF Bounded
    <3>2. CASE j \notin Receivers(i, l, prog, due)
      BY <1>6, <1>12, <3>2 DEF Triggered
    <3> QED BY <3>1, <3>2
  <2>2. DOMAIN progress'[i] = Server /\ progress'[i] = [j \in Server |-> progress'[i][j]]
    BY <1>12 DEF Triggered
  <2> QED BY <2>1, <2>2
<1>14. log' = [log EXCEPT ![i] = Append(log[i], currentTerm[i])]
  BY <1>1 DEF l
<1>15. log' \in [Server -> Log] /\ log'[i] = l /\ l # << >>
  BY <1>1, <1>4 DEF TypeOK
<1>16. \A k \in Server \ {i} : writes'[k] = writes[k]
  BY <1>1 DEF QueuesOK
<1> QED BY <1>1, <1>9, <1>10, <1>11, <1>12, <1>13, <1>14, <1>15, <1>16

\* The parts of the invariant that the election, the log and the queues leave.
LEMMA LeaderAppendType ==
  ASSUME TypeInv, conf' = conf, NEW i \in Server,
         state' = [state EXCEPT ![i] = "leader"], votes' = [votes EXCEPT ![i] = {}],
         UNCHANGED <<currentTerm, votedFor, leader>>,
         state[i] \in {"candidate", "leader"}, currentTerm[i] > 0,
         NEW prog \in [Server -> ProgressType], NEW due,
         \A j \in Server \ {i} : Bounded(log[i], prog[j]),
         Append1(i, prog, due)
  PROVE  TypeInv'
<1>0. Log' = Log /\ Write' = Write /\ Conf' = Conf
  BY SetsKept
<1>1. /\ log' = [log EXCEPT ![i] = Append(log[i], currentTerm[i])]
      /\ log' \in [Server -> Log] /\ log'[i] # << >>
      /\ writes' \in [Server -> Seq(Write)]
      /\ \A k \in Server \ {i} : writes'[k] = writes[k]
      /\ ~HasFollowerWrite(i) => ~HasFollowerWrite(i)'
      /\ msgs' \subseteq (AppendEntries \cup AppendEntriesResult)' /\ MessagesOK'
      /\ progress' = [progress EXCEPT ![i] = progress'[i]]
      /\ progress'[i] \in [Server -> ProgressType]
      /\ \A j \in Server \ {i} : Bounded(log'[i], progress'[i][j])
      /\ UNCHANGED <<lastStored, commitIndex, applied, chosen, disk>>
  BY Append1Type
<1> USE DEF TypeInv
<1>2. leader[i] = None /\ ~HasFollowerWrite(i)
  BY DEF TypeOK, Roles
<1>3. TypeOK'
  <2>1. progress' \in [Server -> [Server -> ProgressType]]
    BY <1>1 DEF TypeOK, ProgressType
  <2> QED BY <1>0, <1>1, <1>2, <2>1 DEF TypeOK, Role, ProgressType, NoProgress
<1>4. QueuesOK'
  BY <1>0, <1>1 DEF QueuesOK
<1>5. Roles'
  <2>1. ASSUME NEW k \in Server, k # i PROVE HasFollowerWrite(k)' <=> HasFollowerWrite(k)
    BY <1>1, <2>1 DEF HasFollowerWrite
  <2> QED BY <1>1, <1>2, <2>1, SMTT(60) DEF Roles, TypeOK
<1>6. ProgressBounded'
  BY <1>1 DEF ProgressBounded, TypeOK
<1>7. NonEmpty'
  <2>1. \A k \in Server : log'[k] # << >>
    BY <1>1 DEF NonEmpty, TypeOK
  <2> QED BY <1>1, <2>1 DEF NonEmpty
<1> QED BY <1>1, <1>3, <1>4, <1>5, <1>6, <1>7

LEMMA convertToLeaderType ==
  ASSUME TypeInv, conf' = conf, NEW i \in Server, convertToLeader(i)
  PROVE  TypeInv'
<1> DEFINE prog == progressBuildArray(i, Len(log[i]))
<1>1. /\ state[i] = "candidate" /\ Append1(i, prog, Server)
      /\ state' = [state EXCEPT ![i] = "leader"] /\ votes' = [votes EXCEPT ![i] = {}]
      /\ UNCHANGED <<currentTerm, votedFor, leader>>
  BY DEF convertToLeader
<1>2. lastStored[i] \in Nat /\ Len(log[i]) \in Nat
  BY LogFacts
<1>3. prog \in [Server -> ProgressType]
  BY <1>2 DEF progressBuildArray, ProgressType
<1>4. \A j \in Server \ {i} : Bounded(log[i], prog[j])
  BY <1>2 DEF progressBuildArray, Bounded
<1>5. currentTerm[i] > 0
  BY DEF TypeInv, Roles
<1> HIDE DEF prog
<1> QED BY <1>1, <1>3, <1>4, <1>5, LeaderAppendType

LEMMA raft_applyType ==
  ASSUME TypeInv, conf' = conf, NEW i \in Server, raft_apply(i)
  PROVE  TypeInv'
<1>1. /\ state[i] = "leader" /\ UNCHANGED electionVars
      /\ \E due \in SUBSET (Server \ {i}) : Append1(i, progress[i], due)
  BY DEF raft_apply
<1>2. PICK due \in SUBSET (Server \ {i}) : Append1(i, progress[i], due)
  BY <1>1
<1>3. progress[i] \in [Server -> ProgressType]
  BY DEF TypeInv, TypeOK, ProgressType
<1>4. \A j \in Server \ {i} : Bounded(log[i], progress[i][j])
  BY <1>1 DEF TypeInv, ProgressBounded
<1>5. currentTerm[i] > 0
  BY DEF TypeInv, Roles
<1>6. /\ state' = [state EXCEPT ![i] = "leader"] /\ votes' = [votes EXCEPT ![i] = {}]
      /\ UNCHANGED <<currentTerm, votedFor, leader>>
  BY <1>1 DEF electionVars, TypeInv, TypeOK
<1> QED BY <1>1, <1>2, <1>3, <1>4, <1>5, <1>6, LeaderAppendType

\* The actions that change only the progress of one server and the messages.
LEMMA ProgressStepType ==
  ASSUME TypeInv, conf' = conf, NEW i \in Server, NEW j \in Server, i # j,
         NEW p \in ProgressType, Bounded(log[i], p), state[i] = "leader",
         progress' = [progress EXCEPT ![i][j] = p],
         msgs' \subseteq (AppendEntries \cup AppendEntriesResult)', MessagesOK',
         UNCHANGED <<electionVars, log, lastStored, diskVars>>,
         commitIndex' \in [Server -> Nat], applied' \in [Server -> Log], chosen' \in Log,
         NonEmpty'
  PROVE  TypeInv'
<1> USE DEF TypeInv
<1>0. Log' = Log /\ Write' = Write /\ Conf' = Conf
  BY SetsKept
<1>1. /\ progress' \in [Server -> [Server -> ProgressType]]
      /\ \A k \in Server \ {i} : progress'[k] = progress[k]
      /\ progress'[i][j] = p
      /\ \A k \in Server \ {j} : progress'[i][k] = progress[i][k]
  BY DEF TypeOK, ProgressType
<1>2. TypeOK'
  BY <1>0, <1>1 DEF TypeOK, ProgressType, electionVars, diskVars, NoProgress
<1>3. QueuesOK'
  BY <1>0 DEF QueuesOK, diskVars
<1>4. Roles'
  <2>1. \A k \in Server : HasFollowerWrite(k)' <=> HasFollowerWrite(k)
    BY DEF HasFollowerWrite, diskVars
  <2>2. NoProgress' = NoProgress
    BY DEF NoProgress
  <2> QED BY <1>1, <2>1, <2>2 DEF Roles, electionVars
<1>5. ProgressBounded'
  BY <1>1 DEF ProgressBounded, electionVars, Bounded
<1> QED BY <1>2, <1>3, <1>4, <1>5

LEMMA replicationHeartbeatType ==
  ASSUME TypeInv, conf' = conf, NEW i \in Server, NEW j \in Server,
         replicationHeartbeat(i, j)
  PROVE  TypeInv'
<1> DEFINE p == progress[i][j]
           new == {sendAppendEntries(i, j, log[i], commitIndex[i], p)}
<1>1. /\ state[i] = "leader" /\ i # j /\ Send(msgs, new)
      /\ progress' = [progress EXCEPT ![i][j] = Sent(log[i], p)]
      /\ UNCHANGED <<electionVars, logVars, diskVars>>
  BY DEF replicationHeartbeat
<1>2. p \in ProgressType /\ Bounded(log[i], p)
  BY <1>1 DEF TypeInv, TypeOK, ProgressType, ProgressBounded
<1> HIDE DEF p
<1>3. p.next \in 1..Len(log[i]) + 1 /\ log[i] \in Log /\ commitIndex[i] \in Nat
  BY <1>2, LogFacts DEF ProgressType, Bounded
<1>4. \A m \in new : /\ m \in AppendEntries \cup AppendEntriesResult /\ m.from # m.to
                     /\ m.type = "AppendEntries" /\ m.prev > 0 => m.prevTerm > 0
  BY <1>1, <1>3, sendAppendEntriesType
<1>5. msgs' \subseteq msgs \cup new
  BY <1>1, SendSubset
<1> HIDE DEF new
<1>6. msgs' \subseteq (AppendEntries \cup AppendEntriesResult)' /\ MessagesOK'
  BY <1>4, <1>5, MessagesType
<1>7. Sent(log[i], p) \in ProgressType /\ Bounded(log[i], Sent(log[i], p))
  BY <1>2, <1>3, SentType DEF Bounded
<1>8. /\ commitIndex' \in [Server -> Nat] /\ applied' \in [Server -> Log] /\ chosen' \in Log
      /\ NonEmpty'
  BY <1>1 DEF TypeInv, TypeOK, logVars, diskVars, NonEmpty
<1>9. UNCHANGED <<electionVars, log, lastStored, diskVars>>
  BY <1>1 DEF logVars
<1> QED BY <1>1, <1>6, <1>7, <1>8, <1>9, ProgressStepType

\* A server becomes follower of newLeader in term, whatever else it does.
LEMMA FollowerStepType ==
  ASSUME TypeInv, conf' = conf, NEW i \in Server, NEW term \in Term,
         term >= currentTerm[i], NEW newLeader \in Server \cup {None}, newLeader # i,
         convertToFollower(i, term, newLeader),
         log' \in [Server -> Log], disk' \in [Server -> Log],
         lastStored' \in [Server -> Nat], commitIndex' \in [Server -> Nat],
         applied' \in [Server -> Log], chosen' \in Log, NonEmpty',
         writes' \in [Server -> Seq(Write)],
         \A k \in Server \ {i} : log'[k] = log[k] /\ writes'[k] = writes[k],
         HasFollowerWrite(i)' => newLeader # None,
         msgs' \subseteq (AppendEntries \cup AppendEntriesResult)', MessagesOK'
  PROVE  TypeInv'
<1> USE DEF TypeInv
<1>0. Log' = Log /\ Write' = Write /\ Conf' = Conf
  BY SetsKept
<1>1. /\ state' = [state EXCEPT ![i] = "follower"]
      /\ currentTerm' = [currentTerm EXCEPT ![i] = term]
      /\ votedFor' = [votedFor EXCEPT ![i] = IF term > currentTerm[i] THEN None ELSE @]
      /\ votes' = [votes EXCEPT ![i] = {}]
      /\ leader' = [leader EXCEPT ![i] = newLeader]
      /\ progress' = [progress EXCEPT ![i] = NoProgress]
  BY DEF convertToFollower
<1>2. NoProgress \in [Server -> ProgressType]
  BY DEF NoProgress, ProgressType
<1>3. TypeOK'
  BY <1>0, <1>1, <1>2 DEF TypeOK, Role, ProgressType, Term
<1>4. QueuesOK'
  BY <1>0 DEF QueuesOK
<1>5. Roles'
  <2>1. ASSUME NEW k \in Server, k # i PROVE HasFollowerWrite(k)' <=> HasFollowerWrite(k)
    BY <2>1 DEF HasFollowerWrite
  <2>2. currentTerm'[i] > 0
    BY <1>1, ConfFacts DEF TypeOK, Roles, Term, QueuesOK
  <2> QED BY <1>1, <2>1, <2>2, SMTT(60) DEF Roles, TypeOK
<1>6. ProgressBounded'
  BY <1>1 DEF ProgressBounded, TypeOK
<1> QED BY <1>3, <1>4, <1>5, <1>6

\* A server keeps its role; its queue of writes gets no write of a follower, and
\* if it is leader its log stays.
LEMMA KeepRoleType ==
  ASSUME TypeInv, conf' = conf, NEW i \in Server, UNCHANGED electionVars,
         log' \in [Server -> Log], disk' \in [Server -> Log],
         lastStored' \in [Server -> Nat], commitIndex' \in [Server -> Nat],
         applied' \in [Server -> Log], chosen' \in Log, NonEmpty',
         writes' \in [Server -> Seq(Write)],
         \A k \in Server \ {i} : log'[k] = log[k] /\ writes'[k] = writes[k],
         HasFollowerWrite(i)' => HasFollowerWrite(i),
         NEW p \in [Server -> ProgressType], \A j \in Server \ {i} : p[j] = progress[i][j],
         \/ progress' = progress
         \/ state[i] = "leader" /\ progress' = [progress EXCEPT ![i] = p],
         state[i] = "leader" => log'[i] = log[i],
         msgs' \subseteq (AppendEntries \cup AppendEntriesResult)', MessagesOK'
  PROVE  TypeInv'
<1> USE DEF TypeInv
<1>0. Log' = Log /\ Write' = Write /\ Conf' = Conf
  BY SetsKept
<1>1. /\ progress' \in [Server -> [Server -> ProgressType]]
      /\ \A k \in Server : state[k] # "leader" => progress'[k] = progress[k]
      /\ \A k \in Server : \A j \in Server \ {k} : progress'[k][j] = progress[k][j]
  <2>1. CASE progress' = progress
    BY <2>1 DEF TypeOK, ProgressType
  <2>2. CASE state[i] = "leader" /\ progress' = [progress EXCEPT ![i] = p]
    BY <2>2 DEF TypeOK, ProgressType
  <2> QED BY <2>1, <2>2
<1>2. TypeOK'
  BY <1>0, <1>1 DEF TypeOK, ProgressType, electionVars
<1>3. QueuesOK'
  BY <1>0 DEF QueuesOK
<1>4. Roles'
  <2>1. ASSUME NEW k \in Server, k # i PROVE HasFollowerWrite(k)' <=> HasFollowerWrite(k)
    BY <2>1 DEF HasFollowerWrite
  <2> QED BY <1>1, <2>1, SMTT(60) DEF Roles, TypeOK, electionVars
<1>5. ProgressBounded'
  <2> SUFFICES ASSUME NEW k \in Server, state'[k] = "leader", NEW j \in Server \ {k}
               PROVE  Bounded(log'[k], progress'[k][j])
    BY DEF ProgressBounded
  <2>1. state[k] = "leader"
    BY DEF electionVars
  <2>2. log'[k] = log[k]
    BY <2>1
  <2>3. Bounded(log[k], progress[k][j])
    BY <2>1 DEF ProgressBounded
  <2> QED BY <1>1, <2>2, <2>3, Zenon
<1> QED BY <1>2, <1>3, <1>4, <1>5

LEMMA checkContactQuorumType ==
  ASSUME TypeInv, conf' = conf, NEW i \in Server, checkContactQuorum(i)
  PROVE  TypeInv'
<1>1. /\ state[i] = "leader" /\ convertToFollower(i, currentTerm[i], None)
      /\ UNCHANGED <<logVars, diskVars, msgs>>
  BY DEF checkContactQuorum
<1>2. currentTerm[i] \in Term /\ currentTerm[i] >= currentTerm[i] /\ None # i
  BY ConfFacts, ReplicationAssumption DEF TypeInv, TypeOK, QueuesOK, Term
<1>3. msgs' \subseteq (AppendEntries \cup AppendEntriesResult)' /\ MessagesOK'
  BY <1>1, MessagesKept
<1>4. ~HasFollowerWrite(i)'
  BY <1>1 DEF TypeInv, Roles, HasFollowerWrite, diskVars
<1>5. /\ log' \in [Server -> Log] /\ disk' \in [Server -> Log]
      /\ lastStored' \in [Server -> Nat] /\ commitIndex' \in [Server -> Nat]
      /\ applied' \in [Server -> Log] /\ chosen' \in Log
      /\ writes' \in [Server -> Seq(Write)]
      /\ \A k \in Server \ {i} : log'[k] = log[k] /\ writes'[k] = writes[k]
      /\ NonEmpty'
  BY <1>1 DEF TypeInv, TypeOK, QueuesOK, NonEmpty, logVars, diskVars
<1> QED BY <1>1, <1>2, <1>3, <1>4, <1>5, FollowerStepType

LEMMA raft_startType ==
  ASSUME TypeInv, conf' = conf, NEW i \in Server, raft_start(i)
  PROVE  TypeInv'
<1> USE DEF TypeInv
<1>0. Log' = Log /\ Write' = Write /\ Conf' = Conf
  BY SetsKept
<1>1. /\ state' = [state EXCEPT ![i] = "follower"]
      /\ votes' = [votes EXCEPT ![i] = {}]
      /\ leader' = [leader EXCEPT ![i] = None]
      /\ progress' = [progress EXCEPT ![i] = NoProgress]
      /\ log' = [log EXCEPT ![i] = disk[i]]
      /\ lastStored' = [lastStored EXCEPT ![i] = Len(disk[i])]
      /\ commitIndex' = [commitIndex EXCEPT ![i] = 1]
      /\ applied' = [applied EXCEPT ![i] = SubSeq(disk[i], 1, 1)]
      /\ writes' = [writes EXCEPT ![i] = << >>]
      /\ UNCHANGED <<currentTerm, votedFor, disk, msgs, chosen>>
  BY DEF raft_start
<1>2. NoProgress \in [Server -> ProgressType]
  BY DEF NoProgress, ProgressType
<1>3. disk[i] \in Log /\ Len(disk[i]) \in Nat
  BY LogFacts
<1>4. SubSeq(disk[i], 1, 1) \in Log
  <2> SUFFICES disk[i] \in Seq(Entry) /\ 1 <= Len(disk[i])
    BY SubSeqFacts DEF Log
  <2> QED BY LogFacts DEF Log
<1>5. TypeOK'
  BY <1>0, <1>1, <1>2, <1>3, <1>4 DEF TypeOK, Role, ProgressType
<1>6. QueuesOK'
  BY <1>0, <1>1, SetsKept DEF QueuesOK
<1>7. Roles'
  BY <1>1, ReplicationAssumption, SMTT(60) DEF Roles, TypeOK, QueuesOK, HasFollowerWrite
<1>8. ProgressBounded'
  BY <1>1 DEF ProgressBounded, TypeOK
<1>9. MessagesOK' /\ NonEmpty'
  BY <1>1 DEF MessagesOK, NonEmpty, TypeOK
<1> QED BY <1>5, <1>6, <1>7, <1>8, <1>9

\* replicationUpdate: the new progress q of server j, and what is sent to it.
LEMMA ReplicateType ==
  ASSUME TypeInv, conf' = conf, NEW i \in Server, NEW j \in Server, i # j,
         NEW q \in ProgressType, Bounded(log[i], q), state[i] = "leader",
         NEW c \in Nat, NEW rest \in SUBSET msgs, NEW send \in BOOLEAN,
         progress' = [progress EXCEPT ![i][j] = IF send THEN Sent(log[i], q) ELSE q],
         Send(rest, IF send THEN {sendAppendEntries(i, j, log[i], c, q)} ELSE {}),
         UNCHANGED <<electionVars, log, lastStored, diskVars>>,
         commitIndex' \in [Server -> Nat], applied' \in [Server -> Log], chosen' \in Log,
         NonEmpty'
  PROVE  TypeInv'
<1> DEFINE new == {sendAppendEntries(i, j, log[i], c, q)}
<1>1. q.next \in 1..Len(log[i]) + 1 /\ log[i] \in Log
  BY LogFacts DEF ProgressType, Bounded
<1>2. \A m \in new : /\ m \in AppendEntries \cup AppendEntriesResult /\ m.from # m.to
                     /\ m.type = "AppendEntries" /\ m.prev > 0 => m.prevTerm > 0
  BY <1>1, sendAppendEntriesType
<1>3. CASE send
  <2>1. msgs' \subseteq rest \cup new
    BY <1>3, SendSubset
  <2> HIDE DEF new
  <2>2. msgs' \subseteq (AppendEntries \cup AppendEntriesResult)' /\ MessagesOK'
    BY <1>2, <2>1, MessagesType
  <2>3. Sent(log[i], q) \in ProgressType /\ Bounded(log[i], Sent(log[i], q))
    BY <1>1, SentType DEF Bounded
  <2>4. progress' = [progress EXCEPT ![i][j] = Sent(log[i], q)]
    BY <1>3
  <2> QED BY <2>2, <2>3, <2>4, ProgressStepType
<1>4. CASE ~send
  <2>1. msgs' \subseteq msgs
    BY <1>4 DEF Send
  <2>2. msgs' \subseteq (AppendEntries \cup AppendEntriesResult)' /\ MessagesOK'
    BY <2>1, MessagesKept
  <2>3. progress' = [progress EXCEPT ![i][j] = q]
    BY <1>4
  <2> QED BY <2>2, <2>3, ProgressStepType
<1> QED BY <1>3, <1>4

LEMMA progressMaybeDecrementType ==
  ASSUME NEW l \in Log, NEW p \in ProgressType, Bounded(l, p),
         NEW rejected \in Nat, NEW last \in Nat, ~Stale(p, rejected)
  PROVE  LET q == progressMaybeDecrement(p, rejected, last)
         IN  q \in ProgressType /\ Bounded(l, q)
<1>1. Len(l) \in Nat
  BY DEF Log
<1>2. CASE p.pipeline
  <2> DEFINE q == progressMaybeDecrement(p, rejected, last)
  <2>1. q = [p EXCEPT !.next = p.match + 1, !.pipeline = FALSE]
    BY <1>2 DEF progressMaybeDecrement
  <2> HIDE DEF q
  <2>2. q = [next |-> p.match + 1, match |-> p.match, pipeline |-> FALSE]
    BY <2>1 DEF ProgressType
  <2>3. q \in ProgressType /\ Bounded(l, q)
    BY <1>1, <2>2 DEF ProgressType, Bounded
  <2> QED BY <2>3 DEF q
<1>3. CASE ~p.pipeline
  <2> DEFINE n == Min({rejected, last + 1})
             q == progressMaybeDecrement(p, rejected, last)
  <2>1. n = IF rejected <= last + 1 THEN rejected ELSE last + 1
    BY MinOfTwo
  <2>2. n \in Nat /\ n <= rejected /\ rejected = p.next - 1
    BY <1>3, <2>1 DEF Stale
  <2> HIDE DEF n
  <2>3. Max({1, n}) = IF 1 >= n THEN 1 ELSE n
    BY <2>2, MaxOfTwo
  <2>4. q = [p EXCEPT !.next = Max({1, n})]
    BY <1>3 DEF progressMaybeDecrement, n
  <2> HIDE DEF q
  <2>5. q \in ProgressType /\ Bounded(l, q)
    BY <1>1, <2>2, <2>3, <2>4 DEF ProgressType, Bounded
  <2> QED BY <2>5 DEF q
<1> QED BY <1>2, <1>3

LEMMA progressMaybeUpdateType ==
  ASSUME NEW l \in Log, NEW p \in ProgressType, Bounded(l, p), NEW last \in 0..Len(l)
  PROVE  LET q == progressMaybeUpdate(p, last)
         IN  q \in ProgressType /\ Bounded(l, q)
<1>1. Len(l) \in Nat
  BY DEF Log
<1>2. /\ Max({p.next, last + 1}) = IF p.next >= last + 1 THEN p.next ELSE last + 1
      /\ Max({p.match, last}) = IF p.match >= last THEN p.match ELSE last
  BY <1>1, MaxOfTwo DEF ProgressType
<1> DEFINE q == progressMaybeUpdate(p, last)
<1>3. q = [next |-> IF p.next >= last + 1 THEN p.next ELSE last + 1,
           match |-> IF p.match >= last THEN p.match ELSE last,
           pipeline |-> p.pipeline \/ p.match < last]
  BY <1>2 DEF progressMaybeUpdate
<1> HIDE DEF q
<1>4. q \in ProgressType /\ Bounded(l, q)
  BY <1>1, <1>3 DEF ProgressType, Bounded
<1> QED BY <1>4 DEF q

\* replicationQuorum never takes the commit index back.
LEMMA LeaderCommitType ==
  ASSUME TypeInv, NEW i \in Server, NEW l, NEW prog, NEW index \in Nat
  PROVE  LeaderCommit(i, l, prog, index) \in Nat /\ LeaderCommit(i, l, prog, index) >= 1
  BY LogFacts DEF LeaderCommit, TypeInv, NonEmpty

LEMMA recvAppendEntriesResultType ==
  ASSUME TypeInv, conf' = conf, NEW m \in msgs, recvAppendEntriesResult(m)
  PROVE  TypeInv'
<1> DEFINE i == m.to
           j == m.from
           p == progress[i][j]
           last == Min({m.last, Len(log[i])})
           current == state[i] = "leader" /\ m.term = currentTerm[i]
           Replicate(q, c, due) ==
             LET send == ShouldReplicate(log[i], q, due)
             IN  /\ progress' = [progress EXCEPT ![i][j] =
                                   IF send THEN Sent(log[i], q) ELSE q]
                 /\ Send(msgs \ {m}, IF send THEN {sendAppendEntries(i, j, log[i], c, q)}
                                             ELSE {})
<1>1. m.type = "AppendEntriesResult" /\ UNCHANGED diskVars
  BY DEF recvAppendEntriesResult
<1>2. m \in AppendEntriesResult /\ i # j
  BY <1>1 DEF TypeInv, QueuesOK, MessagesOK, AppendEntries
<1>3. /\ i \in Server /\ j \in Server /\ m.term \in Term /\ m.rejected \in Nat
      /\ m.last \in Nat
  BY <1>2 DEF AppendEntriesResult
<1>4. log[i] \in Log /\ Len(log[i]) \in Nat
  BY <1>3, LogFacts
<1>5. last \in 0..Len(log[i])
  BY <1>3, <1>4, MinOfTwo
<1>6. p \in ProgressType /\ (state[i] = "leader" => Bounded(log[i], p))
  BY <1>2, <1>3 DEF TypeInv, TypeOK, ProgressType, ProgressBounded
<1>7. CASE msgs' = msgs \ {m} /\ UNCHANGED <<electionVars, logVars, progress>>
  <2>1. msgs' \subseteq (AppendEntries \cup AppendEntriesResult)' /\ MessagesOK'
    BY <1>7, MessagesKept
  <2>2. progress[i] \in [Server -> ProgressType]
    BY <1>3 DEF TypeInv, TypeOK, ProgressType
  <2>3. /\ log' \in [Server -> Log] /\ disk' \in [Server -> Log]
        /\ lastStored' \in [Server -> Nat] /\ commitIndex' \in [Server -> Nat]
        /\ applied' \in [Server -> Log] /\ chosen' \in Log
        /\ writes' \in [Server -> Seq(Write)]
        /\ \A k \in Server : log'[k] = log[k] /\ writes'[k] = writes[k]
        /\ HasFollowerWrite(i)' => HasFollowerWrite(i)
        /\ NonEmpty'
    BY <1>1, <1>7 DEF TypeInv, TypeOK, QueuesOK, NonEmpty, logVars, diskVars, HasFollowerWrite
  <2> HIDE DEF i
  <2> QED BY <1>3, <1>7, <2>1, <2>2, <2>3, KeepRoleType
<1> HIDE DEF i, j, p, last
<1>8. CASE /\ state[i] = "leader" /\ m.term > currentTerm[i]
           /\ convertToFollower(i, m.term, None)
           /\ msgs' = msgs \ {m}
           /\ UNCHANGED logVars
  <2>1. msgs' \subseteq (AppendEntries \cup AppendEntriesResult)' /\ MessagesOK'
    BY <1>8, MessagesKept
  <2>a. currentTerm[i] \in Term /\ Conf.maxTerm \in Nat
    BY <1>3, ConfFacts DEF TypeInv, TypeOK, QueuesOK, Term
  <2>b. m.term >= currentTerm[i]
    BY <1>3, <1>8, <2>a DEF Term
  <2>2. m.term >= currentTerm[i] /\ None # i
    BY <1>3, <2>b, ReplicationAssumption
  <2>3. ~HasFollowerWrite(i)'
    BY <1>1, <1>3, <1>8 DEF TypeInv, Roles, HasFollowerWrite, diskVars
  <2>4. /\ log' \in [Server -> Log] /\ disk' \in [Server -> Log]
        /\ lastStored' \in [Server -> Nat] /\ commitIndex' \in [Server -> Nat]
        /\ applied' \in [Server -> Log] /\ chosen' \in Log
        /\ writes' \in [Server -> Seq(Write)]
        /\ \A k \in Server \ {i} : log'[k] = log[k] /\ writes'[k] = writes[k]
        /\ NonEmpty'
    BY <1>1, <1>8 DEF TypeInv, TypeOK, QueuesOK, NonEmpty, logVars, diskVars
  <2> QED BY <1>3, <1>8, <2>1, <2>2, <2>3, <2>4, FollowerStepType
<1>9. CASE /\ current /\ m.rejected > 0 /\ ~Stale(p, m.rejected)
           /\ \E due \in BOOLEAN :
                Replicate(progressMaybeDecrement(p, m.rejected, m.last),
                          commitIndex[i], due)
           /\ UNCHANGED <<electionVars, logVars>>
  <2> DEFINE q == progressMaybeDecrement(p, m.rejected, m.last)
  <2>1. q \in ProgressType /\ Bounded(log[i], q)
    BY <1>3, <1>4, <1>6, <1>9, progressMaybeDecrementType
  <2>2. PICK due \in BOOLEAN : Replicate(q, commitIndex[i], due)
    BY <1>9
  <2>3. /\ commitIndex' \in [Server -> Nat] /\ applied' \in [Server -> Log] /\ chosen' \in Log
        /\ NonEmpty' /\ commitIndex[i] \in Nat
    BY <1>1, <1>3, <1>9 DEF TypeInv, TypeOK, logVars, diskVars, NonEmpty
  <2>4. UNCHANGED <<electionVars, log, lastStored, diskVars>>
    BY <1>1, <1>9 DEF logVars
  <2>5. ShouldReplicate(log[i], q, due) \in BOOLEAN /\ msgs \ {m} \in SUBSET msgs
    BY DEF ShouldReplicate
  <2> HIDE DEF q
  <2> QED BY <1>2, <1>3, <1>9, <2>1, <2>2, <2>3, <2>4, <2>5, ReplicateType
<1>10. CASE /\ current /\ m.rejected = 0 /\ p.match < last
            /\ LET q == progressMaybeUpdate(p, last)
                   c == LeaderCommit(i, log[i], [progress[i] EXCEPT ![j] = q], last)
               IN  /\ ApplyUpTo(i, log[i], c)
                   /\ \E due \in BOOLEAN : Replicate(q, c, due)
            /\ UNCHANGED <<electionVars, log, lastStored>>
  <2> DEFINE q == progressMaybeUpdate(p, last)
             c == LeaderCommit(i, log[i], [progress[i] EXCEPT ![j] = q], last)
  <2>1. q \in ProgressType /\ Bounded(log[i], q)
    BY <1>4, <1>5, <1>6, <1>10, progressMaybeUpdateType
  <2>2. PICK due \in BOOLEAN : Replicate(q, c, due)
    BY <1>10
  <2>a. ApplyUpTo(i, log[i], c)
    BY <1>10
  <2>b. c \in Nat /\ c >= 1
    <3>1. last \in Nat
      BY <1>4, <1>5
    <3> QED BY <1>3, <3>1, LeaderCommitType
  <2> HIDE DEF q, c
  <2>3. commitIndex' \in [Server -> Nat] /\ applied' \in [Server -> Log] /\ chosen' \in Log
    BY <1>3, <1>4, <2>a, <2>b, ApplyUpToType
  <2>c. NonEmpty'
    BY <1>1, <1>10, <2>a, <2>b DEF ApplyUpTo, TypeInv, TypeOK, diskVars, NonEmpty
  <2>4. UNCHANGED <<electionVars, log, lastStored, diskVars>>
    BY <1>1, <1>10
  <2>5. ShouldReplicate(log[i], q, due) \in BOOLEAN /\ msgs \ {m} \in SUBSET msgs
    BY DEF ShouldReplicate
  <2> QED BY <1>2, <1>3, <1>10, <2>1, <2>2, <2>3, <2>b, <2>c, <2>4, <2>5, ReplicateType
<1>11. CASE /\ current /\ m.rejected = 0 /\ p.match >= last
            /\ progress' = [progress EXCEPT ![i][j] = progressMaybeUpdate(@, last)]
            /\ msgs' = msgs \ {m}
            /\ UNCHANGED <<electionVars, logVars>>
  <2> DEFINE q == progressMaybeUpdate(p, last)
  <2>1. q \in ProgressType /\ Bounded(log[i], q)
    BY <1>4, <1>5, <1>6, <1>11, progressMaybeUpdateType
  <2>2. progress' = [progress EXCEPT ![i][j] = q]
    BY <1>11 DEF p
  <2>3. /\ commitIndex' \in [Server -> Nat] /\ applied' \in [Server -> Log] /\ chosen' \in Log
        /\ NonEmpty'
    BY <1>1, <1>11 DEF TypeInv, TypeOK, logVars, diskVars, NonEmpty
  <2>4. UNCHANGED <<electionVars, log, lastStored, diskVars>>
    BY <1>1, <1>11 DEF logVars
  <2>5. msgs' \subseteq (AppendEntries \cup AppendEntriesResult)' /\ MessagesOK'
    BY <1>11, MessagesKept
  <2> HIDE DEF q
  <2> QED BY <1>2, <1>3, <1>11, <2>1, <2>2, <2>3, <2>4, <2>5, ProgressStepType
<1> QED BY <1>7, <1>8, <1>9, <1>10, <1>11 DEF recvAppendEntriesResult, i, j, p, last

(* What a follower makes of a message with new entries: the definitions of
   recvAppendEntries, by name. *)
NewEntries(i, m) == SubSeq(m.entries, FirstNew(i, m) - m.prev, Len(m.entries))

InConflict(i, m) == NewEntries(i, m) # << >> /\ TermAt(log[i], FirstNew(i, m)) # 0

Kept(i, m) == IF InConflict(i, m) THEN Truncate(log[i], FirstNew(i, m)) ELSE log[i]

StoredThen(i, m) ==
  IF InConflict(i, m) THEN Min({lastStored[i], FirstNew(i, m) - 1}) ELSE lastStored[i]

Truncation(i, m) ==
  IF InConflict(i, m) THEN <<[op |-> "truncate", index |-> FirstNew(i, m)]>> ELSE << >>

WriteOf(i, m) ==
  [op |-> "follower", index |-> FirstNew(i, m), entries |-> NewEntries(i, m),
   term |-> m.term, prev |-> m.prev, commit |-> m.commit]

\* deleteConflictingEntries never touches the first entry, leaves no gap, and
\* truncates only where the entries differ.
LEMMA NewEntriesFacts ==
  ASSUME TypeInv, NEW m \in msgs, m \in AppendEntries,
         Matches(m.to, m), ~Conflicts(m.to, m), NewEntries(m.to, m) # << >>
  PROVE  LET i == m.to
             index == FirstNew(i, m)
             n == Matching(log[i], m.prev + 1, m.entries)
             new == NewEntries(i, m)
         IN  /\ n \in 0..Len(m.entries) - 1 /\ index = m.prev + n + 1
             /\ index \in WriteIndex /\ index <= Len(log[i]) + 1
             /\ m.prev <= Len(log[i]) /\ TermAt(log[i], m.prev) = m.prevTerm
             /\ \A k \in 1..n : log[i][m.prev + k] = m.entries[k]
             /\ new \in Log /\ Len(new) = Len(m.entries) - n
             /\ \A k \in 1..Len(new) : new[k] = m.entries[n + k]
             /\ InConflict(i, m) <=> index <= Len(log[i])
             /\ index <= Len(log[i]) => log[i][index] # new[1]
             /\ Kept(i, m) \in Log /\ Len(Kept(i, m)) = index - 1
             /\ \A k \in 1..index - 1 : Kept(i, m)[k] = log[i][k]
<1> DEFINE i == m.to
           l == log[i]
           index == FirstNew(i, m)
           n == Matching(l, m.prev + 1, m.entries)
           new == NewEntries(i, m)
<1>1. /\ i \in Server /\ m.prev \in Nat /\ m.entries \in Seq(Entry) /\ m.entries \in Log
      /\ Len(m.entries) \in Nat
  BY DEF AppendEntries, Log
<1>2. /\ l \in Seq(Entry) /\ Len(l) \in Nat \ {0} /\ commitIndex[i] \in Nat \ {0}
      /\ l \in Log
  BY <1>1, LogFacts DEF Log, TypeInv, NonEmpty
<1>3. \A e \in Entry : e \in Nat \ {0}
  BY ConfFacts DEF Entry, TypeInv, QueuesOK
<1>4. /\ n \in 0..Len(m.entries)
      /\ \A k \in 1..n : TermAt(l, m.prev + 1 + k - 1) = m.entries[k]
      /\ n < Len(m.entries) => TermAt(l, m.prev + 1 + n) # m.entries[n + 1]
  <2>1. m.prev + 1 \in Nat \ {0}
    BY <1>1
  <2> QED BY <1>1, <2>1, MatchingFacts
<1>5. index = m.prev + n + 1
  BY DEF FirstNew
<1>6. new = SubSeq(m.entries, n + 1, Len(m.entries))
  <2>1. index - m.prev = n + 1
    BY <1>1, <1>4, <1>5
  <2> QED BY <2>1 DEF NewEntries
<1>a. TermAt(l, m.prev) = m.prevTerm
  BY DEF Matches
<1>b. ~(FirstNew(i, m) <= m.prev + Len(m.entries)
        /\ FirstNew(i, m) \in 1..Min({commitIndex[i], Len(l)}))
  BY DEF Conflicts
<1>c. m.prev > 0 => m.prevTerm > 0
  BY DEF TypeInv, MessagesOK, AppendEntries
<1> HIDE DEF n, index, l, i
<1>7. n < Len(m.entries)
  <2>1. ASSUME n = Len(m.entries) PROVE FALSE
    <3>1. Len(SubSeq(m.entries, n + 1, Len(m.entries))) = 0
      BY <1>1, <2>1, SubSeqFacts
    <3>2. new \in Seq(Entry)
      BY <1>1, <1>4, <1>6, SubSeqFacts
    <3> QED BY <1>6, <3>1, <3>2 DEF i
  <2> QED BY <1>1, <1>4, <2>1
<1>8. /\ new \in Log /\ Len(new) = Len(m.entries) - n
      /\ \A k \in 1..Len(new) : new[k] = m.entries[n + k]
  <2>0. n + 1 \in Nat \ {0} /\ Len(m.entries) \in Int /\ Len(m.entries) <= Len(m.entries)
    BY <1>1, <1>4
  <2>1. /\ SubSeq(m.entries, n + 1, Len(m.entries)) \in Seq(Entry)
        /\ Len(SubSeq(m.entries, n + 1, Len(m.entries))) =
             IF n + 1 <= Len(m.entries) THEN Len(m.entries) - (n + 1) + 1 ELSE 0
        /\ \A k \in 1..Len(m.entries) - (n + 1) + 1 :
             SubSeq(m.entries, n + 1, Len(m.entries))[k] = m.entries[n + 1 + k - 1]
    BY <1>1, <2>0, SubSeqFacts
  <2> HIDE DEF new
  <2>2. Len(new) = Len(m.entries) - n
    BY <1>1, <1>4, <1>6, <1>7, <2>1
  <2>3. ASSUME NEW k \in 1..Len(new) PROVE new[k] = m.entries[n + k]
    <3>1. k \in 1..Len(m.entries) - (n + 1) + 1 /\ n + 1 + k - 1 = n + k
      BY <1>1, <1>4, <2>2
    <3> QED BY <1>6, <2>1, <3>1
  <2> QED BY <1>6, <2>1, <2>2, <2>3 DEF Log
<1> HIDE DEF new
<1>d. \A k \in Nat : TermAt(l, k) # 0 <=> k \in 1..Len(l)
  BY <1>2, <1>3 DEF TermAt
<1>9. m.prev <= Len(l)
  BY <1>1, <1>2, <1>a, <1>c, <1>d
<1>10. ASSUME NEW k \in 1..n PROVE m.prev + k <= Len(l) /\ l[m.prev + k] = m.entries[k]
  <2>1. m.entries[k] \in Entry /\ m.prev + 1 + k - 1 = m.prev + k /\ m.prev + k \in Nat
    BY <1>1, <1>4
  <2>2. TermAt(l, m.prev + k) = m.entries[k]
    BY <1>4, <2>1
  <2>3. m.prev + k \in 1..Len(l)
    BY <1>3, <1>d, <2>1, <2>2
  <2> QED BY <2>2, <2>3 DEF TermAt
<1>11. index <= Len(l) + 1
  <2>1. CASE n = 0
    BY <1>1, <1>2, <1>5, <1>9, <2>1
  <2>2. CASE n > 0
    <3>1. n \in 1..n /\ n \in Nat
      BY <1>1, <1>4, <2>2
    <3>2. m.prev + n <= Len(l)
      BY <1>10, <3>1
    <3> QED BY <1>1, <1>2, <1>5, <3>1, <3>2
  <2> QED BY <1>1, <1>4, <2>1, <2>2
<1>12. index \in WriteIndex
  <2>1. ASSUME index = 1 PROVE FALSE
    <3>1. Min({commitIndex[i], Len(l)}) = IF commitIndex[i] <= Len(l) THEN commitIndex[i] ELSE Len(l)
      BY <1>2, MinOfTwo
    <3>2. 1 \in 1..Min({commitIndex[i], Len(l)})
      BY <1>2, <3>1
    <3>3. index <= m.prev + Len(m.entries)
      BY <1>1, <1>4, <1>5, <1>7
    <3> QED BY <1>b, <2>1, <3>2, <3>3 DEF index
  <2> QED BY <1>1, <1>4, <1>5, <2>1 DEF WriteIndex
<1>13. InConflict(i, m) <=> index <= Len(l)
  <2>1. new # << >>
    BY DEF i, new
  <2> QED BY <1>12, <1>2, <1>d, <2>1 DEF InConflict, index, l, new, WriteIndex
<1>14. index <= Len(l) => l[index] # new[1]
  <2>1. TermAt(l, index) # m.entries[n + 1]
    <3>1. m.prev + 1 + n = index
      BY <1>1, <1>4, <1>5
    <3> QED BY <1>4, <1>7, <3>1
  <2>2. new[1] = m.entries[n + 1]
    BY <1>1, <1>4, <1>7, <1>8
  <2> QED BY <1>2, <1>12, <2>1, <2>2 DEF TermAt, WriteIndex
<1>15. /\ Kept(i, m) \in Log /\ Len(Kept(i, m)) = index - 1
       /\ \A k \in 1..index - 1 : Kept(i, m)[k] = l[k]
  <2>1. CASE InConflict(i, m)
    <3>1. Kept(i, m) = Truncate(l, index)
      BY <2>1 DEF Kept, l, index
    <3>2. index \in Nat \ {0} /\ index - 1 <= Len(l)
      BY <1>2, <1>11, <1>12 DEF WriteIndex
    <3>3. /\ Truncate(l, index) \in Seq(Entry)
          /\ Len(Truncate(l, index)) = index - 1
          /\ \A k \in 1..Len(Truncate(l, index)) : Truncate(l, index)[k] = l[k]
      BY <1>2, <3>2, TruncateFacts
    <3> QED BY <3>1, <3>3 DEF Log
  <2>2. CASE ~InConflict(i, m)
    <3>1. Kept(i, m) = l
      BY <2>2 DEF Kept, l
    <3>2. index = Len(l) + 1
      BY <1>2, <1>11, <1>12, <1>13, <2>2 DEF WriteIndex
    <3> QED BY <1>2, <3>1, <3>2
  <2> QED BY <2>1, <2>2
<1>16. n \in 0..Len(m.entries) - 1
  BY <1>1, <1>4, <1>7
<1> QED BY <1>5, <1>8, <1>9, <1>a, <1>10, <1>11, <1>12, <1>13, <1>14, <1>15, <1>16
        DEF i, l, index, n, new

LEMMA FollowerCommitType ==
  ASSUME TypeInv, NEW i \in Server, NEW leaderCommit \in Nat, NEW stored \in Nat
  PROVE  LET c == FollowerCommit(i, leaderCommit, stored)
         IN  c \in Nat /\ c >= 1
<1>1. commitIndex[i] \in Nat /\ commitIndex[i] >= 1
  BY LogFacts DEF TypeInv, NonEmpty
<1>2. Min({leaderCommit, stored}) = IF leaderCommit <= stored THEN leaderCommit ELSE stored
  BY MinOfTwo
<1> QED BY <1>1, <1>2 DEF FollowerCommit

\* The two ways in which recvAppendEntries goes on once the message is accepted
\* and there is something to write.
LEMMA AppendFollowerFacts ==
  ASSUME TypeInv, conf' = conf, NEW m \in msgs, m \in AppendEntries,
         Matches(m.to, m), ~Conflicts(m.to, m), NewEntries(m.to, m) # << >>,
         log' = [log EXCEPT ![m.to] = Kept(m.to, m) \o NewEntries(m.to, m)],
         writes' = [writes EXCEPT ![m.to] = @ \o Truncation(m.to, m) \o <<WriteOf(m.to, m)>>]
  PROVE  /\ log' \in [Server -> Log] /\ log'[m.to] # << >>
         /\ Truncation(m.to, m) \in Seq(Write)
         /\ WriteOf(m.to, m) \in Write /\ writes' \in [Server -> Seq(Write)]
<1> DEFINE i == m.to
           w == WriteOf(i, m)
           t == Truncation(i, m)
<1>1. i \in Server /\ m.term \in Term /\ m.prev \in Nat /\ m.commit \in Nat
  BY DEF AppendEntries
<1>2. /\ FirstNew(i, m) \in WriteIndex
      /\ NewEntries(i, m) \in Log
      /\ Kept(i, m) \in Log /\ Len(Kept(i, m)) = FirstNew(i, m) - 1
  BY NewEntriesFacts
<1> HIDE DEF i
<1>3. Kept(i, m) \o NewEntries(i, m) \in Log /\ Kept(i, m) \o NewEntries(i, m) # << >>
  <2>1. /\ Kept(i, m) \o NewEntries(i, m) \in Seq(Entry)
        /\ Len(Kept(i, m) \o NewEntries(i, m)) = Len(Kept(i, m)) + Len(NewEntries(i, m))
    BY <1>2, ConcatProperties DEF Log
  <2>2. Len(NewEntries(i, m)) \in Nat
    BY <1>2 DEF Log
  <2>3. Len(Kept(i, m) \o NewEntries(i, m)) > 0
    BY <1>2, <2>1, <2>2 DEF WriteIndex
  <2> QED BY <2>1, <2>3 DEF Log
<1>4. w \in Write
  <2>1. w \in FollowerWrite
    BY <1>1, <1>2 DEF WriteOf, FollowerWrite
  <2> QED BY <2>1 DEF Write
<1>5. t \in Seq(Write)
  <2>1. CASE InConflict(i, m)
    <3>1. t = <<[op |-> "truncate", index |-> FirstNew(i, m)]>>
      BY <2>1 DEF Truncation
    <3>2. [op |-> "truncate", index |-> FirstNew(i, m)] \in Write
      BY <1>2 DEF Write, TruncateWrite
    <3> QED BY <3>1, <3>2
  <2>2. CASE ~InConflict(i, m)
    BY <2>2 DEF Truncation
  <2> QED BY <2>1, <2>2
<1> HIDE DEF w, t
<1>6. writes' \in [Server -> Seq(Write)]
  <2>1. writes[i] \in Seq(Write)
    BY <1>1 DEF TypeInv, QueuesOK
  <2>2. writes[i] \o t \o <<w>> \in Seq(Write)
    BY <1>4, <1>5, <2>1
  <2>3. writes' = [writes EXCEPT ![i] = writes[i] \o t \o <<w>>]
    BY DEF i, t, w
  <2> QED BY <2>2, <2>3 DEF TypeInv, QueuesOK
<1>7. log' \in [Server -> Log] /\ log'[i] # << >>
  <2> DEFINE l == Kept(i, m) \o NewEntries(i, m)
  <2>1. log' = [log EXCEPT ![i] = l] /\ l \in Log /\ l # << >>
    BY <1>3 DEF i
  <2>2. log \in [Server -> Log]
    BY DEF TypeInv, TypeOK
  <2> HIDE DEF l
  <2> QED BY <1>1, <2>1, <2>2
<1> QED BY <1>4, <1>5, <1>6, <1>7 DEF i, w, t

\* The answers to a message, in the order of the code.
LEMMA recvAppendEntriesCases ==
  ASSUME NEW m, recvAppendEntries(m)
  PROVE  LET i == m.to
         IN  /\ m.type = "AppendEntries"
             /\ \/ /\ m.term < currentTerm[i]
                   /\ Send(msgs \ {m}, {result(i, m.from, currentTerm[i], m.prev, Len(log[i]))})
                   /\ UNCHANGED <<electionVars, logVars, progress, diskVars>>
                \/ /\ m.term >= currentTerm[i]
                   /\ m.term = currentTerm[i] => state[i] # "leader"
                   /\ ~Conflicts(i, m)
                   /\ convertToFollower(i, m.term, m.from)
                   /\ UNCHANGED disk
                   /\ \/ /\ ~Matches(i, m)
                         /\ Send(msgs \ {m}, {result(i, m.from, m.term, m.prev, Reached(i))})
                         /\ UNCHANGED <<logVars, writes>>
                      \/ /\ Matches(i, m) /\ NewEntries(i, m) = << >>
                         /\ ApplyUpTo(i, log[i], FollowerCommit(i, m.commit, lastStored[i]))
                         /\ Send(msgs \ {m}, {result(i, m.from, m.term, 0, Reached(i))})
                         /\ UNCHANGED <<log, lastStored, writes>>
                      \/ /\ Matches(i, m) /\ NewEntries(i, m) # << >>
                         /\ log' = [log EXCEPT ![i] = Kept(i, m) \o NewEntries(i, m)]
                         /\ lastStored' = [lastStored EXCEPT ![i] = StoredThen(i, m)]
                         /\ writes' = [writes EXCEPT ![i] =
                                         @ \o Truncation(i, m) \o <<WriteOf(i, m)>>]
                         /\ msgs' = msgs \ {m}
                         /\ UNCHANGED <<commitIndex, applied, chosen>>
  BY Zenon DEF recvAppendEntries, NewEntries, Kept, StoredThen, Truncation, WriteOf, InConflict

LEMMA recvAppendEntriesType ==
  ASSUME TypeInv, conf' = conf, NEW m \in msgs, recvAppendEntries(m)
  PROVE  TypeInv'
<1> DEFINE i == m.to
<1>1. m.type = "AppendEntries"
  BY DEF recvAppendEntries
<1>2. m \in AppendEntries /\ i # m.from
  BY <1>1 DEF TypeInv, QueuesOK, MessagesOK, AppendEntriesResult
<1>3. /\ i \in Server /\ m.from \in Server /\ m.term \in Term /\ m.prev \in Nat
      /\ m.commit \in Nat
  BY <1>2 DEF AppendEntries
<1>4. /\ log[i] \in Log /\ Len(log[i]) \in Nat /\ lastStored[i] \in Nat
      /\ currentTerm[i] \in Term
  BY <1>3, LogFacts DEF TypeInv, TypeOK, Term
<1>a. ASSUME NEW new, msgs' \subseteq (msgs \ {m}) \cup new,
             \A r \in new : r \in AppendEntriesResult /\ r.from # r.to
                            /\ r.type # "AppendEntries"
      PROVE  msgs' \subseteq (AppendEntries \cup AppendEntriesResult)' /\ MessagesOK'
  <2>1. msgs \ {m} \in SUBSET msgs
    OBVIOUS
  <2>2. \A r \in new : /\ r \in AppendEntries \cup AppendEntriesResult /\ r.from # r.to
                       /\ r.type = "AppendEntries" /\ r.prev > 0 => r.prevTerm > 0
    BY <1>a
  <2> QED BY <1>a, <2>1, <2>2, MessagesType
<1>b. ASSUME NEW term \in Term, NEW rejected \in Nat, NEW last \in Nat,
             Send(msgs \ {m}, {result(i, m.from, term, rejected, last)})
      PROVE  msgs' \subseteq (AppendEntries \cup AppendEntriesResult)' /\ MessagesOK'
  <2> DEFINE new == {result(i, m.from, term, rejected, last)}
  <2>1. \A r \in new : r \in AppendEntriesResult /\ r.from # r.to /\ r.type # "AppendEntries"
    BY <1>2, <1>3, resultType
  <2>2. msgs' \subseteq (msgs \ {m}) \cup new
    BY <1>b, SendSubset
  <2> HIDE DEF new
  <2> QED BY <2>1, <2>2, <1>a
<1>5. CASE /\ m.term < currentTerm[i]
           /\ Send(msgs \ {m}, {result(i, m.from, currentTerm[i], m.prev, Len(log[i]))})
           /\ UNCHANGED <<electionVars, logVars, progress, diskVars>>
  <2>1. msgs' \subseteq (AppendEntries \cup AppendEntriesResult)' /\ MessagesOK'
    BY <1>3, <1>4, <1>5, <1>b
  <2>2. progress[i] \in [Server -> ProgressType]
    BY <1>3 DEF TypeInv, TypeOK, ProgressType
  <2>3. /\ log' \in [Server -> Log] /\ disk' \in [Server -> Log]
        /\ lastStored' \in [Server -> Nat] /\ commitIndex' \in [Server -> Nat]
        /\ applied' \in [Server -> Log] /\ chosen' \in Log
        /\ writes' \in [Server -> Seq(Write)]
        /\ \A k \in Server : log'[k] = log[k] /\ writes'[k] = writes[k]
        /\ HasFollowerWrite(i)' => HasFollowerWrite(i)
        /\ NonEmpty'
    BY <1>5 DEF TypeInv, TypeOK, QueuesOK, NonEmpty, logVars, diskVars, HasFollowerWrite
  <2> HIDE DEF i
  <2> QED BY <1>3, <1>5, <2>1, <2>2, <2>3, KeepRoleType
<1>6. CASE /\ m.term >= currentTerm[i]
           /\ ~Conflicts(i, m)
           /\ convertToFollower(i, m.term, m.from)
           /\ UNCHANGED disk
           /\ \/ /\ ~Matches(i, m)
                 /\ Send(msgs \ {m}, {result(i, m.from, m.term, m.prev, Reached(i))})
                 /\ UNCHANGED <<logVars, writes>>
              \/ /\ ApplyUpTo(i, log[i], FollowerCommit(i, m.commit, lastStored[i]))
                 /\ Send(msgs \ {m}, {result(i, m.from, m.term, 0, Reached(i))})
                 /\ UNCHANGED <<log, lastStored, writes>>
              \/ /\ Matches(i, m) /\ NewEntries(i, m) # << >>
                 /\ log' = [log EXCEPT ![i] = Kept(i, m) \o NewEntries(i, m)]
                 /\ lastStored' = [lastStored EXCEPT ![i] = StoredThen(i, m)]
                 /\ writes' = [writes EXCEPT ![i] =
                                 @ \o Truncation(i, m) \o <<WriteOf(i, m)>>]
                 /\ msgs' = msgs \ {m}
                 /\ UNCHANGED <<commitIndex, applied, chosen>>
  <2>a. m.from \in Server \cup {None} /\ m.from # i /\ m.from # None
    BY <1>2, <1>3, ReplicationAssumption
  <2>1. CASE /\ ~Matches(i, m)
             /\ Send(msgs \ {m}, {result(i, m.from, m.term, m.prev, Reached(i))})
             /\ UNCHANGED <<logVars, writes>>
    <3>1. msgs' \subseteq (AppendEntries \cup AppendEntriesResult)' /\ MessagesOK'
      BY <1>3, <1>4, <2>1, <1>b DEF Reached
    <3>2. /\ log' \in [Server -> Log] /\ disk' \in [Server -> Log]
          /\ lastStored' \in [Server -> Nat] /\ commitIndex' \in [Server -> Nat]
          /\ applied' \in [Server -> Log] /\ chosen' \in Log
          /\ writes' \in [Server -> Seq(Write)]
          /\ \A k \in Server \ {i} : log'[k] = log[k] /\ writes'[k] = writes[k]
          /\ NonEmpty'
      BY <1>6, <2>1 DEF TypeInv, TypeOK, QueuesOK, NonEmpty, logVars
    <3> HIDE DEF i
    <3> QED BY <1>3, <1>6, <2>a, <3>1, <3>2, FollowerStepType
  <2>2. CASE /\ ApplyUpTo(i, log[i], FollowerCommit(i, m.commit, lastStored[i]))
             /\ Send(msgs \ {m}, {result(i, m.from, m.term, 0, Reached(i))})
             /\ UNCHANGED <<log, lastStored, writes>>
    <3> DEFINE c == FollowerCommit(i, m.commit, lastStored[i])
    <3>1. msgs' \subseteq (AppendEntries \cup AppendEntriesResult)' /\ MessagesOK'
      BY <1>3, <1>4, <2>2, <1>b DEF Reached
    <3>2. c \in Nat /\ c >= 1
      BY <1>3, <1>4, FollowerCommitType
    <3>3. ApplyUpTo(i, log[i], c)
      BY <2>2
    <3> HIDE DEF c
    <3>4. commitIndex' \in [Server -> Nat] /\ applied' \in [Server -> Log] /\ chosen' \in Log
      BY <1>3, <1>4, <3>2, <3>3, ApplyUpToType
    <3>5. NonEmpty'
      BY <1>6, <2>2, <3>2, <3>3 DEF ApplyUpTo, TypeInv, TypeOK, NonEmpty
    <3>6. /\ log' \in [Server -> Log] /\ disk' \in [Server -> Log]
          /\ lastStored' \in [Server -> Nat]
          /\ writes' \in [Server -> Seq(Write)]
          /\ \A k \in Server \ {i} : log'[k] = log[k] /\ writes'[k] = writes[k]
      BY <1>6, <2>2 DEF TypeInv, TypeOK, QueuesOK
    <3> HIDE DEF i
    <3> QED BY <1>3, <1>6, <2>a, <3>1, <3>4, <3>5, <3>6, FollowerStepType
  <2>3. CASE /\ Matches(i, m) /\ NewEntries(i, m) # << >>
             /\ log' = [log EXCEPT ![i] = Kept(i, m) \o NewEntries(i, m)]
             /\ lastStored' = [lastStored EXCEPT ![i] = StoredThen(i, m)]
             /\ writes' = [writes EXCEPT ![i] = @ \o Truncation(i, m) \o <<WriteOf(i, m)>>]
             /\ msgs' = msgs \ {m}
             /\ UNCHANGED <<commitIndex, applied, chosen>>
    <3>1. msgs' \subseteq (AppendEntries \cup AppendEntriesResult)' /\ MessagesOK'
      BY <2>3, MessagesKept
    <3>2. /\ log' \in [Server -> Log] /\ log'[i] # << >>
          /\ writes' \in [Server -> Seq(Write)]
      BY <1>2, <1>6, <2>3, AppendFollowerFacts
    <3>3. StoredThen(i, m) \in Nat
      <4>1. CASE InConflict(i, m)
        <5>1. FirstNew(i, m) - 1 \in Nat
          <6>1. FirstNew(i, m) \in WriteIndex
            BY <1>2, <1>6, <2>3, NewEntriesFacts, ZenonT(60)
          <6> QED BY <6>1 DEF WriteIndex
        <5> QED BY <1>4, <4>1, <5>1, MinOfTwo DEF StoredThen
      <4> QED BY <1>4, <4>1 DEF StoredThen
    <3> HIDE DEF i
    <3>4. /\ lastStored' \in [Server -> Nat] /\ disk' \in [Server -> Log]
          /\ commitIndex' \in [Server -> Nat]
          /\ applied' \in [Server -> Log] /\ chosen' \in Log
          /\ \A k \in Server \ {i} : log'[k] = log[k] /\ writes'[k] = writes[k]
      BY <1>6, <2>3, <3>3 DEF TypeInv, TypeOK, QueuesOK
    <3>5. NonEmpty'
      BY <1>6, <2>3, <3>2, <3>4 DEF TypeInv, NonEmpty
    <3> QED BY <1>3, <1>6, <2>a, <3>1, <3>2, <3>4, <3>5, FollowerStepType
  <2> QED BY <1>6, <2>1, <2>2, <2>3
<1> QED BY <1>5, <1>6, recvAppendEntriesCases

(* The functions defined by recursion along the queue of writes *)

LEMMA TruncatesDef ==
  ASSUME NEW ws \in Seq(Write)
  PROVE  LET t == Truncates(ws)
         IN  t = [n \in 0..Len(ws) |->
                    IF n = 0 THEN << >>
                    ELSE IF ws[n].op = "truncate" THEN Append(t[n - 1], ws[n])
                                                  ELSE t[n - 1]]
<1> DEFINE Rec(b, t) == t = [n \in 0..b |->
                               IF n = 0 THEN << >>
                               ELSE IF ws[n].op = "truncate" THEN Append(t[n - 1], ws[n])
                                                             ELSE t[n - 1]]
           S == {b \in Nat : \E t : Rec(b, t)}
<1>1. 0 \in S
  <2>1. Rec(0, [n \in 0..0 |-> << >>])
    OBVIOUS
  <2> QED BY <2>1
<1>2. ASSUME NEW b \in Nat, b \in S PROVE b + 1 \in S
  <2>1. PICK t : Rec(b, t)
    BY <1>2
  <2> DEFINE e == IF ws[b + 1].op = "truncate" THEN Append(t[b], ws[b + 1]) ELSE t[b]
             u == [n \in 0..b + 1 |-> IF n = b + 1 THEN e ELSE t[n]]
  <2>2. \A n \in 0..b : u[n] = t[n] /\ n # b + 1
    OBVIOUS
  <2>3. u[b + 1] = e
    OBVIOUS
  <2>4. ASSUME NEW n \in 0..b + 1
        PROVE  u[n] = IF n = 0 THEN << >>
                      ELSE IF ws[n].op = "truncate" THEN Append(u[n - 1], ws[n])
                                                    ELSE u[n - 1]
    <3>1. CASE n = 0
      BY <2>1, <2>2, <3>1
    <3>2. CASE n \in 1..b
      <4>1. n \in 0..b /\ n - 1 \in 0..b /\ n # 0
        BY <3>2
      <4>2. u[n] = t[n] /\ u[n - 1] = t[n - 1]
        BY <2>2, <4>1
      <4> HIDE DEF u
      <4> QED BY <2>1, <4>1, <4>2
    <3>3. CASE n = b + 1
      <4>1. u[n] = e /\ u[n - 1] = t[b] /\ n # 0
        BY <2>2, <2>3, <3>3
      <4> HIDE DEF u
      <4> QED BY <3>3, <4>1
    <3> QED BY <3>1, <3>2, <3>3
  <2>5. DOMAIN u = 0..b + 1 /\ u = [n \in 0..b + 1 |-> u[n]]
    OBVIOUS
  <2> HIDE DEF u
  <2>6. Rec(b + 1, u)
    BY <2>4, <2>5
  <2> HIDE DEF Rec
  <2> QED BY <2>6
<1>3. Len(ws) \in Nat
  OBVIOUS
<1>4. Len(ws) \in S
  <2> HIDE DEF S
  <2>1. \A n \in 0..Len(ws) - 1 : n \in S => n + 1 \in S
    BY <1>2
  <2>2. 0..Len(ws) \subseteq S
    BY <1>1, <1>3, <2>1, InductionUpTo
  <2> QED BY <1>3, <2>2
<1>5. Truncates(ws) = CHOOSE t : Rec(Len(ws), t)
  BY DEF Truncates
<1>6. Rec(Len(ws), Truncates(ws))
  <2>1. \E t : Rec(Len(ws), t)
    BY <1>4
  <2> HIDE DEF Rec
  <2> QED BY <1>5, <2>1
<1> QED BY <1>6

LEMMA TruncatesType ==
  ASSUME NEW ws \in Seq(Write), NEW n \in 0..Len(ws)
  PROVE  LET t == Truncates(ws)[n]
         IN  t \in Seq(Write) /\ \A k \in 1..Len(t) : t[k].op = "truncate"
<1> DEFINE t == Truncates(ws)
           T == {w \in Write : w.op = "truncate"}
           S == {b \in Nat : t[b] \in Seq(T)}
<1>0. t = [b \in 0..Len(ws) |->
             IF b = 0 THEN << >>
             ELSE IF ws[b].op = "truncate" THEN Append(t[b - 1], ws[b])
                                           ELSE t[b - 1]]
  BY TruncatesDef
<1>a. /\ t[0] = << >>
      /\ \A b \in 1..Len(ws) :
           t[b] = IF ws[b].op = "truncate" THEN Append(t[b - 1], ws[b]) ELSE t[b - 1]
  <2> HIDE DEF t
  <2>1. \A b \in 0..Len(ws) : t[b] = IF b = 0 THEN << >>
                                     ELSE IF ws[b].op = "truncate" THEN Append(t[b - 1], ws[b])
                                                                   ELSE t[b - 1]
    BY <1>0, Zenon
  <2>2. 0 \in 0..Len(ws) /\ \A b \in 1..Len(ws) : b \in 0..Len(ws) /\ b # 0
    OBVIOUS
  <2>3. t[0] = << >>
    BY <2>1, <2>2, Zenon
  <2>4. ASSUME NEW b \in 1..Len(ws)
        PROVE  t[b] = IF ws[b].op = "truncate" THEN Append(t[b - 1], ws[b]) ELSE t[b - 1]
    BY <2>1, <2>2, Zenon
  <2> QED BY <2>3, <2>4, Zenon
<1> HIDE DEF t, T
<1>1. 0 \in S
  <2>1. t[0] \in Seq(T)
    BY <1>a
  <2> QED BY <2>1
<1>2. ASSUME NEW b \in 0..Len(ws) - 1, b \in S PROVE b + 1 \in S
  <2>1. b + 1 \in 1..Len(ws) /\ b + 1 - 1 = b /\ b + 1 \in Nat
    OBVIOUS
  <2>2. t[b + 1] = IF ws[b + 1].op = "truncate" THEN Append(t[b], ws[b + 1]) ELSE t[b]
    BY <1>a, <2>1
  <2>3. ws[b + 1].op = "truncate" => ws[b + 1] \in T
    BY <2>1 DEF T
  <2>4. t[b + 1] \in Seq(T)
    <3>1. t[b] \in Seq(T)
      BY <1>2
    <3>2. CASE ws[b + 1].op = "truncate"
      BY <2>2, <2>3, <3>1, <3>2, AppendProperties
    <3> QED BY <2>2, <3>1, <3>2
  <2> QED BY <2>1, <2>4
<1>3. 0..Len(ws) \subseteq S
  <2> HIDE DEF S
  <2>1. Len(ws) \in Nat
    OBVIOUS
  <2> QED BY <1>1, <1>2, <2>1, InductionUpTo
<1>4. t[n] \in Seq(T)
  BY <1>3
<1>5. t[n] \in Seq(Write) /\ \A k \in 1..Len(t[n]) : t[n][k].op = "truncate"
  BY <1>4 DEF T
<1> QED BY <1>5 DEF t

\* The appends that fail, and the index of the first.
Failed(i) == {w \in {writes[i][k] : k \in DOMAIN writes[i]} : w.op # "truncate"}

FirstFailed(i) == Min({w.index : w \in Failed(i)})

LEMMA FailedFacts ==
  ASSUME TypeInv, NEW i \in Server, writes[i] # << >>, Head(writes[i]).op # "truncate"
  PROVE  /\ FirstFailed(i) \in WriteIndex
         /\ \E k \in DOMAIN writes[i] :
              writes[i][k].op # "truncate" /\ writes[i][k].index = FirstFailed(i)
         /\ \A k \in DOMAIN writes[i] :
              writes[i][k].op # "truncate" => writes[i][k].index >= FirstFailed(i)
<1> DEFINE S == {w.index : w \in Failed(i)}
<1>1. writes[i] \in Seq(Write) /\ 1 \in DOMAIN writes[i] /\ Head(writes[i]) = writes[i][1]
  BY LogFacts
<1>2. writes[i][1] \in Failed(i)
  BY <1>1 DEF Failed
<1>3. \A w \in Failed(i) : w.index \in WriteIndex
  BY <1>1 DEF Failed, Write, LeaderWrite, FollowerWrite, TruncateWrite
<1>4. S \in SUBSET Nat /\ S # {}
  BY <1>2, <1>3 DEF WriteIndex
<1>5. FirstFailed(i) \in S /\ \A x \in S : FirstFailed(i) <= x
  <2>1. FirstFailed(i) = Min(S)
    BY DEF FirstFailed
  <2> HIDE DEF S
  <2> QED BY <1>4, <2>1, MinIsLeast
<1>6. PICK w \in Failed(i) : w.index = FirstFailed(i)
  BY <1>5
<1>7. ASSUME NEW k \in DOMAIN writes[i], writes[i][k].op # "truncate"
      PROVE  writes[i][k].index >= FirstFailed(i)
  <2>1. writes[i][k] \in Failed(i)
    BY <1>7 DEF Failed
  <2>2. writes[i][k].index \in S
    BY <2>1
  <2>3. writes[i][k].index \in Nat /\ FirstFailed(i) \in Nat
    BY <1>4, <1>5, <2>2
  <2> HIDE DEF S
  <2> QED BY <1>5, <2>2, <2>3
<1>8. \E k \in DOMAIN writes[i] :
         writes[i][k].op # "truncate" /\ writes[i][k].index = FirstFailed(i)
  BY <1>6 DEF Failed
<1> QED BY <1>3, <1>6, <1>7, <1>8

LEMMA WriteFailsType ==
  ASSUME TypeInv, conf' = conf, NEW i \in Server, WriteFails(i)
  PROVE  TypeInv'
<1> DEFINE reject(w) == result(i, leader[i], currentTerm[i], w.prev + 1, lastStored[i])
           rejects == {reject(w) : w \in {f \in Failed(i) : f.op = "follower"}}
           l == Truncate(log[i], FirstFailed(i))
           ws == Truncates(writes[i])[Len(writes[i])]
<1>1. /\ writes[i] # << >> /\ Head(writes[i]).op # "truncate"
      /\ log' = [log EXCEPT ![i] = l]
      /\ writes' = [writes EXCEPT ![i] = ws]
      /\ Send(msgs, rejects)
      /\ IF state[i] = "leader"
           THEN convertToFollower(i, currentTerm[i], None)
           ELSE UNCHANGED <<electionVars, progress>>
      /\ UNCHANGED <<lastStored, commitIndex, applied, chosen, disk>>
  BY DEF WriteFails, Failed, FirstFailed
<1>2. writes[i] \in Seq(Write) /\ Len(writes[i]) \in 0..Len(writes[i])
  BY LogFacts
<1>3. ws \in Seq(Write) /\ \A k \in 1..Len(ws) : ws[k].op = "truncate"
  BY <1>2, TruncatesType
<1>4. l \in Log /\ l # << >>
  <2>1. FirstFailed(i) \in WriteIndex /\ log[i] \in Seq(Entry) /\ Len(log[i]) \in Nat \ {0}
    BY <1>1, FailedFacts, LogFacts DEF Log
  <2>2. FirstFailed(i) \in Nat \ {0}
    BY <2>1 DEF WriteIndex
  <2>3. /\ l \in Seq(Entry)
        /\ Len(l) = IF FirstFailed(i) - 1 <= Len(log[i]) THEN FirstFailed(i) - 1
                                                         ELSE Len(log[i])
    BY <2>1, <2>2, TruncateFacts
  <2>4. Len(l) > 0
    BY <2>1, <2>3 DEF WriteIndex
  <2> QED BY <2>3, <2>4 DEF Log
<1>5. ASSUME NEW r \in rejects
      PROVE  /\ r \in AppendEntries \cup AppendEntriesResult /\ r.from # r.to
             /\ r.type = "AppendEntries" /\ r.prev > 0 => r.prevTerm > 0
  <2>1. PICK w \in Failed(i) : w.op = "follower" /\ r = reject(w)
    OBVIOUS
  <2>2. HasFollowerWrite(i) /\ w \in Write
    BY <1>2, <2>1 DEF Failed, HasFollowerWrite
  <2>3. leader[i] \in Server /\ leader[i] # i
    BY <2>2 DEF TypeInv, TypeOK, Roles
  <2>4. w.prev + 1 \in Nat
    BY <2>1, <2>2 DEF Write, LeaderWrite, FollowerWrite, TruncateWrite
  <2>5. currentTerm[i] \in Term /\ lastStored[i] \in Nat
    BY LogFacts DEF TypeInv, TypeOK, Term
  <2> QED BY <2>1, <2>3, <2>4, <2>5, resultType
<1>6. msgs' \subseteq msgs \cup rejects /\ msgs \in SUBSET msgs
  BY <1>1, SendSubset
<1> HIDE DEF rejects
<1>7. msgs' \subseteq (AppendEntries \cup AppendEntriesResult)' /\ MessagesOK'
  BY <1>5, <1>6, MessagesType
<1> HIDE DEF l, ws
<1>8. /\ log' \in [Server -> Log] /\ disk' \in [Server -> Log]
      /\ lastStored' \in [Server -> Nat] /\ commitIndex' \in [Server -> Nat]
      /\ applied' \in [Server -> Log] /\ chosen' \in Log
      /\ writes' \in [Server -> Seq(Write)]
      /\ \A k \in Server \ {i} : log'[k] = log[k] /\ writes'[k] = writes[k]
      /\ log'[i] = l /\ writes'[i] = ws
  BY <1>1, <1>3, <1>4 DEF TypeInv, TypeOK, QueuesOK
<1>9. NonEmpty'
  BY <1>1, <1>4, <1>8 DEF TypeInv, NonEmpty
<1>10. ~HasFollowerWrite(i)'
  <2>1. ~\E k \in DOMAIN ws : ws[k].op = "follower"
    BY <1>3
  <2> QED BY <1>8, <2>1 DEF HasFollowerWrite
<1>11. CASE state[i] = "leader"
  <2>1. convertToFollower(i, currentTerm[i], None)
    BY <1>1, <1>11
  <2>2. currentTerm[i] \in Term /\ currentTerm[i] >= currentTerm[i] /\ None # i
    BY ConfFacts, ReplicationAssumption DEF TypeInv, TypeOK, QueuesOK, Term
  <2> QED BY <1>7, <1>8, <1>9, <1>10, <2>1, <2>2, FollowerStepType
<1>12. CASE state[i] # "leader"
  <2>1. UNCHANGED electionVars /\ progress' = progress
    BY <1>1, <1>12
  <2>2. progress[i] \in [Server -> ProgressType]
    BY DEF TypeInv, TypeOK, ProgressType
  <2> QED BY <1>7, <1>8, <1>9, <1>10, <1>12, <2>1, <2>2, KeepRoleType
<1> QED BY <1>11, <1>12

LEMMA OnDiskType ==
  ASSUME NEW d \in Log, NEW w \in Write
  PROVE  /\ OnDisk(d, w) \in Log
         /\ d # << >> => OnDisk(d, w) # << >>
<1>1. d \in Seq(Entry) /\ Len(d) \in Nat
  BY DEF Log
<1>2. CASE w.op = "truncate"
  <2>1. w.index \in Nat \ {0, 1} /\ w.index \in Nat \ {0}
    BY <1>2 DEF Write, WriteIndex, LeaderWrite, FollowerWrite, TruncateWrite
  <2>2. OnDisk(d, w) = Truncate(d, w.index)
    BY <1>2 DEF OnDisk
  <2>3. /\ Truncate(d, w.index) \in Seq(Entry)
        /\ Len(Truncate(d, w.index)) = IF w.index - 1 <= Len(d) THEN w.index - 1 ELSE Len(d)
    BY <1>1, <2>1, TruncateFacts
  <2>4. d # << >> => Len(Truncate(d, w.index)) > 0
    BY <1>1, <2>1, <2>3
  <2> QED BY <2>2, <2>3, <2>4 DEF Log
<1>3. CASE w.op # "truncate"
  <2>1. w.entries \in Seq(Entry) /\ Len(w.entries) \in Nat
    BY <1>3 DEF Write, LeaderWrite, FollowerWrite, TruncateWrite, Log
  <2>2. OnDisk(d, w) = d \o w.entries
    BY <1>3 DEF OnDisk
  <2>3. d \o w.entries \in Seq(Entry) /\ Len(d \o w.entries) = Len(d) + Len(w.entries)
    BY <1>1, <2>1, ConcatProperties
  <2>4. d # << >> => Len(d \o w.entries) > 0
    BY <1>1, <2>1, <2>3
  <2> QED BY <2>2, <2>3, <2>4 DEF Log
<1> QED BY <1>2, <1>3

LEMMA WriteCompletesType ==
  ASSUME TypeInv, conf' = conf, NEW i \in Server, WriteCompletes(i)
  PROVE  TypeInv'
<1> DEFINE w == Head(writes[i])
           n == updateLastStored(i, w)
           stored == lastStored[i] + n
           prog == [progress[i] EXCEPT ![i].match = stored]
           d == OnDisk(disk[i], w)
<1>1. /\ writes[i] # << >>
      /\ disk' = [disk EXCEPT ![i] = d]
      /\ TruncateCompletes(i, w) \/ appendLeaderCb(i, w) \/ appendFollowerCb(i, w)
      /\ writes' = [writes EXCEPT ![i] = Tail(@)]
  BY DEF WriteCompletes
<1>2. writes[i] \in Seq(Write) /\ w \in Write /\ w = writes[i][1]
  BY <1>1, LogFacts
<1>3. d \in Log /\ d # << >>
  BY <1>2, LogFacts, OnDiskType
<1>a. log[i] \in Log /\ lastStored[i] \in Nat
  BY LogFacts
<1> HIDE DEF d
<1>4. /\ disk' \in [Server -> Log] /\ \A k \in Server : disk'[k] # << >>
      /\ writes' \in [Server -> Seq(Write)] /\ writes'[i] = Tail(writes[i])
      /\ \A k \in Server \ {i} : writes'[k] = writes[k]
  <2>1. Tail(writes[i]) \in Seq(Write)
    BY <1>1, <1>2
  <2>2. disk' \in [Server -> Log] /\ \A k \in Server : disk'[k] # << >>
    BY <1>1, <1>3 DEF TypeInv, TypeOK, NonEmpty
  <2> QED BY <1>1, <2>1, <2>2 DEF TypeInv, QueuesOK
<1>5. HasFollowerWrite(i)' => HasFollowerWrite(i)
  <2>1. \A k \in 1..Len(Tail(writes[i])) :
           Tail(writes[i])[k] = writes[i][k + 1] /\ k + 1 \in DOMAIN writes[i]
    BY <1>1, <1>2
  <2>2. DOMAIN Tail(writes[i]) = 1..Len(Tail(writes[i]))
    BY <1>1, <1>2
  <2> QED BY <1>4, <2>1, <2>2 DEF HasFollowerWrite
<1>6. progress[i] \in [Server -> ProgressType]
  BY DEF TypeInv, TypeOK, ProgressType
<1>7. ASSUME w.op # "truncate" PROVE n \in Nat /\ stored \in Nat
  <2>1. w.entries \in Seq(Entry) /\ Len(w.entries) \in Nat /\ w.index \in Nat \ {0}
    BY <1>2, <1>7 DEF Write, WriteIndex, LeaderWrite, FollowerWrite, TruncateWrite, Log
  <2>2. n \in 0..Len(w.entries)
    BY <2>1, MatchingFacts DEF updateLastStored
  <2> QED BY <1>a, <2>1, <2>2
<1> HIDE DEF w, n
<1>8. CASE TruncateCompletes(i, w)
  <2>1. UNCHANGED <<electionVars, logVars, progress, msgs>>
    BY <1>8 DEF TruncateCompletes
  <2>2. msgs' \subseteq (AppendEntries \cup AppendEntriesResult)' /\ MessagesOK'
    BY <2>1, MessagesKept
  <2>3. /\ log' \in [Server -> Log]
        /\ lastStored' \in [Server -> Nat] /\ commitIndex' \in [Server -> Nat]
        /\ applied' \in [Server -> Log] /\ chosen' \in Log
        /\ \A k \in Server : log'[k] = log[k]
        /\ NonEmpty'
    BY <1>4, <2>1 DEF TypeInv, TypeOK, NonEmpty, logVars
  <2>4. UNCHANGED electionVars /\ progress' = progress
    BY <2>1
  <2> QED BY <1>4, <1>5, <1>6, <2>2, <2>3, <2>4, KeepRoleType
<1>9. CASE appendLeaderCb(i, w)
  <2>1. /\ w.op = "leader"
        /\ lastStored' = [lastStored EXCEPT ![i] = stored]
        /\ \/ /\ state[i] = "leader"
              /\ progress' = [progress EXCEPT ![i] = prog]
              /\ ApplyUpTo(i, log[i], LeaderCommit(i, log[i], prog, stored))
           \/ /\ state[i] # "leader"
              /\ UNCHANGED <<progress, commitIndex, applied, chosen>>
        /\ UNCHANGED <<electionVars, log, msgs>>
    BY <1>9 DEF appendLeaderCb, n
  <2>2. stored \in Nat
    BY <1>7, <2>1
  <2>3. msgs' \subseteq (AppendEntries \cup AppendEntriesResult)' /\ MessagesOK'
    BY <2>1, MessagesKept
  <2>4. prog \in [Server -> ProgressType] /\ \A j \in Server \ {i} : prog[j] = progress[i][j]
    BY <1>6, <2>2 DEF ProgressType
  <2> HIDE DEF stored, prog
  <2>5. /\ log' \in [Server -> Log] /\ lastStored' \in [Server -> Nat]
        /\ \A k \in Server : log'[k] = log[k] /\ log'[k] # << >>
    BY <2>1, <2>2 DEF TypeInv, TypeOK, NonEmpty
  <2>6. /\ commitIndex' \in [Server -> Nat] /\ applied' \in [Server -> Log] /\ chosen' \in Log
        /\ NonEmpty'
    <3>1. CASE state[i] = "leader"
      <4> DEFINE c == LeaderCommit(i, log[i], prog, stored)
      <4>1. ApplyUpTo(i, log[i], c)
        BY <2>1, <3>1
      <4>2. c \in Nat /\ c >= 1
        BY <2>2, LeaderCommitType
      <4> HIDE DEF c
      <4>3. commitIndex' \in [Server -> Nat] /\ applied' \in [Server -> Log] /\ chosen' \in Log
        BY <1>a, <4>1, <4>2, ApplyUpToType
      <4>4. NonEmpty'
        BY <1>4, <2>5, <4>1, <4>2 DEF ApplyUpTo, TypeInv, TypeOK, NonEmpty
      <4> QED BY <4>3, <4>4
    <3>2. CASE state[i] # "leader"
      BY <1>4, <2>1, <2>5, <3>2 DEF TypeInv, TypeOK, NonEmpty
    <3> QED BY <3>1, <3>2
  <2>7. progress' = progress \/ (state[i] = "leader" /\ progress' = [progress EXCEPT ![i] = prog])
    BY <2>1
  <2>8. /\ \A k \in Server \ {i} : log'[k] = log[k] /\ writes'[k] = writes[k]
        /\ log'[i] = log[i] /\ UNCHANGED electionVars
    BY <1>4, <2>1, <2>5
  <2> QED BY <1>4, <1>5, <2>3, <2>4, <2>5, <2>6, <2>7, <2>8, KeepRoleType, ZenonT(60)
<1>10. CASE appendFollowerCb(i, w)
  <2>1. /\ w.op = "follower"
        /\ lastStored' = [lastStored EXCEPT ![i] = stored]
        /\ \/ /\ n = 0
              /\ UNCHANGED <<commitIndex, applied, chosen, msgs>>
           \/ /\ n > 0
              /\ ApplyUpTo(i, log[i], FollowerCommit(i, w.commit, stored))
              /\ \/ /\ currentTerm[i] # w.term
                    /\ UNCHANGED msgs
                 \/ /\ currentTerm[i] = w.term
                    /\ Send(msgs, {result(i, leader[i], w.term, 0, stored)})
        /\ UNCHANGED <<electionVars, log, progress>>
    BY <1>10 DEF appendFollowerCb, n
  <2>2. stored \in Nat
    BY <1>7, <2>1
  <2> HIDE DEF stored
  <2>3. HasFollowerWrite(i) /\ w.commit \in Nat /\ w.term \in Term
    <3>1. HasFollowerWrite(i)
      BY <1>1, <1>2, <2>1 DEF HasFollowerWrite
    <3> QED BY <1>2, <2>1, <3>1 DEF Write, LeaderWrite, FollowerWrite, TruncateWrite
  <2>4. leader[i] \in Server /\ leader[i] # i
    BY <2>3 DEF TypeInv, TypeOK, Roles
  <2>5. msgs' \subseteq (AppendEntries \cup AppendEntriesResult)' /\ MessagesOK'
    <3> DEFINE new == {result(i, leader[i], w.term, 0, stored)}
    <3>1. \A r \in new : /\ r \in AppendEntries \cup AppendEntriesResult /\ r.from # r.to
                         /\ r.type = "AppendEntries" /\ r.prev > 0 => r.prevTerm > 0
      BY <2>2, <2>3, <2>4, resultType
    <3>2. CASE msgs' = msgs
      BY <3>2, MessagesKept
    <3>3. CASE Send(msgs, new)
      <4>1. msgs' \subseteq msgs \cup new /\ msgs \in SUBSET msgs
        BY <3>3, SendSubset
      <4> HIDE DEF new
      <4> QED BY <3>1, <4>1, MessagesType
    <3> QED BY <2>1, <3>2, <3>3
  <2>6. /\ log' \in [Server -> Log] /\ lastStored' \in [Server -> Nat]
        /\ \A k \in Server : log'[k] = log[k] /\ log'[k] # << >>
    BY <2>1, <2>2 DEF TypeInv, TypeOK, NonEmpty
  <2>7. /\ commitIndex' \in [Server -> Nat] /\ applied' \in [Server -> Log] /\ chosen' \in Log
        /\ NonEmpty'
    <3>1. CASE UNCHANGED <<commitIndex, applied, chosen>>
      BY <1>4, <2>6, <3>1 DEF TypeInv, TypeOK, NonEmpty
    <3>2. CASE ApplyUpTo(i, log[i], FollowerCommit(i, w.commit, stored))
      <4> DEFINE c == FollowerCommit(i, w.commit, stored)
      <4>1. c \in Nat /\ c >= 1 /\ ApplyUpTo(i, log[i], c)
        BY <2>2, <2>3, <3>2, FollowerCommitType
      <4> HIDE DEF c
      <4>2. commitIndex' \in [Server -> Nat] /\ applied' \in [Server -> Log] /\ chosen' \in Log
        BY <1>a, <4>1, ApplyUpToType
      <4>3. NonEmpty'
        BY <1>4, <2>6, <4>1 DEF ApplyUpTo, TypeInv, TypeOK, NonEmpty
      <4> QED BY <4>2, <4>3
    <3> QED BY <2>1, <3>1, <3>2
  <2> QED BY <1>4, <1>5, <1>6, <2>1, <2>5, <2>6, <2>7, KeepRoleType
<1> QED BY <1>1, <1>8, <1>9, <1>10

LEMMA SendFailsType ==
  ASSUME TypeInv, conf' = conf, NEW m \in msgs, SendFails(m)
  PROVE  TypeInv'
<1> DEFINE i == m.from
           j == m.to
           p == progress[i][j]
           q == [p EXCEPT !.next = p.match + 1, !.pipeline = FALSE]
<1>1. /\ m.type = "AppendEntries" /\ state[i] = "leader"
      /\ progress' = [progress EXCEPT ![i][j] = q]
      /\ msgs' = msgs \ {m}
      /\ UNCHANGED <<electionVars, logVars, diskVars>>
  BY DEF SendFails
<1>2. i \in Server /\ j \in Server /\ i # j
  BY <1>1 DEF TypeInv, QueuesOK, MessagesOK, AppendEntries, AppendEntriesResult
<1>3. p \in ProgressType /\ Bounded(log[i], p) /\ Len(log[i]) \in Nat
  <2>1. p \in ProgressType /\ Bounded(log[i], p)
    BY <1>1, <1>2 DEF TypeInv, TypeOK, ProgressType, ProgressBounded
  <2>2. Len(log[i]) \in Nat
    BY <1>2, LogFacts
  <2> QED BY <2>1, <2>2
<1> HIDE DEF p
<1>4. q \in ProgressType /\ Bounded(log[i], q)
  <2>0. q = [p EXCEPT !.next = p.match + 1, !.pipeline = FALSE]
    OBVIOUS
  <2> HIDE DEF q
  <2>1. q = [next |-> p.match + 1, match |-> p.match, pipeline |-> FALSE]
    BY <1>3, <2>0 DEF ProgressType
  <2> QED BY <1>3, <2>1 DEF ProgressType, Bounded
<1>5. msgs' \subseteq (AppendEntries \cup AppendEntriesResult)' /\ MessagesOK'
  BY <1>1, MessagesKept
<1>6. /\ commitIndex' \in [Server -> Nat] /\ applied' \in [Server -> Log] /\ chosen' \in Log
      /\ NonEmpty'
  BY <1>1 DEF TypeInv, TypeOK, logVars, diskVars, NonEmpty
<1>7. UNCHANGED <<electionVars, log, lastStored, diskVars>>
  BY <1>1 DEF logVars
<1> HIDE DEF i, j, q
<1> QED BY <1>1, <1>2, <1>4, <1>5, <1>6, <1>7, ProgressStepType

\* Nothing changes but for messages that disappear.
LEMMA LoseType ==
  ASSUME TypeInv, conf' = conf, msgs' \subseteq msgs,
         UNCHANGED <<electionVars, logVars, progress, diskVars>>
  PROVE  TypeInv'
<1> USE DEF TypeInv
<1>0. Log' = Log /\ Write' = Write /\ Conf' = Conf
  BY SetsKept
<1>1. msgs' \subseteq (AppendEntries \cup AppendEntriesResult)' /\ MessagesOK'
  BY MessagesKept
<1>2. TypeOK'
  BY <1>0 DEF TypeOK, electionVars, logVars, diskVars, NoProgress
<1>3. QueuesOK'
  BY <1>0, <1>1 DEF QueuesOK, diskVars
<1>4. Roles' /\ ProgressBounded' /\ NonEmpty'
  BY DEF Roles, ProgressBounded, NonEmpty, electionVars, logVars, diskVars,
         HasFollowerWrite, NoProgress
<1> QED BY <1>1, <1>2, <1>3, <1>4

\* The logs left by earlier leaders have only entries of terms.
LEMMA AgreesType ==
  ASSUME conf \in DOMAIN Configurations, NEW l \in Seq(Nat \ {0}), Agrees(l, Conf.past)
  PROVE  l \in Log
<1>1. DOMAIN Conf.past = Entry
  BY ConfFacts DEF Restartable, Entry
<1>2. \A k \in 1..Len(l) : l[k] \in Entry
  BY <1>1 DEF Agrees
<1> QED BY <1>2 DEF Log

\* The logs of earlier leaders are logs, and what is in flight is part of one.
LEMMA StartFacts ==
  ASSUME conf \in DOMAIN Configurations
  PROVE  /\ Conf.past \in [Entry -> Log]
         /\ Conf.log \in [Server -> Log] /\ Conf.term \in [Server -> Entry]
         /\ Conf.vote \in [Server -> Server \cup {None}]
         /\ \A i \in Server : Conf.log[i] # << >> /\ Conf.log[i][1] = 1
         /\ \A m \in Conf.msgs : /\ m \in AppendEntries /\ m.from # m.to
                                 /\ m.prev > 0 => m.prevTerm > 0
<1> DEFINE c == Conf
<1>1. c \in Configuration /\ Restartable(c) /\ c.maxTerm \in Nat
  BY ConfFacts
<1>2. /\ c.term \in [Server -> Nat] /\ c.vote \in [Server -> Server \cup {None}]
      /\ c.log \in [Server -> Seq(Nat \ {0})] /\ c.past \in Seq(Seq(Nat \ {0}))
      /\ c.msgs \in SUBSET [type : {"AppendEntries"}, from : Server, to : Server, term : Nat,
                  prev : Nat, prevTerm : Nat, entries : Seq(Nat \ {0}), commit : Nat]
  BY <1>1 DEF Configuration
<1> HIDE DEF c
<1>3. /\ DOMAIN c.past = 1..c.maxTerm
      /\ \A i \in Server : /\ c.log[i] # << >> /\ c.log[i][1] = 1
                           /\ c.term[i] \in 1..c.maxTerm /\ Agrees(c.log[i], c.past)
      /\ \A t \in DOMAIN c.past : c.past[t] # << >> => Agrees(c.past[t], c.past)
      /\ \A m \in c.msgs : Carries(m, c.past)
  BY <1>1 DEF Restartable
<1>4. c.log \in [Server -> Log]
  BY <1>2, <1>3, AgreesType DEF c
<1>5. Entry = 1..c.maxTerm
  BY DEF Entry, c
<1>a. c.past \in [Entry -> Seq(Nat \ {0})]
  <2> DEFINE S == Seq(Nat \ {0})
  <2>1. c.past \in Seq(S)
    BY <1>2
  <2> HIDE DEF S
  <2>2. c.past \in [1..Len(c.past) -> S] /\ DOMAIN c.past = 1..Len(c.past)
    BY <2>1, LenProperties
  <2>3. DOMAIN c.past = Entry
    BY <1>3, <1>5
  <2>4. c.past \in [Entry -> S]
    BY <2>2, <2>3
  <2> QED BY <2>4 DEF S
<1>6. ASSUME NEW t \in Entry PROVE c.past[t] \in Log
  <2>1. c.past[t] \in Seq(Nat \ {0})
    BY <1>a, <1>6
  <2>2. CASE c.past[t] = << >>
    BY <2>2 DEF Log
  <2>3. CASE c.past[t] # << >>
    BY <1>3, <1>5, <2>1, <2>3, AgreesType DEF c
  <2> QED BY <2>2, <2>3
<1>7. ASSUME NEW m \in c.msgs
      PROVE  m \in AppendEntries /\ m.from # m.to /\ (m.prev > 0 => m.prevTerm > 0)
  <2> DEFINE l == c.past[m.term]
  <2>1. /\ m \in [type : {"AppendEntries"}, from : Server, to : Server, term : Nat,
                  prev : Nat, prevTerm : Nat, entries : Seq(Nat \ {0}), commit : Nat]
        /\ Carries(m, c.past)
    BY <1>2, <1>3
  <2>2. m.from # m.to /\ m.term \in Entry
    BY <1>3, <1>5, <2>1 DEF Carries
  <2>3. l \in Seq(Entry) /\ Len(l) \in Nat
    BY <1>6, <2>2 DEF Log
  <2>4. /\ m.prev + Len(m.entries) <= Len(l)
        /\ m.prevTerm = IF m.prev = 0 THEN 0 ELSE l[m.prev]
        /\ m.entries = SubSeq(l, m.prev + 1, m.prev + Len(m.entries))
    BY <2>1 DEF Carries
  <2> HIDE DEF l
  <2>5. m.prev \in Nat /\ m.entries \in Seq(Nat \ {0}) /\ Len(m.entries) \in Nat
    BY <2>1
  <2>6. m.entries \in Log
    <3>1. m.prev + 1 \in Nat \ {0} /\ m.prev + Len(m.entries) \in Int
      BY <2>5
    <3>2. SubSeq(l, m.prev + 1, m.prev + Len(m.entries)) \in Seq(Entry)
      BY <2>3, <2>4, <3>1, SubSeqFacts
    <3> QED BY <2>4, <3>2 DEF Log
  <2>7. m.prev > 0 => m.prevTerm > 0
    <3>0. m.prev + Len(m.entries) <= Len(l)
      BY <2>4
    <3>1. m.prev > 0 => m.prev \in 1..Len(l)
      BY <2>3, <2>5, <3>0
    <3>2. m.prev > 0 => l[m.prev] \in Entry
      BY <2>3, <3>1
    <3>3. \A e \in Entry : e > 0
      BY <1>1, <1>5
    <3> QED BY <2>4, <2>5, <3>2, <3>3
  <2>8. m.term \in Term
    BY <1>1, <2>2 DEF Entry, Term, c
  <2> QED BY <2>1, <2>2, <2>6, <2>7, <2>8 DEF AppendEntries
<1>8. c.past \in [Entry -> Log]
  BY <1>a, <1>6
<1>9. c.term \in [Server -> Entry]
  BY <1>2, <1>3, <1>5
<1> QED BY <1>2, <1>3, <1>4, <1>7, <1>8, <1>9 DEF c

LEMMA InitType == Init => TypeInv
<1> SUFFICES ASSUME Init PROVE TypeInv
  OBVIOUS
<1> USE DEF Init
<1>0. conf \in DOMAIN Configurations
  OBVIOUS
<1>1. /\ Conf.log \in [Server -> Log] /\ Conf.term \in [Server -> Entry]
      /\ Conf.vote \in [Server -> Server \cup {None}]
      /\ \A i \in Server : Conf.log[i] # << >> /\ Conf.log[i][1] = 1
      /\ \A m \in Conf.msgs : /\ m \in AppendEntries /\ m.from # m.to
                              /\ m.prev > 0 => m.prevTerm > 0
      /\ Conf.maxTerm \in Nat
  BY <1>0, StartFacts, ConfFacts
<1>2. PICK s : s \in Server
  <2>1. Server # {}
    BY ReplicationAssumption, FS_EmptySet
  <2> QED BY <2>1
<1>3. 1 \in Entry
  BY <1>1, <1>2 DEF Entry
<1>4. \A i \in Server : Conf.log[i] \in Seq(Entry) /\ 1 <= Len(Conf.log[i])
  BY <1>1 DEF Log
<1>5. \A i \in Server : SubSeq(Conf.log[i], 1, 1) \in Log /\ Len(Conf.log[i]) \in Nat
  <2> TAKE i \in Server
  <2>1. Conf.log[i] \in Seq(Entry) /\ 1 <= Len(Conf.log[i]) /\ 1 \in Nat \ {0} /\ 1 \in Int
    BY <1>4
  <2> QED BY <2>1, SubSeqFacts DEF Log
<1>6. TypeOK
  <2>1. NoProgress \in [Server -> ProgressType]
    BY DEF NoProgress, ProgressType
  <2>2. chosen \in Log
    BY <1>3 DEF Log
  <2>3. currentTerm \in [Server -> 0..Conf.maxTerm]
    BY <1>1 DEF Entry
  <2>4. applied \in [Server -> Log] /\ lastStored \in [Server -> Nat]
    BY <1>5
  <2> QED BY <1>1, <2>1, <2>2, <2>3, <2>4 DEF TypeOK, Role, ProgressType
<1>7. QueuesOK
  BY <1>1 DEF QueuesOK
<1>8. Roles
  BY <1>1, ReplicationAssumption DEF Roles, HasFollowerWrite, Entry
<1>9. ProgressBounded
  BY DEF ProgressBounded
<1>10. MessagesOK
  BY <1>1 DEF MessagesOK
<1>11. NonEmpty
  BY <1>1 DEF NonEmpty
<1> QED BY <1>6, <1>7, <1>8, <1>9, <1>10, <1>11 DEF TypeInv

\* The actions of Next, one by one.
LEMMA NextType == TypeInv /\ [Next]_vars => TypeInv'
<1> SUFFICES ASSUME TypeInv, [Next]_vars PROVE TypeInv'
  OBVIOUS
<1>1. CASE UNCHANGED vars
  <2>1. conf' = conf /\ msgs' \subseteq msgs
        /\ UNCHANGED <<electionVars, logVars, progress, diskVars>>
    BY <1>1 DEF vars, electionVars, logVars, diskVars
  <2> QED BY <2>1, LoseType
<1>2. CASE Next
  <2>0. conf' = conf
    BY <1>2 DEF Next
  <2>1. ASSUME NEW i \in Up, NEW j \in Up, recvRequestVote(j, i) PROVE TypeInv'
    BY <2>0, <2>1, recvRequestVoteType DEF Up
  <2>2. ASSUME NEW i \in Up, NEW j \in Server, replicationHeartbeat(i, j) PROVE TypeInv'
    BY <2>0, <2>2, replicationHeartbeatType DEF Up
  <2>3. ASSUME NEW i \in Up,
               \/ tick(i) \/ electionStart(i) \/ convertToLeader(i)
               \/ raft_apply(i) \/ checkContactQuorum(i)
               \/ WriteCompletes(i) \/ WriteFails(i) \/ raft_start(i)
        PROVE  TypeInv'
    <3>1. i \in Server
      BY DEF Up
    <3> QED BY <2>0, <2>3, <3>1, tickType, electionStartType, convertToLeaderType,
               raft_applyType, checkContactQuorumType, WriteCompletesType, WriteFailsType,
               raft_startType
  <2>4. ASSUME NEW m \in msgs,
               recvAppendEntries(m) \/ recvAppendEntriesResult(m) \/ SendFails(m) \/ Lose(m)
        PROVE  TypeInv'
    <3>1. CASE Lose(m)
      <4>1. msgs' \subseteq msgs /\ UNCHANGED <<electionVars, logVars, progress, diskVars>>
        BY <3>1 DEF Lose
      <4> QED BY <2>0, <4>1, LoseType
    <3> QED BY <2>0, <2>4, <3>1, recvAppendEntriesType, recvAppendEntriesResultType,
               SendFailsType
  <2> QED BY <1>2, <2>1, <2>2, <2>3, <2>4 DEF Next
<1> QED BY <1>1, <1>2

\* The variables have their types, and what belongs to one role is empty in the
\* others (convertSetState), in every behaviour.
THEOREM TypeCorrect == Spec => []TypeOK
<1>1. TypeInv => TypeOK
  BY DEF TypeInv
<1> QED BY InitType, NextType, <1>1, PTL DEF Spec

LEMMA TypeInvariant == Spec => []TypeInv
  BY InitType, NextType, PTL DEF Spec

\* The assertion of appendFollowerCb holds: neither a timeout, a vote, a crash
\* nor a failed write makes a server with a follower's write in flight anything
\* but a follower.
THEOREM FollowerWritesSafe == Spec => []FollowerWritesAreFollowers
<1>1. TypeInv => FollowerWritesAreFollowers
  BY DEF TypeInv, Roles, HasFollowerWrite, FollowerWritesAreFollowers
<1> QED BY TypeInvariant, <1>1, PTL

==============================================================================
