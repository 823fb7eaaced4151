--------------------------- MODULE RaftReplication ---------------------------
(***************************************************************************)
(* Log replication of dqlite's raft: the in-memory log and the log on disk, *)
(* asynchronous writes that complete in order or fail, AppendEntries with   *)
(* the probe and pipeline modes of progress.c, truncation of conflicting    *)
(* entries, the commit rules of leader and follower, and crashes.           *)
(*                                                                          *)
(* An entry is its term: a leader adds at most one entry per index, so the  *)
(* position and the term identify it.  Elections are reduced to their votes *)
(* (RaftElection has the messages, the pre-vote and the transfers): a vote  *)
(* is granted by looking at the candidate, whose term and stored log do not *)
(* change while it is candidate.  Snapshots and configuration changes are   *)
(* not part of this module.  The network delays, reorders and loses.        *)
(***************************************************************************)
EXTENDS Integers, FiniteSets, Sequences, FiniteSetsExt, SequencesExt

CONSTANTS
  Server,          \* the servers, all of them voters
  None,
  Configurations,  \* the situations to explore, by name; Init chooses one
  MaxInFlight      \* bound of the exploration: messages in flight

\* A situation: who does what, how the servers start, and bounds.
Configuration ==
  [elector : SUBSET Server,    \* the servers whose election timer may expire
   crasher : SUBSET Server,    \* the servers that may crash
   failing : SUBSET Server,    \* the servers whose disk writes may fail
   client : SUBSET Server,     \* the leaders to which the application submits entries
   down : SUBSET Server,       \* the servers that are stopped all the time
   lossy : BOOLEAN,            \* whether messages may be lost
   term : [Server -> Nat],     \* the term each server finds on disk when it starts
   vote : [Server -> Server \cup {None}],   \* the vote it gave in that term
   log : [Server -> Seq(Nat \ {0})],        \* the entries it finds there
   past : Seq(Seq(Nat \ {0})),  \* the log of the leader of each term before
   msgs : SUBSET [type : {"AppendEntries"}, from : Server, to : Server, term : Nat,
                  prev : Nat, prevTerm : Nat, entries : Seq(Nat \ {0}), commit : Nat],
   maxTerm : Nat, maxLog : Nat]

Quorum(S) == Cardinality(S) > Cardinality(Server) \div 2

\* Whether each entry of l, with all those before it, is as the leader of its
\* term had it; h has the log of the leader of each term.
Agrees(l, h) ==
  \A k \in DOMAIN l :
    l[k] \in DOMAIN h /\ k <= Len(h[l[k]]) /\ SubSeq(h[l[k]], 1, k) = SubSeq(l, 1, k)

\* Whether the message is one that the leader of its term sent: a part of its log,
\* up to the end it had then, where there was an entry of its term.
Carries(m, h) ==
  LET l == h[m.term]
      end == m.prev + Len(m.entries)
  IN  /\ m.from # m.to /\ m.term \in DOMAIN h
      /\ end \in 1..Len(l) /\ l[end] = m.term
      /\ m.prevTerm = IF m.prev = 0 THEN 0 ELSE l[m.prev]
      /\ m.entries = SubSeq(l, m.prev + 1, end)

\* What the servers find when they start, and the messages still in flight, were
\* left by leaders of earlier terms.  The first entry is that of raft_bootstrap,
\* and the only one those leaders committed; a term was won by a server with the
\* votes of a majority, unless all servers were given it.
Restartable(c) ==
  /\ DOMAIN c.past = 1..c.maxTerm
  /\ \A i \in Server : /\ c.log[i] # << >> /\ c.log[i][1] = 1
                       /\ c.term[i] \in 1..c.maxTerm /\ Agrees(c.log[i], c.past)
                       /\ \A k \in DOMAIN c.log[i] : c.log[i][k] <= c.term[i]
  /\ \A t \in DOMAIN c.past :
       c.past[t] # << >> =>
         /\ c.past[t][1] = 1 /\ Agrees(c.past[t], c.past)
         /\ \A k \in DOMAIN c.past[t] : c.past[t][k] <= t
         /\ \/ \A i \in Server : c.term[i] >= t
            \/ \E winner \in Server :
                 LET voted(i) == c.term[i] > t \/ (c.term[i] = t /\ c.vote[i] = winner)
                 IN  voted(winner) /\ Quorum({i \in Server : voted(i)})
  /\ \A m \in c.msgs : Carries(m, c.past) /\ m.commit <= 1

ASSUME ReplicationAssumption ==
  /\ IsFiniteSet(Server) /\ Cardinality(Server) > 1 /\ None \notin Server
  /\ \A n \in DOMAIN Configurations :
       Configurations[n] \in Configuration /\ Restartable(Configurations[n])
  /\ MaxInFlight \in Nat

VARIABLES
  state,        \* r->state
  currentTerm,  \* r->current_term
  votedFor,     \* r->voted_for
  votes,        \* r->candidate_state.votes, those granted
  leader,       \* r->follower_state.current_leader.id
  log,          \* r->log, in memory
  lastStored,   \* r->last_stored
  commitIndex,  \* r->commit_index
  applied,      \* the entries up to r->last_applied
  progress,     \* r->leader_state.progress
  disk,         \* the entries in the segments on disk
  writes,       \* the operations the disk has still to do, in order
  msgs,         \* messages in flight
  chosen,       \* history: the longest sequence of entries ever applied
  conf          \* the name of the configuration, which never changes

Conf == Configurations[conf]

electionVars == <<state, currentTerm, votedFor, votes, leader>>
logVars == <<log, lastStored, commitIndex, applied, chosen>>
diskVars == <<disk, writes>>
vars == <<state, currentTerm, votedFor, votes, leader, log, lastStored,
          commitIndex, applied, progress, disk, writes, msgs, chosen, conf>>

-----------------------------------------------------------------------------
(* Logs *)

\* logTermOf: 0 when there is no such entry.
TermAt(l, k) == IF k \in 1..Len(l) THEN l[k] ELSE 0

\* How many of the entries that start at index first are, from the beginning,
\* also in l: the loops of deleteConflictingEntries and updateLastStored.
Matching(l, first, entries) ==
  Max({n \in 0..Len(entries) :
         \A k \in 1..n : TermAt(l, first + k - 1) = entries[k]})

\* logTruncate: drop the entries from index on.
Truncate(l, index) == SubSeq(l, 1, Min({index - 1, Len(l)}))

\* replicationApply, when the log is l and the commit index c.
Applied(i, l, c) ==
  applied[i] \o SubSeq(l, Len(applied[i]) + 1, Min({c, Len(l)}))

ApplyUpTo(i, l, c) ==
  LET new == Applied(i, l, c)
  IN  /\ commitIndex' = [commitIndex EXCEPT ![i] = c]
      /\ applied' = [applied EXCEPT ![i] = new]
      /\ chosen' = IF Len(new) > Len(chosen) THEN new ELSE chosen

\* replicationAppend and appendFollowerCb: the follower's commit rule.
FollowerCommit(i, leaderCommit, stored) ==
  IF leaderCommit > commitIndex[i] /\ stored >= commitIndex[i]
    THEN Min({leaderCommit, stored})
    ELSE commitIndex[i]

\* Mutant of LeaderCommit: half of the servers are taken for a majority.
LeaderCommitHalf(i, l, prog, index) ==
  IF /\ index > commitIndex[i]
     /\ TermAt(l, index) = currentTerm[i]
     /\ Cardinality({j \in Server : prog[j].match >= index}) >=
          Cardinality(Server) \div 2
    THEN index
    ELSE commitIndex[i]

\* replicationQuorum: only entries of the leader's own term are committed by
\* counting the servers that stored them.
LeaderCommit(i, l, prog, index) ==
  IF /\ index > commitIndex[i]
     /\ TermAt(l, index) = currentTerm[i]
     /\ Cardinality({j \in Server : prog[j].match >= index}) >
          Cardinality(Server) \div 2
    THEN index
    ELSE commitIndex[i]

-----------------------------------------------------------------------------
(* Sending *)

\* A message to a server that is down is lost at once.
Send(rest, new) ==
  LET reaching == {m \in new : m.to \notin Conf.down}
  IN  /\ Cardinality(rest \cup reaching) <= MaxInFlight
      /\ msgs' = rest \cup reaching

\* sendAppendEntries: everything from next_index to the end of the log.
sendAppendEntries(i, j, l, commit, p) ==
  [type |-> "AppendEntries", from |-> i, to |-> j, term |-> currentTerm[i],
   prev |-> p.next - 1, prevTerm |-> TermAt(l, p.next - 1),
   entries |-> SubSeq(l, p.next, Len(l)), commit |-> commit]

result(i, j, term, rejected, last) ==
  [type |-> "AppendEntriesResult", from |-> i, to |-> j, term |-> term,
   rejected |-> rejected, last |-> last]

\* progressShouldReplicate: a pipelined server is sent new entries at once, any
\* other only when its heartbeat is due.
ShouldReplicate(l, p, due) == due \/ (p.pipeline /\ p.next <= Len(l))

\* progressOptimisticNextIndex.
Sent(l, p) == IF p.pipeline THEN [p EXCEPT !.next = Len(l) + 1] ELSE p

\* triggerAll with the heartbeats of the servers in due.
Receivers(i, l, prog, due) ==
  {j \in Server \ {i} : ShouldReplicate(l, prog[j], j \in due)}

triggerAll(i, l, commit, prog, due) ==
  {sendAppendEntries(i, j, l, commit, prog[j]) : j \in Receivers(i, l, prog, due)}

Triggered(i, l, prog, due) ==
  [j \in Server |-> IF j \in Receivers(i, l, prog, due) THEN Sent(l, prog[j])
                                                        ELSE prog[j]]

-----------------------------------------------------------------------------
(* Elections *)

\* progressBuildArray, on a log whose last entry is last.
NoProgress == [j \in Server |-> [next |-> 1, match |-> 0, pipeline |-> FALSE]]

progressBuildArray(i, last) ==
  [j \in Server |-> [next |-> last + 1, pipeline |-> FALSE,
                     match |-> IF j = i THEN lastStored[i] ELSE 0]]

\* Mutant of MayTimeOut: without the check of append_in_flight_count.
MayTimeOutAnytime(i) == state[i] \in {"follower", "candidate"}

\* tickFollower, tickCandidate and convertToCandidate: the election timer expires.
\* A follower with entries of its leader still to be written stays what it is.
MayTimeOut(i) ==
  /\ state[i] \in {"follower", "candidate"}
  /\ \A k \in DOMAIN writes[i] : writes[i][k].op # "follower"

\* The server asks for pre-votes, and does not get them (yet): all that changes
\* is that it has no leader any more.
tick(i) ==
  /\ MayTimeOut(i) /\ leader[i] # None
  /\ state' = [state EXCEPT ![i] = "candidate"]
  /\ leader' = [leader EXCEPT ![i] = None]
  /\ UNCHANGED <<currentTerm, votedFor, votes, logVars, progress, diskVars, msgs>>

\* It gets them, and electionStart asks for votes in a new term.
electionStart(i) ==
  /\ i \in Conf.elector /\ MayTimeOut(i)
  /\ currentTerm[i] < Conf.maxTerm
  /\ state' = [state EXCEPT ![i] = "candidate"]
  /\ currentTerm' = [currentTerm EXCEPT ![i] = @ + 1]
  /\ votedFor' = [votedFor EXCEPT ![i] = i]
  /\ votes' = [votes EXCEPT ![i] = {i}]
  /\ leader' = [leader EXCEPT ![i] = None]
  /\ UNCHANGED <<logVars, progress, diskVars, msgs>>

\* recvRequestVote: has_leader.
HasLeader(i) ==
  state[i] = "leader" \/ (state[i] = "follower" /\ leader[i] # None)

\* electionVote: the candidate advertises what it has stored, the voter compares
\* it with all it has in memory.
AtLeastAsUpToDate(i, j) ==
  LET theirs == TermAt(log[i], lastStored[i])
      ours == TermAt(log[j], Len(log[j]))
  IN  theirs > ours \/ (theirs = ours /\ lastStored[i] >= Len(log[j]))

\* recvRequestVote on j, of candidate i, and the tally of its answer.  j takes
\* the new term even if it then refuses its vote.
recvRequestVote(j, i) ==
  LET bump == currentTerm[i] > currentTerm[j]
      granted == /\ bump \/ votedFor[j] \in {None, i}
                 /\ AtLeastAsUpToDate(i, j)
  IN
  /\ i # j /\ state[i] = "candidate" /\ votes[i] # {}
  /\ ~HasLeader(j)
  /\ currentTerm[i] >= currentTerm[j] /\ (bump \/ granted)
  /\ currentTerm' = [currentTerm EXCEPT ![j] = currentTerm[i]]
  /\ votedFor' = [votedFor EXCEPT ![j] = IF granted THEN i ELSE None]
  /\ state' = [state EXCEPT ![j] = IF bump THEN "follower" ELSE @]
  /\ votes' = [votes EXCEPT ![i] = IF granted THEN @ \cup {j} ELSE @,
                            ![j] = IF bump THEN {} ELSE @]
  /\ UNCHANGED <<leader, logVars, progress, diskVars, msgs>>

\* An entry of the leader's term goes to the end of its log, to its disk
\* (appendLeader) and to the servers in due (triggerAll).
Append1(i, prog, due) ==
  LET l == Append(log[i], currentTerm[i])
      w == [op |-> "leader", index |-> Len(l), entries |-> <<currentTerm[i]>>]
  IN  /\ Len(log[i]) < Conf.maxLog
      /\ log' = [log EXCEPT ![i] = l]
      /\ writes' = [writes EXCEPT ![i] = Append(@, w)]
      /\ Send(msgs, triggerAll(i, l, commitIndex[i], prog, due))
      /\ progress' = [progress EXCEPT ![i] = Triggered(i, l, prog, due)]
      /\ UNCHANGED <<lastStored, commitIndex, applied, chosen, disk>>

\* convertToLeader: the term opens with a barrier entry, sent to everybody.
convertToLeader(i) ==
  /\ state[i] = "candidate" /\ Quorum(votes[i])
  /\ Append1(i, progressBuildArray(i, Len(log[i])), Server)
  /\ state' = [state EXCEPT ![i] = "leader"]
  /\ votes' = [votes EXCEPT ![i] = {}]
  /\ UNCHANGED <<currentTerm, votedFor, leader>>

-----------------------------------------------------------------------------
(* The leader *)

raft_apply(i) ==
  /\ state[i] = "leader" /\ i \in Conf.client
  /\ \E due \in SUBSET (Server \ {i}) : Append1(i, progress[i], due)
  /\ UNCHANGED electionVars

\* tickLeader: the heartbeat of server j is due.
replicationHeartbeat(i, j) ==
  /\ state[i] = "leader" /\ i # j
  /\ Send(msgs, {sendAppendEntries(i, j, log[i], commitIndex[i], progress[i][j])})
  /\ progress' = [progress EXCEPT ![i][j] = Sent(log[i], @)]
  /\ UNCHANGED <<electionVars, logVars, diskVars>>

\* Mutant of convertToFollower: without convertClearLeader.
convertToFollowerKeepsProgress(i, term, newLeader) ==
  /\ state' = [state EXCEPT ![i] = "follower"]
  /\ currentTerm' = [currentTerm EXCEPT ![i] = term]
  /\ votedFor' = [votedFor EXCEPT ![i] = IF term > currentTerm[i] THEN None ELSE @]
  /\ votes' = [votes EXCEPT ![i] = {}]
  /\ leader' = [leader EXCEPT ![i] = newLeader]
  /\ UNCHANGED progress

\* recvBumpCurrentTerm, convertToFollower and recvUpdateLeader.
convertToFollower(i, term, newLeader) ==
  /\ state' = [state EXCEPT ![i] = "follower"]
  /\ currentTerm' = [currentTerm EXCEPT ![i] = term]
  /\ votedFor' = [votedFor EXCEPT ![i] = IF term > currentTerm[i] THEN None ELSE @]
  /\ votes' = [votes EXCEPT ![i] = {}]
  /\ leader' = [leader EXCEPT ![i] = newLeader]
  /\ progress' = [progress EXCEPT ![i] = NoProgress]

checkContactQuorum(i) ==
  /\ state[i] = "leader"
  /\ convertToFollower(i, currentTerm[i], None)
  /\ UNCHANGED <<logVars, diskVars, msgs>>

\* progressMaybeDecrement: whether the rejection is stale, and the new state.
Stale(p, rejected) ==
  IF p.pipeline THEN rejected <= p.match ELSE rejected # p.next - 1

progressMaybeDecrement(p, rejected, last) ==
  IF p.pipeline
    THEN [p EXCEPT !.next = p.match + 1, !.pipeline = FALSE]
    ELSE [p EXCEPT !.next = Max({1, Min({rejected, last + 1})})]

\* progressMaybeUpdate, and progressToPipeline if match_index moved.
progressMaybeUpdate(p, last) ==
  [next |-> Max({p.next, last + 1}), match |-> Max({p.match, last}),
   pipeline |-> p.pipeline \/ p.match < last]

\* recvAppendEntriesResult and replicationUpdate.
recvAppendEntriesResult(m) ==
  LET i == m.to
      j == m.from
      p == progress[i][j]
      last == Min({m.last, Len(log[i])})
      current == state[i] = "leader" /\ m.term = currentTerm[i]
      \* The new progress q of j, and what is sent to j with commit index c.
      Replicate(q, c, due) ==
        LET send == ShouldReplicate(log[i], q, due)
        IN  /\ progress' = [progress EXCEPT ![i][j] =
                              IF send THEN Sent(log[i], q) ELSE q]
            /\ Send(msgs \ {m}, IF send THEN {sendAppendEntries(i, j, log[i], c, q)}
                                        ELSE {})
  IN /\ m.type = "AppendEntriesResult"
     /\ UNCHANGED diskVars
     /\ \/ /\ state[i] = "leader" /\ m.term > currentTerm[i]
           /\ convertToFollower(i, m.term, None)
           /\ msgs' = msgs \ {m}
           /\ UNCHANGED logVars
        \/ /\ current /\ m.rejected > 0 /\ ~Stale(p, m.rejected)
           /\ \E due \in BOOLEAN :
                Replicate(progressMaybeDecrement(p, m.rejected, m.last),
                          commitIndex[i], due)
           /\ UNCHANGED <<electionVars, logVars>>
        \/ /\ current /\ m.rejected = 0 /\ p.match < last
           /\ LET q == progressMaybeUpdate(p, last)
                  c == LeaderCommit(i, log[i], [progress[i] EXCEPT ![j] = q], last)
              IN  /\ ApplyUpTo(i, log[i], c)
                  /\ \E due \in BOOLEAN : Replicate(q, c, due)
           /\ UNCHANGED <<electionVars, log, lastStored>>
        \/ /\ current /\ m.rejected = 0 /\ p.match >= last
           /\ progress' = [progress EXCEPT ![i][j] = progressMaybeUpdate(@, last)]
           /\ msgs' = msgs \ {m}
           /\ UNCHANGED <<electionVars, logVars>>
        \/ /\ \/ state[i] # "leader" \/ m.term < currentTerm[i]
              \/ current /\ m.rejected > 0 /\ Stale(p, m.rejected)
           /\ msgs' = msgs \ {m}
           /\ UNCHANGED <<electionVars, logVars, progress>>

-----------------------------------------------------------------------------
(* The follower *)

\* Mutant of Matches: the terms are not compared.
MatchesAnyTerm(i, m) == m.prev <= Len(log[i])

\* checkLogMatchingProperty.
Matches(i, m) == TermAt(log[i], m.prev) = m.prevTerm

\* deleteConflictingEntries: the index of the first entry that is not in the log.
FirstNew(i, m) == m.prev + Matching(log[i], m.prev + 1, m.entries) + 1

\* The message contradicts an entry that is committed here: both functions then
\* make the server shut down.
Conflicts(i, m) ==
  LET Committed(k) == k \in 1..Min({commitIndex[i], Len(log[i])})
  IN  IF Matches(i, m)
        THEN FirstNew(i, m) <= m.prev + Len(m.entries) /\ Committed(FirstNew(i, m))
        ELSE Committed(m.prev)

\* Mutant of Reached: the last entry in memory, not on disk.
ReachedInMemory(i) == Len(log[i])

\* What recvAppendEntries echoes back: the point that the server reached.
Reached(i) == lastStored[i]

\* recvAppendEntries and replicationAppend.
recvAppendEntries(m) ==
  LET i == m.to
      index == FirstNew(i, m)
      new == SubSeq(m.entries, index - m.prev, Len(m.entries))
      conflict == new # <<>> /\ TermAt(log[i], index) # 0
      kept == IF conflict THEN Truncate(log[i], index) ELSE log[i]
      stored == IF conflict THEN Min({lastStored[i], index - 1}) ELSE lastStored[i]
      truncate == IF conflict THEN <<[op |-> "truncate", index |-> index]>> ELSE <<>>
      write == [op |-> "follower", index |-> index, entries |-> new,
                term |-> m.term, prev |-> m.prev, commit |-> m.commit]
  IN /\ m.type = "AppendEntries"
     /\ \/ /\ m.term < currentTerm[i]
           /\ Send(msgs \ {m}, {result(i, m.from, currentTerm[i], m.prev, Len(log[i]))})
           /\ UNCHANGED <<electionVars, logVars, progress, diskVars>>
        \/ /\ m.term >= currentTerm[i]
           /\ m.term = currentTerm[i] => state[i] # "leader"  \* assert
           /\ ~Conflicts(i, m)
           /\ convertToFollower(i, m.term, m.from)
           /\ UNCHANGED disk
           /\ \/ /\ ~Matches(i, m)
                 /\ Send(msgs \ {m}, {result(i, m.from, m.term, m.prev, Reached(i))})
                 /\ UNCHANGED <<logVars, writes>>
              \/ /\ Matches(i, m) /\ new = <<>>
                 /\ ApplyUpTo(i, log[i], FollowerCommit(i, m.commit, lastStored[i]))
                 /\ Send(msgs \ {m}, {result(i, m.from, m.term, 0, Reached(i))})
                 /\ UNCHANGED <<log, lastStored, writes>>
              \/ /\ Matches(i, m) /\ new # <<>>
                 /\ log' = [log EXCEPT ![i] = kept \o new]
                 /\ lastStored' = [lastStored EXCEPT ![i] = stored]
                 /\ writes' = [writes EXCEPT ![i] = @ \o truncate \o <<write>>]
                 /\ msgs' = msgs \ {m}
                 /\ UNCHANGED <<commitIndex, applied, chosen>>

-----------------------------------------------------------------------------
(* The disk: operations complete in the order they were submitted in *)

\* What an operation makes of the segments d: a write goes after what is there.
OnDisk(d, w) ==
  IF w.op = "truncate" THEN Truncate(d, w.index) ELSE d \o w.entries

\* Mutant of updateLastStored: without the check that the entries are still there.
updateLastStoredAll(i, w) == Len(w.entries)

\* updateLastStored: how many of the entries written are still in the log.
updateLastStored(i, w) == Matching(log[i], w.index, w.entries)

TruncateCompletes(i, w) ==
  /\ w.op = "truncate"
  /\ UNCHANGED <<electionVars, logVars, progress, msgs>>

\* appendLeaderCb: the entries may have been submitted in an earlier term, and
\* are ignored but for last_stored if the server is no longer leader.
appendLeaderCb(i, w) ==
  LET stored == lastStored[i] + updateLastStored(i, w)
      prog == [progress[i] EXCEPT ![i].match = stored]
  IN  /\ w.op = "leader"
      /\ lastStored' = [lastStored EXCEPT ![i] = stored]
      /\ \/ /\ state[i] = "leader"
            /\ progress' = [progress EXCEPT ![i] = prog]
            /\ ApplyUpTo(i, log[i], LeaderCommit(i, log[i], prog, stored))
         \/ /\ state[i] # "leader"
            /\ UNCHANGED <<progress, commitIndex, applied, chosen>>
      /\ UNCHANGED <<electionVars, log, msgs>>

\* appendFollowerCb: nothing to report if the entries were truncated since, and
\* no answer if the term changed.
appendFollowerCb(i, w) ==
  LET n == updateLastStored(i, w)
      stored == lastStored[i] + n
  IN  /\ w.op = "follower"
      /\ lastStored' = [lastStored EXCEPT ![i] = stored]
      /\ \/ /\ n = 0
            /\ UNCHANGED <<commitIndex, applied, chosen, msgs>>
         \/ /\ n > 0
            /\ ApplyUpTo(i, log[i], FollowerCommit(i, w.commit, stored))
            /\ \/ /\ currentTerm[i] # w.term
                  /\ UNCHANGED msgs
               \/ /\ currentTerm[i] = w.term
                  /\ Send(msgs, {result(i, leader[i], w.term, 0, stored)})
      /\ UNCHANGED <<electionVars, log, progress>>

WriteCompletes(i) ==
  /\ writes[i] # <<>>
  /\ LET w == Head(writes[i])
     IN  /\ disk' = [disk EXCEPT ![i] = OnDisk(@, w)]
         /\ TruncateCompletes(i, w) \/ appendLeaderCb(i, w) \/ appendFollowerCb(i, w)
  /\ writes' = [writes EXCEPT ![i] = Tail(@)]

\* The truncations among the first n of the operations ws, for each n.
Truncates(ws) ==
  LET t[n \in 0..Len(ws)] ==
        IF n = 0 THEN << >>
        ELSE IF ws[n].op = "truncate" THEN Append(t[n - 1], ws[n]) ELSE t[n - 1]
  IN  t

\* Mutant of WriteFails: the entries stay in memory, and nobody is told.
WriteFailsKeepsLog(i) ==
  /\ i \in Conf.failing /\ writes[i] # <<>> /\ Head(writes[i]).op # "truncate"
  /\ writes' = [writes EXCEPT ![i] = Truncates(@)[Len(@)]]
  /\ IF state[i] = "leader"
       THEN convertToFollower(i, currentTerm[i], None)
       ELSE UNCHANGED <<electionVars, progress>>
  /\ UNCHANGED <<logVars, disk, msgs>>

\* uvAliveSegmentWriteCb with an error: the appends that are queued all fail,
\* and their callbacks take the entries back out of the log in memory.  A leader
\* steps down, a follower reports each failure to the leader it knows.
WriteFails(i) ==
  LET failed == {w \in {writes[i][k] : k \in DOMAIN writes[i]} : w.op # "truncate"}
      reject(w) == result(i, leader[i], currentTerm[i], w.prev + 1, lastStored[i])
  IN  /\ i \in Conf.failing /\ writes[i] # <<>> /\ Head(writes[i]).op # "truncate"
      /\ log' = [log EXCEPT ![i] = Truncate(@, Min({w.index : w \in failed}))]
      /\ writes' = [writes EXCEPT ![i] = Truncates(@)[Len(@)]]
      /\ Send(msgs, {reject(w) : w \in {f \in failed : f.op = "follower"}})
      /\ IF state[i] = "leader"
           THEN convertToFollower(i, currentTerm[i], None)
           ELSE UNCHANGED <<electionVars, progress>>
      /\ UNCHANGED <<lastStored, commitIndex, applied, chosen, disk>>

-----------------------------------------------------------------------------
(* The network, crashes and the specification *)

\* sendAppendEntriesCb with an error: progressToProbe, if the sender is leader,
\* whatever has happened since it sent the message.
SendFails(m) ==
  /\ Conf.lossy /\ m.type = "AppendEntries" /\ state[m.from] = "leader"
  /\ progress' = [progress EXCEPT ![m.from][m.to] =
                    [@ EXCEPT !.next = progress[m.from][m.to].match + 1,
                              !.pipeline = FALSE]]
  /\ msgs' = msgs \ {m}
  /\ UNCHANGED <<electionVars, logVars, diskVars>>

Lose(m) ==
  /\ Conf.lossy
  /\ msgs' = msgs \ {m}
  /\ UNCHANGED <<electionVars, logVars, progress, diskVars>>

\* A crash and raft_start: writes that were not completed are lost, and without a
\* snapshot only the first entry is known to be committed.  While it is down the
\* server only takes no steps.
raft_start(i) ==
  /\ i \in Conf.crasher
  /\ state' = [state EXCEPT ![i] = "follower"]
  /\ votes' = [votes EXCEPT ![i] = {}]
  /\ leader' = [leader EXCEPT ![i] = None]
  /\ progress' = [progress EXCEPT ![i] = NoProgress]
  /\ log' = [log EXCEPT ![i] = disk[i]]
  /\ lastStored' = [lastStored EXCEPT ![i] = Len(disk[i])]
  /\ commitIndex' = [commitIndex EXCEPT ![i] = 1]
  /\ applied' = [applied EXCEPT ![i] = SubSeq(disk[i], 1, 1)]
  /\ writes' = [writes EXCEPT ![i] = <<>>]
  /\ UNCHANGED <<currentTerm, votedFor, disk, msgs, chosen>>

Init ==
  /\ conf \in DOMAIN Configurations
  /\ state = [i \in Server |-> "follower"]
  /\ currentTerm = Conf.term
  /\ votedFor = Conf.vote
  /\ votes = [i \in Server |-> {}]
  /\ leader = [i \in Server |-> None]
  /\ log = Conf.log
  /\ lastStored = [i \in Server |-> Len(Conf.log[i])]
  /\ commitIndex = [i \in Server |-> 1]
  /\ applied = [i \in Server |-> SubSeq(Conf.log[i], 1, 1)]
  /\ progress = [i \in Server |-> NoProgress]
  /\ disk = Conf.log
  /\ writes = [i \in Server |-> <<>>]
  /\ msgs = Conf.msgs
  /\ chosen = <<1>>

Up == Server \ Conf.down

Next ==
  /\ UNCHANGED conf
  /\ \/ \E i, j \in Up : recvRequestVote(j, i)
     \/ \E i \in Up, j \in Server : replicationHeartbeat(i, j)
     \/ \E i \in Up :
          \/ tick(i) \/ electionStart(i) \/ convertToLeader(i)
          \/ raft_apply(i) \/ checkContactQuorum(i)
          \/ WriteCompletes(i) \/ WriteFails(i) \/ raft_start(i)
     \/ \E m \in msgs :
          \/ recvAppendEntries(m) \/ recvAppendEntriesResult(m)
          \/ SendFails(m) \/ Lose(m)

Spec == Init /\ [][Next]_vars

-----------------------------------------------------------------------------
(* Properties *)

Role == {"follower", "candidate", "leader"}
Entry == 1..Conf.maxTerm
Log == Seq(Entry)

\* Every variable has its type, and the parts of a server's state that belong to
\* a role (union in struct raft) are empty in the other roles: convertSetState
\* and the convertClear functions.
TypeOK ==
  /\ state \in [Server -> Role]
  /\ currentTerm \in [Server -> 0..Conf.maxTerm]
  /\ votedFor \in [Server -> Server \cup {None}]
  /\ votes \in [Server -> SUBSET Server]
  /\ leader \in [Server -> Server \cup {None}]
  /\ log \in [Server -> Log] /\ disk \in [Server -> Log]
  /\ lastStored \in [Server -> Nat] /\ commitIndex \in [Server -> Nat]
  /\ applied \in [Server -> Log] /\ chosen \in Log
  /\ progress \in [Server -> [Server -> [next : Nat \ {0}, match : Nat, pipeline : BOOLEAN]]]
  /\ \A i \in Server :
       /\ state[i] = "follower" => votes[i] = {} /\ progress[i] = NoProgress
       /\ state[i] = "leader" => leader[i] = None /\ votes[i] = {}

\* Log Matching, on the logs in memory: two entries with the same index and term
\* are the same and so are all those before them (checkLogMatchingProperty,
\* deleteConflictingEntries), through truncations and failed writes.
LogMatching ==
  \A i, j \in Server : \A k \in 1..Min({Len(log[i]), Len(log[j])}) :
    log[i][k] = log[j][k] => SubSeq(log[i], 1, k) = SubSeq(log[j], 1, k)

\* last_stored never claims an entry that the disk does not have: truncation,
\* completions of writes submitted before it and failures keep the log in memory
\* up to last_stored and the log on disk equal (updateLastStored).
LastStoredSound ==
  \A i \in Server :
    /\ lastStored[i] <= Len(log[i])
    /\ IsPrefix(SubSeq(log[i], 1, lastStored[i]), disk[i])

\* The disk d after the first n of the operations ws, for each n.
Replay(d, ws) ==
  LET r[n \in 0..Len(ws)] == IF n = 0 THEN d ELSE OnDisk(r[n - 1], ws[n])
  IN  r

\* Once all it was asked to do is done, the disk has the log: no entry stays in
\* memory whose write failed or was never submitted, none stays on disk that was
\* truncated in memory (replicationAppend, appendFollowerCb, appendLeaderCb).
DiskCatchesUp ==
  \A i \in Server : Replay(disk[i], writes[i])[Len(writes[i])] = log[i]

\* What replicationQuorum counts is there: if the leader has a match_index for a
\* server, that server has those entries on disk, as long as it has not heard of
\* a later term.
MatchIndexSound ==
  \A i, j \in Server :
    state[i] = "leader" /\ currentTerm[j] <= currentTerm[i] =>
      IsPrefix(SubSeq(log[i], 1, progress[i][j].match), disk[j])

\* No message makes a server shut down because it contradicts an entry that is
\* committed there (the "Should never happen" of checkLogMatchingProperty and
\* deleteConflictingEntries).
NeverShutdown ==
  \A m \in msgs :
    m.type = "AppendEntries" /\ m.term >= currentTerm[m.to] =>
      ~Conflicts(m.to, m)

\* appendFollowerCb finds a follower: the assertion in it.  A server with a
\* follower's write in flight must not become candidate.
FollowerWritesAreFollowers ==
  \A i \in Server : \A k \in DOMAIN writes[i] :
    writes[i][k].op = "follower" => state[i] = "follower"

\* The servers apply one sequence of entries, each in order and none out of it,
\* whatever crashes, fails or is lost: the promise to the state machines.
Abstract == INSTANCE ReplicatedLog WITH First <- <<1>>
AppliesReplicatedLog == Abstract!Spec
=============================================================================
