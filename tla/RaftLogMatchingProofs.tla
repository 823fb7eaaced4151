------------------------- MODULE RaftLogMatchingProofs -------------------------
(***************************************************************************)
(* Log Matching for RaftReplication.  The proof needs the past: h has the   *)
(* log of the leader of each term, v the vote that each server gave in each *)
(* term.  Neither is a variable of the specification: the invariant says    *)
(* that there are such an h and v.  Then last_stored, at the end.           *)
(***************************************************************************)
EXTENDS RaftDiskProofs

(* Logs that come from leaders *)

\* Each entry of l, with those before it, is as the leader of its term had it.
Matched(l, h) == \A k \in 1..Len(l) : SameUpTo(l, h[l[k]], k)

\* Leaders only add to their log.
GrowsTo(h, g) == \A t \in Entry : SameUpTo(g[t], h[t], Len(h[t]))

LEMMA LogLen ==
  ASSUME NEW l \in Log
  PROVE  /\ l \in Seq(Entry) /\ Len(l) \in Nat /\ DOMAIN l = 1..Len(l)
         /\ \A k \in 1..Len(l) : l[k] \in Entry
  BY DEF Log

LEMMA SameTrans ==
  ASSUME NEW a, NEW b, NEW c, NEW k \in Int, SameUpTo(a, b, k), SameUpTo(b, c, k)
  PROVE  SameUpTo(a, c, k)
  BY DEF SameUpTo

LEMMA SameLess ==
  ASSUME NEW a \in Log, NEW b \in Log, NEW k \in Int, NEW j \in Int, j <= k, SameUpTo(a, b, k)
  PROVE  SameUpTo(a, b, j) /\ SameUpTo(b, a, j)
<1>1. Len(a) \in Nat /\ Len(b) \in Nat
  BY LogLen
<1> QED BY <1>1 DEF SameUpTo

\* The first entries of such a log are one, too.
LEMMA MatchedPrefix ==
  ASSUME NEW h \in [Entry -> Log], NEW l \in Log, NEW x \in Log, Matched(l, h),
         SameUpTo(x, l, Len(x))
  PROVE  Matched(x, h)
<1> SUFFICES ASSUME NEW k \in 1..Len(x) PROVE SameUpTo(x, h[x[k]], k)
  BY DEF Matched
<1>1. /\ Len(x) \in Nat /\ Len(l) \in Nat /\ k \in Int /\ k <= Len(x) /\ Len(x) \in Int
      /\ \A j \in 1..Len(x) : x[j] \in Entry
  BY LogLen
<1>2. k \in 1..Len(l) /\ x[k] = l[k]
  BY <1>1 DEF SameUpTo
<1>3. SameUpTo(l, h[l[k]], k)
  BY <1>2 DEF Matched
<1>4. SameUpTo(x, l, k)
  BY <1>1, SameLess
<1> QED BY <1>1, <1>2, <1>3, <1>4, SameTrans

LEMMA MatchedGrows ==
  ASSUME NEW h \in [Entry -> Log], NEW g \in [Entry -> Log], GrowsTo(h, g),
         NEW l \in Log, Matched(l, h)
  PROVE  Matched(l, g)
<1> SUFFICES ASSUME NEW k \in 1..Len(l) PROVE SameUpTo(l, g[l[k]], k)
  BY DEF Matched
<1> DEFINE a == h[l[k]]
           b == g[l[k]]
<1>1. Len(l) \in Nat /\ l[k] \in Entry /\ k \in Int
  BY LogLen
<1>2. a \in Log /\ b \in Log /\ SameUpTo(b, a, Len(a)) /\ SameUpTo(l, a, k)
  BY <1>1 DEF GrowsTo, Matched
<1> HIDE DEF a, b
<1>3. Len(a) \in Nat /\ Len(a) \in Int /\ k <= Len(a)
  BY <1>2, LogLen DEF SameUpTo
<1>4. SameUpTo(a, b, k)
  BY <1>1, <1>2, <1>3, SameLess
<1>5. SameUpTo(l, b, k)
  BY <1>1, <1>2, <1>4, SameTrans
<1> QED BY <1>5 DEF b

LEMMA AgreesMatched ==
  ASSUME NEW h \in [Entry -> Log], NEW l \in Log, Agrees(l, h)
  PROVE  Matched(l, h)
<1> SUFFICES ASSUME NEW k \in 1..Len(l) PROVE SameUpTo(l, h[l[k]], k)
  BY DEF Matched
<1> DEFINE a == h[l[k]]
<1>1. l \in Seq(Entry) /\ Len(l) \in Nat /\ l[k] \in Entry /\ k \in DOMAIN l
  BY LogLen
<1>2. a \in Log /\ k <= Len(a) /\ SubSeq(a, 1, k) = SubSeq(l, 1, k)
  BY <1>1 DEF Agrees
<1> HIDE DEF a
<1>3. a \in Seq(Entry) /\ Len(a) \in Nat
  BY <1>2, LogLen
<1>4. \A j \in 1..k : SubSeq(a, 1, k)[j] = a[j] /\ SubSeq(l, 1, k)[j] = l[j]
  <2>1. k \in Int /\ k <= Len(a) /\ k <= Len(l) /\ 1 \in Nat \ {0}
    BY <1>1, <1>2
  <2>2. \A j \in 1..k - 1 + 1 : SubSeq(a, 1, k)[j] = a[1 + j - 1]
    BY <1>3, <2>1, SubSeqFacts
  <2>3. \A j \in 1..k - 1 + 1 : SubSeq(l, 1, k)[j] = l[1 + j - 1]
    BY <1>1, <2>1, SubSeqFacts
  <2>4. \A j \in 1..k : j \in 1..k - 1 + 1 /\ 1 + j - 1 = j
    BY <2>1
  <2> QED BY <2>2, <2>3, <2>4
<1>5. SameUpTo(l, a, k)
  BY <1>1, <1>2, <1>4 DEF SameUpTo
<1> QED BY <1>5 DEF a

\* Two logs of this kind with the same entry at k are the same up to k.
LEMMA MatchedSame ==
  ASSUME NEW h \in [Entry -> Log], NEW a \in Log, NEW b \in Log,
         Matched(a, h), Matched(b, h),
         NEW k \in 1..Len(a), k <= Len(b), a[k] = b[k]
  PROVE  SameUpTo(a, b, k)
<1>1. Len(a) \in Nat /\ Len(b) \in Nat /\ k \in Int /\ a[k] \in Entry
  BY LogLen
<1>2. k \in 1..Len(b)
  BY <1>1
<1>3. SameUpTo(a, h[a[k]], k) /\ SameUpTo(b, h[a[k]], k)
  BY <1>2 DEF Matched
<1>4. h[a[k]] \in Log
  BY <1>1
<1>5. SameUpTo(h[a[k]], b, k)
  BY <1>1, <1>3, <1>4, SameLess
<1> QED BY <1>1, <1>3, <1>5, SameTrans

(* Queues *)

QueueMatched(d, ws, h) == \A k \in 0..Len(ws) : Matched(Replay(d, ws)[k], h)

LEMMA QueueMatchedGrows ==
  ASSUME NEW h \in [Entry -> Log], NEW g \in [Entry -> Log], GrowsTo(h, g),
         NEW d \in Log, NEW ws \in Seq(Write), QueueMatched(d, ws, h)
  PROVE  QueueMatched(d, ws, g)
<1> SUFFICES ASSUME NEW k \in 0..Len(ws) PROVE Matched(Replay(d, ws)[k], g)
  BY DEF QueueMatched
<1>1. Replay(d, ws)[k] \in Log
  BY ReplayStep
<1>2. Matched(Replay(d, ws)[k], h)
  BY DEF QueueMatched
<1> QED BY <1>1, <1>2, MatchedGrows

LEMMA QueueMatchedEmpty ==
  ASSUME NEW d \in Log, NEW h, Matched(d, h)
  PROVE  QueueMatched(d, << >>, h)
<1>1. << >> \in Seq(Write) /\ Len(<< >>) = 0
  OBVIOUS
<1>2. Replay(d, << >>)[0] = d
  BY <1>1, ReplayStep
<1> QED BY <1>1, <1>2 DEF QueueMatched

LEMMA QueueMatchedAppend ==
  ASSUME NEW d \in Log, NEW ws \in Seq(Write), NEW l \in Log, QueueEndsInLog(d, ws, l), NEW h,
         QueueMatched(d, ws, h), NEW w \in Write, Matched(OnDisk(l, w), h)
  PROVE  /\ QueueMatched(d, Append(ws, w), h)
         /\ QueueEndsInLog(d, Append(ws, w), OnDisk(l, w))
<1> DEFINE vs == Append(ws, w)
           n == Len(ws)
<1>1. /\ vs \in Seq(Write) /\ Len(vs) = n + 1 /\ n \in Nat /\ vs[n + 1] = w
      /\ \A k \in 1..n : vs[k] = ws[k]
  OBVIOUS
<1> HIDE DEF vs
<1>2. \A k \in 0..n : Replay(d, vs)[k] = Replay(d, ws)[k]
  <2>1. n <= Len(ws) /\ n <= Len(vs) /\ \A k \in 1..n : vs[k] = ws[k]
    BY <1>1
  <2> QED BY <1>1, <2>1, ReplayPrefix
<1>3. Replay(d, vs)[n + 1] = OnDisk(l, w)
  <2>1. n + 1 \in 1..Len(vs) /\ n + 1 - 1 = n /\ n \in 0..n
    BY <1>1
  <2>2. Replay(d, vs)[n + 1] = OnDisk(Replay(d, vs)[n], vs[n + 1])
    BY <1>1, <2>1, ReplayStep
  <2>3. Replay(d, vs)[n] = l
    BY <1>2, <2>1 DEF QueueEndsInLog
  <2> QED BY <1>1, <2>2, <2>3
<1>4. ASSUME NEW k \in 0..Len(vs) PROVE Matched(Replay(d, vs)[k], h)
  <2>1. CASE k = n + 1
    BY <1>3, <2>1
  <2>2. CASE k \in 0..n
    BY <1>2, <2>2 DEF QueueMatched
  <2> QED BY <1>1, <2>1, <2>2
<1>5. QueueEndsInLog(d, vs, OnDisk(l, w))
  BY <1>1, <1>3 DEF QueueEndsInLog
<1> QED BY <1>4, <1>5 DEF QueueMatched, vs

LEMMA QueueMatchedTail ==
  ASSUME NEW d \in Log, NEW ws \in Seq(Write), ws # << >>, NEW h, QueueMatched(d, ws, h)
  PROVE  QueueMatched(OnDisk(d, Head(ws)), Tail(ws), h)
<1> DEFINE e == OnDisk(d, Head(ws))
           vs == Tail(ws)
<1>1. Len(vs) = Len(ws) - 1 /\ Len(ws) \in Nat \ {0}
  OBVIOUS
<1>2. \A k \in 0..Len(ws) - 1 : Replay(e, vs)[k] = Replay(d, ws)[k + 1]
  BY ReplayTail
<1> HIDE DEF e, vs
<1>3. ASSUME NEW k \in 0..Len(vs) PROVE Matched(Replay(e, vs)[k], h)
  <2>1. k \in 0..Len(ws) - 1 /\ k + 1 \in 0..Len(ws)
    BY <1>1
  <2> QED BY <1>2, <2>1 DEF QueueMatched
<1> QED BY <1>3 DEF QueueMatched, e, vs

LEMMA QueueMatchedFail ==
  ASSUME NEW h \in [Entry -> Log], NEW d \in Log, Matched(d, h), NEW ws \in Seq(Write),
         \A k \in 1..Len(ws) : ws[k].op = "truncate"
  PROVE  QueueMatched(d, ws, h)
<1> SUFFICES ASSUME NEW k \in 0..Len(ws) PROVE Matched(Replay(d, ws)[k], h)
  BY DEF QueueMatched
<1>1. Replay(d, ws)[k] \in Log
  BY ReplayStep
<1>2. SameUpTo(Replay(d, ws)[k], d, Len(Replay(d, ws)[k]))
  BY OnlyTruncations
<1> QED BY <1>1, <1>2, MatchedPrefix

(* Votes *)

Ballots == [Entry -> [Server -> Server \cup {None}]]

Voters(v, t, l) == {s \in Server : v[t][s] = l}

\* v has the votes of the current terms and of those before.
VotesCast(v) ==
  /\ v \in Ballots
  /\ \A s \in Server :
       /\ v[currentTerm[s]][s] = votedFor[s]
       /\ \A t \in Entry : t > currentTerm[s] => v[t][s] = None
       /\ \A x \in votes[s] : v[currentTerm[s]][x] = s
       /\ state[s] = "leader" => Quorum(Voters(v, currentTerm[s], s))

\* Server s cannot win term t any more.
Over(s, t) == currentTerm[s] >= t /\ (currentTerm[s] = t => votes[s] = {})

\* Term t had a leader: nobody can win it again.
Won(v, t) ==
  \/ \A s \in Server : Over(s, t)
  \/ \E l \in Server : Over(l, t) /\ Quorum(Voters(v, t, l))

Wins(h, v) == \A t \in Entry : h[t] # << >> => Won(v, t)

LEMMA QuorumMonotone ==
  ASSUME NEW S, NEW T \in SUBSET Server, S \subseteq T, Quorum(S)
  PROVE  Quorum(T)
<1>1. IsFiniteSet(T) /\ IsFiniteSet(S) /\ IsFiniteSet(Server)
  BY ReplicationAssumption, FS_Subset
<1>2. Cardinality(S) <= Cardinality(T)
  BY <1>1, FS_Subset
<1>3. Cardinality(S) \in Nat /\ Cardinality(T) \in Nat /\ Cardinality(Server) \in Nat
  BY <1>1, FS_CardinalityType
<1> QED BY <1>2, <1>3 DEF Quorum

LEMMA QuorumNonEmpty ==
  ASSUME NEW S, Quorum(S)
  PROVE  S # {}
<1>1. Cardinality(Server) \in Nat
  BY ReplicationAssumption, FS_CardinalityType
<1>2. Cardinality({}) = 0
  BY FS_EmptySet
<1> QED BY <1>1, <1>2 DEF Quorum

\* Two majorities share a server.
LEMMA QuorumsMeet ==
  ASSUME NEW S \in SUBSET Server, NEW T \in SUBSET Server, Quorum(S), Quorum(T)
  PROVE  S \cap T # {}
<1>1. /\ IsFiniteSet(S) /\ IsFiniteSet(T) /\ IsFiniteSet(Server)
      /\ IsFiniteSet(S \cup T) /\ IsFiniteSet(S \cap T)
  BY ReplicationAssumption, FS_Subset, FS_Union, FS_Intersection
<1>2. /\ Cardinality(S) \in Nat /\ Cardinality(T) \in Nat
      /\ Cardinality(Server) \in Nat /\ Cardinality(S \cup T) \in Nat
      /\ Cardinality(S \cap T) \in Nat
  BY <1>1, FS_CardinalityType
<1>3. Cardinality(S \cup T) =
        Cardinality(S) + Cardinality(T) - Cardinality(S \cap T)
  BY <1>1, FS_Union
<1>4. Cardinality(S \cup T) <= Cardinality(Server)
  BY <1>1, FS_Subset
<1>5. Cardinality(S \cap T) # 0
  BY <1>2, <1>3, <1>4 DEF Quorum
<1> QED BY <1>5, FS_EmptySet

\* A term has one winner.
LEMMA OneWinner ==
  ASSUME NEW v, NEW t, NEW a, NEW b, Quorum(Voters(v, t, a)), Quorum(Voters(v, t, b))
  PROVE  a = b
<1> DEFINE S == Voters(v, t, a)
           T == Voters(v, t, b)
<1>1. S \in SUBSET Server /\ T \in SUBSET Server /\ Quorum(S) /\ Quorum(T)
  BY DEF Voters
<1> HIDE DEF S, T
<1>2. S \cap T # {}
  BY <1>1, QuorumsMeet
<1> QED BY <1>2 DEF S, T, Voters

\* Votes are only added: those given stay.
LEMMA VotersGrow ==
  ASSUME NEW v, NEW u, NEW t, NEW l, l # None,
         \A s \in Server : v[t][s] # None => u[t][s] = v[t][s],
         Quorum(Voters(v, t, l))
  PROVE  Quorum(Voters(u, t, l))
<1>1. Voters(v, t, l) \subseteq Voters(u, t, l) /\ Voters(u, t, l) \in SUBSET Server
  BY DEF Voters
<1> QED BY <1>1, QuorumMonotone

LEMMA WonGrows ==
  ASSUME NEW v, NEW u, NEW t,
         \A s \in Server : v[t][s] # None => u[t][s] = v[t][s],
         \A s \in Server : Over(s, t) => Over(s, t)',
         Won(v, t)
  PROVE  Won(u, t)'
<1>1. CASE \A s \in Server : Over(s, t)
  BY <1>1 DEF Won
<1>2. ASSUME NEW l \in Server, Over(l, t), Quorum(Voters(v, t, l)) PROVE Won(u, t)'
  <2>1. Quorum(Voters(u, t, l))
    BY <1>2, VotersGrow, ReplicationAssumption
  <2>2. Quorum(Voters(u, t, l))'
    BY <2>1 DEF Quorum, Voters
  <2>3. Over(l, t)'
    BY <1>2
  <2> QED BY <2>2, <2>3 DEF Won
<1> QED BY <1>1, <1>2 DEF Won

\* A server that neither votes nor becomes candidate or leader.
NoVote(s) ==
  \/ /\ currentTerm'[s] = currentTerm[s] /\ votedFor'[s] = votedFor[s]
     /\ votes'[s] \subseteq votes[s]
     /\ state'[s] = "leader" => state[s] = "leader"
  \/ /\ currentTerm'[s] > currentTerm[s] /\ votedFor'[s] = None
     /\ votes'[s] = {} /\ state'[s] # "leader"

LEMMA TermFacts ==
  ASSUME TypeInv, NEW s \in Server
  PROVE  /\ currentTerm[s] \in Entry /\ currentTerm[s] \in Nat
         /\ Entry \subseteq Nat
         /\ votes[s] \subseteq Server /\ votedFor[s] \in Server \cup {None}
<1>1. Conf.maxTerm \in Nat
  BY ConfFacts DEF TypeInv, QueuesOK
<1> QED BY <1>1 DEF TypeInv, TypeOK, Roles, Entry

LEMMA TermFactsNext ==
  ASSUME TypeInv', conf' = conf, NEW s \in Server
  PROVE  currentTerm'[s] \in Entry /\ currentTerm'[s] \in Nat
<1>1. Conf' = Conf /\ Conf.maxTerm \in Nat
  BY ConfFacts, SetsKept DEF TypeInv, QueuesOK
<1> QED BY <1>1 DEF TypeInv, TypeOK, Roles, Entry

LEMMA NoVoteOver ==
  ASSUME TypeInv, TypeInv', conf' = conf, NEW s \in Server, NoVote(s), NEW t \in Entry
  PROVE  Over(s, t) => Over(s, t)'
<1>1. currentTerm[s] \in Nat /\ currentTerm'[s] \in Nat /\ t \in Nat
  BY TermFacts, TermFactsNext
<1> QED BY <1>1 DEF NoVote, Over

LEMMA NoVoteCast ==
  ASSUME TypeInv, TypeInv', conf' = conf, NEW v, VotesCast(v),
         \A s \in Server : NoVote(s)
  PROVE  VotesCast(v)'
<1>1. v \in Ballots'
  BY SetsKept DEF VotesCast, Ballots
<1>2. ASSUME NEW s \in Server
      PROVE  /\ v[currentTerm'[s]][s] = votedFor'[s]
             /\ \A t \in Entry : t > currentTerm'[s] => v[t][s] = None
             /\ \A x \in votes'[s] : v[currentTerm'[s]][x] = s
             /\ state'[s] = "leader" => Quorum(Voters(v, currentTerm'[s], s))
  <2>1. /\ currentTerm[s] \in Nat /\ currentTerm'[s] \in Nat /\ currentTerm'[s] \in Entry
        /\ Entry \subseteq Nat
    BY TermFacts, TermFactsNext
  <2>2. /\ v[currentTerm[s]][s] = votedFor[s]
        /\ \A t \in Entry : t > currentTerm[s] => v[t][s] = None
        /\ \A x \in votes[s] : v[currentTerm[s]][x] = s
        /\ state[s] = "leader" => Quorum(Voters(v, currentTerm[s], s))
    BY DEF VotesCast
  <2>3. CASE currentTerm'[s] = currentTerm[s]
    BY <2>1, <2>2, <2>3 DEF NoVote
  <2>4. CASE currentTerm'[s] > currentTerm[s]
    <3>1. votedFor'[s] = None /\ votes'[s] = {} /\ state'[s] # "leader"
      BY <2>1, <2>4 DEF NoVote
    <3>2. v[currentTerm'[s]][s] = None
      BY <2>1, <2>2, <2>4
    <3>3. \A t \in Entry : t > currentTerm'[s] => t > currentTerm[s]
      BY <2>1, <2>4
    <3> QED BY <2>2, <3>1, <3>2, <3>3
  <2> QED BY <2>1, <2>3, <2>4 DEF NoVote
<1>3. Entry' = Entry
  BY SetsKept
<1> QED BY <1>1, <1>2, <1>3 DEF VotesCast, Quorum, Voters

Extends(v, u) == \A t \in Entry, s \in Server : v[t][s] # None => u[t][s] = v[t][s]

\* Server j gives its vote in its new term to x.
LEMMA OneVoteCast ==
  ASSUME TypeInv, TypeInv', conf' = conf, NEW v, VotesCast(v),
         NEW j \in Server, NEW x \in Server,
         currentTerm'[j] >= currentTerm[j], votedFor'[j] = x,
         v[currentTerm'[j]][j] \in {None, x},
         state'[j] # "leader",
         \A s \in Server \ {j} :
           currentTerm'[s] = currentTerm[s] /\ votedFor'[s] = votedFor[s] /\ state'[s] = state[s],
         \A s \in Server : \A y \in votes'[s] :
           \/ y \in votes[s] /\ currentTerm'[s] = currentTerm[s]
           \/ y = j /\ s = x /\ currentTerm'[s] = currentTerm'[j]
  PROVE  \E u : VotesCast(u)' /\ Extends(v, u)
<1>t. PICK T : T = currentTerm'[j]
  OBVIOUS
<1>u. PICK u : u = [v EXCEPT ![T] = [v[T] EXCEPT ![j] = x]]
  OBVIOUS
<1>1. /\ T \in Entry /\ T \in Nat /\ Entry \subseteq Nat /\ currentTerm[j] \in Nat
      /\ Entry' = Entry
  BY <1>t, TermFacts, TermFactsNext, SetsKept
<1>2. v \in Ballots
  BY DEF VotesCast
<1>3. /\ u \in Ballots /\ u[T][j] = x
      /\ \A t \in Entry, s \in Server : t # T \/ s # j => u[t][s] = v[t][s]
  BY <1>1, <1>2, <1>u DEF Ballots
<1>4. Extends(v, u)
  BY <1>3, <1>t DEF Extends
<1>5. ASSUME NEW s \in Server
      PROVE  /\ u[currentTerm'[s]][s] = votedFor'[s]
             /\ \A t \in Entry : t > currentTerm'[s] => u[t][s] = None
             /\ \A y \in votes'[s] : u[currentTerm'[s]][y] = s
             /\ state'[s] = "leader" => Quorum(Voters(u, currentTerm'[s], s))
  <2>1. /\ v[currentTerm[s]][s] = votedFor[s]
        /\ \A t \in Entry : t > currentTerm[s] => v[t][s] = None
        /\ \A y \in votes[s] : v[currentTerm[s]][y] = s
        /\ state[s] = "leader" => Quorum(Voters(v, currentTerm[s], s))
    BY DEF VotesCast
  <2>2. currentTerm[s] \in Entry /\ currentTerm'[s] \in Entry /\ votes[s] \subseteq Server
    BY TermFacts, TermFactsNext
  <2>3. u[currentTerm'[s]][s] = votedFor'[s]
    BY <1>3, <1>t, <2>1, <2>2
  <2>4. \A t \in Entry : t > currentTerm'[s] => u[t][s] = None
    <3>1. CASE s = j
      <4>1. \A t \in Entry : t > T => t > currentTerm[s] /\ t # T
        BY <1>1, <1>t, <3>1
      <4> QED BY <1>3, <1>t, <2>1, <3>1, <4>1
    <3>2. CASE s # j
      BY <1>3, <2>1, <3>2
    <3> QED BY <3>1, <3>2
  <2>5. \A y \in votes'[s] : u[currentTerm'[s]][y] = s
    <3> SUFFICES ASSUME NEW y \in votes'[s] PROVE u[currentTerm'[s]][y] = s
      OBVIOUS
    <3>1. CASE y \in votes[s] /\ currentTerm'[s] = currentTerm[s]
      <4>1. v[currentTerm'[s]][y] = s /\ y \in Server /\ s # None
        BY <2>1, <2>2, <3>1, ReplicationAssumption
      <4> QED BY <1>4, <2>2, <4>1 DEF Extends
    <3>2. CASE y = j /\ s = x /\ currentTerm'[s] = T
      BY <1>3, <3>2
    <3> QED BY <1>t, <3>1, <3>2
  <2>6. ASSUME state'[s] = "leader" PROVE Quorum(Voters(u, currentTerm'[s], s))
    <3>1. currentTerm'[s] = currentTerm[s] /\ state[s] = "leader" /\ s # None
      BY <2>6, ReplicationAssumption
    <3>2. \A z \in Server : v[currentTerm[s]][z] # None => u[currentTerm[s]][z] = v[currentTerm[s]][z]
      BY <1>4, <2>2 DEF Extends
    <3> QED BY <2>1, <3>1, <3>2, VotersGrow
  <2> QED BY <2>3, <2>4, <2>5, <2>6
<1>6. u \in Ballots'
  BY <1>1, <1>3 DEF Ballots
<1>7. VotesCast(u)'
  BY <1>1, <1>5, <1>6 DEF VotesCast, Quorum, Voters
<1> QED BY <1>4, <1>7

\* What a step does to the votes: those given stay, and a term that is over
\* stays so.
VotesGo(v) ==
  \E u : /\ VotesCast(u)' /\ Extends(v, u)
         /\ \A t \in Entry, s \in Server : Over(s, t) => Over(s, t)'

LEMMA NoVoteGo ==
  ASSUME TypeInv, TypeInv', conf' = conf, NEW v, VotesCast(v), \A s \in Server : NoVote(s)
  PROVE  VotesCast(v)' /\ \A t \in Entry, s \in Server : Over(s, t) => Over(s, t)'
  BY NoVoteCast, NoVoteOver

LEMMA electionStartGo ==
  ASSUME TypeInv, TypeInv', conf' = conf, NEW v, VotesCast(v),
         NEW i \in Server, electionStart(i)
  PROVE  VotesGo(v)
<1>1. /\ state' = [state EXCEPT ![i] = "candidate"]
      /\ currentTerm' = [currentTerm EXCEPT ![i] = @ + 1]
      /\ votedFor' = [votedFor EXCEPT ![i] = i]
      /\ votes' = [votes EXCEPT ![i] = {i}]
  BY DEF electionStart
<1>2. /\ state'[i] = "candidate" /\ currentTerm'[i] = currentTerm[i] + 1
      /\ votedFor'[i] = i /\ votes'[i] = {i}
      /\ \A s \in Server \ {i} : /\ state'[s] = state[s] /\ currentTerm'[s] = currentTerm[s]
                                 /\ votedFor'[s] = votedFor[s] /\ votes'[s] = votes[s]
  BY <1>1 DEF TypeInv, TypeOK
<1>3. \A s \in Server : currentTerm[s] \in Nat /\ currentTerm'[s] \in Entry
  BY TermFacts, TermFactsNext
<1>a. Entry \subseteq Nat
  BY TermFacts
<1>4. v[currentTerm'[i]][i] = None
  <2>1. currentTerm'[i] > currentTerm[i]
    BY <1>2, <1>3
  <2> QED BY <1>3, <2>1 DEF VotesCast
<1>5. \E u : VotesCast(u)' /\ Extends(v, u)
  <2>1. currentTerm'[i] >= currentTerm[i]
    BY <1>2, <1>3
  <2> QED BY <1>2, <1>4, <2>1, OneVoteCast
<1>6. ASSUME NEW t \in Entry, NEW s \in Server, Over(s, t) PROVE Over(s, t)'
  <2>1. CASE s = i
    <3>1. currentTerm'[i] > t
      BY <1>2, <1>3, <1>6, <1>a, <2>1 DEF Over
    <3>2. currentTerm'[i] \in Nat /\ t \in Nat
      BY <1>3, <1>a
    <3>3. currentTerm'[i] >= t /\ currentTerm'[i] # t
      BY <3>1, <3>2
    <3> QED BY <2>1, <3>3 DEF Over
  <2>2. CASE s # i
    BY <1>2, <1>6, <2>2 DEF Over
  <2> QED BY <2>1, <2>2
<1> QED BY <1>5, <1>6 DEF VotesGo

LEMMA recvRequestVoteGo ==
  ASSUME TypeInv, TypeInv', conf' = conf, NEW v, VotesCast(v),
         NEW i \in Server, NEW j \in Server, recvRequestVote(j, i)
  PROVE  VotesGo(v)
<1> DEFINE bump == currentTerm[i] > currentTerm[j]
           granted == (bump \/ votedFor[j] \in {None, i}) /\ AtLeastAsUpToDate(i, j)
<1>1. /\ i # j /\ state[i] = "candidate" /\ votes[i] # {} /\ state[j] # "leader"
      /\ currentTerm[i] >= currentTerm[j] /\ (bump \/ granted)
      /\ currentTerm' = [currentTerm EXCEPT ![j] = currentTerm[i]]
      /\ votedFor' = [votedFor EXCEPT ![j] = IF granted THEN i ELSE None]
      /\ state' = [state EXCEPT ![j] = IF bump THEN "follower" ELSE @]
      /\ votes' = [votes EXCEPT ![i] = IF granted THEN @ \cup {j} ELSE @,
                                ![j] = IF bump THEN {} ELSE @]
  BY DEF recvRequestVote, HasLeader
<1>2. granted => bump \/ votedFor[j] \in {None, i}
  OBVIOUS
<1> HIDE DEF granted
<1>3. /\ currentTerm'[j] = currentTerm[i] /\ votedFor'[j] = (IF granted THEN i ELSE None)
      /\ state'[j] = (IF bump THEN "follower" ELSE state[j])
      /\ votes'[i] = (IF granted THEN votes[i] \cup {j} ELSE votes[i])
      /\ votes'[j] = (IF bump THEN {} ELSE votes[j])
      /\ \A s \in Server \ {j} : /\ state'[s] = state[s] /\ currentTerm'[s] = currentTerm[s]
                                 /\ votedFor'[s] = votedFor[s]
      /\ \A s \in Server \ {i, j} : votes'[s] = votes[s]
  <2>1. /\ currentTerm \in [Server -> 0..Conf.maxTerm] /\ state \in [Server -> Role]
        /\ votedFor \in [Server -> Server \cup {None}] /\ votes \in [Server -> SUBSET Server]
    BY DEF TypeInv, TypeOK
  <2> QED BY <1>1, <2>1
<1>4. \A s \in Server : currentTerm[s] \in Nat /\ currentTerm[s] \in Entry
  BY TermFacts
<1>5. \E u : VotesCast(u)' /\ Extends(v, u)
  <2>1. CASE granted
    <3>1. v[currentTerm'[j]][j] \in {None, i}
      <4>1. CASE bump
        BY <1>3, <1>4, <4>1 DEF VotesCast
      <4>2. CASE ~bump
        <5>1. currentTerm[i] = currentTerm[j]
          BY <1>1, <1>4, <4>2
        <5> QED BY <1>2, <1>3, <2>1, <4>2, <5>1 DEF VotesCast
      <4> QED BY <4>1, <4>2
    <3>2. currentTerm'[j] >= currentTerm[j] /\ votedFor'[j] = i /\ state'[j] # "leader"
      BY <1>1, <1>3, <2>1
    <3>3. ASSUME NEW s \in Server, NEW y \in votes'[s]
          PROVE  \/ y \in votes[s] /\ currentTerm'[s] = currentTerm[s]
                 \/ y = j /\ s = i /\ currentTerm'[s] = currentTerm'[j]
      <4>1. CASE s = j
        <5>1. ~bump /\ y \in votes[j]
          BY <1>3, <3>3, <4>1
        <5>2. currentTerm[i] = currentTerm[j]
          BY <1>1, <1>4, <5>1
        <5> QED BY <1>3, <4>1, <5>1, <5>2
      <4>2. CASE s = i
        <5>1. currentTerm'[i] = currentTerm[i] /\ currentTerm'[j] = currentTerm[i]
          BY <1>1, <1>3
        <5>2. y \in votes[i] \/ y = j
          BY <1>3, <2>1, <3>3, <4>2
        <5> QED BY <4>2, <5>1, <5>2
      <4>3. CASE s # i /\ s # j
        BY <1>3, <3>3, <4>3
      <4> QED BY <4>1, <4>2, <4>3
    <3> HIDE DEF bump
    <3> QED BY <1>3, <3>1, <3>2, <3>3, OneVoteCast
  <2>2. CASE ~granted
    <3>1. bump
      BY <1>1, <2>2
    <3>2. \A s \in Server : NoVote(s)
      BY <1>3, <2>2, <3>1 DEF NoVote
    <3>3. VotesCast(v)'
      BY <3>2, NoVoteCast
    <3>4. Extends(v, v)
      BY DEF Extends
    <3> QED BY <3>3, <3>4
  <2> QED BY <2>1, <2>2
<1>6. ASSUME NEW t \in Entry, NEW s \in Server, Over(s, t) PROVE Over(s, t)'
  <2>1. t \in Nat /\ currentTerm[s] >= t /\ (currentTerm[s] = t => votes[s] = {})
    BY <1>6, TermFacts DEF Over
  <2>2. CASE s = j
    BY <1>1, <1>3, <1>4, <2>1, <2>2 DEF Over
  <2>3. CASE s = i
    <3>1. currentTerm[i] # t
      BY <1>1, <2>1, <2>3
    <3> QED BY <1>1, <1>3, <2>1, <2>3, <3>1 DEF Over
  <2>4. CASE s # i /\ s # j
    BY <1>3, <2>1, <2>4 DEF Over
  <2> QED BY <2>2, <2>3, <2>4
<1> QED BY <1>5, <1>6 DEF VotesGo

(* The history of the leaders *)

\* The entries of a message are a part of the log of the leader of its term.
Part(m, h) ==
  /\ m.term \in Entry
  /\ m.entries # << >> =>
       /\ m.prev + Len(m.entries) <= Len(h[m.term])
       /\ m.prevTerm = TermAt(h[m.term], m.prev)
       /\ \A k \in 1..Len(m.entries) : m.entries[k] = h[m.term][m.prev + k]

\* All there is, in memory, on disk, in the queues and in flight, comes from the
\* leaders in h, and a leader still has what it has there.
History(h) ==
  /\ h \in [Entry -> Log]
  /\ \A t \in Entry : Matched(h[t], h)
  /\ \A i \in Server : QueueMatched(disk[i], writes[i], h)
  /\ \A m \in msgs : m.type = "AppendEntries" => Part(m, h)
  /\ \A i \in Server : state[i] = "leader" => log[i] = h[currentTerm[i]]

\* The leaders in h were elected, each in its term.
Led(h) == \E v : VotesCast(v) /\ Wins(h, v)
Past(h) == History(h) /\ Led(h)

\* The inductive invariant.
MatchInv == \E h : Past(h)

LEMMA LogIsMatched ==
  ASSUME TypeInv, Queues, NEW h, History(h), NEW i \in Server
  PROVE  Matched(log[i], h) /\ Matched(disk[i], h)
<1>1. disk[i] \in Log /\ writes[i] \in Seq(Write) /\ Len(writes[i]) \in Nat
  BY LogFacts
<1>2. Replay(disk[i], writes[i])[Len(writes[i])] = log[i]
  BY DEF Queues, Queue, QueueEndsInLog
<1>3. Replay(disk[i], writes[i])[0] = disk[i]
  BY <1>1, ReplayStep
<1>4. 0 \in 0..Len(writes[i]) /\ Len(writes[i]) \in 0..Len(writes[i])
  BY <1>1
<1> QED BY <1>2, <1>3, <1>4 DEF History, QueueMatched

LEMMA GrowsSame ==
  ASSUME NEW h \in [Entry -> Log]
  PROVE  GrowsTo(h, h)
  BY LogLen DEF GrowsTo, SameUpTo

LEMMA PartGrows ==
  ASSUME NEW h \in [Entry -> Log], NEW g \in [Entry -> Log], GrowsTo(h, g),
         NEW m \in AppendEntries, Part(m, h)
  PROVE  Part(m, g)
<1> SUFFICES ASSUME m.entries # << >>
             PROVE  /\ m.prev + Len(m.entries) <= Len(g[m.term])
                    /\ m.prevTerm = TermAt(g[m.term], m.prev)
                    /\ \A k \in 1..Len(m.entries) : m.entries[k] = g[m.term][m.prev + k]
  BY DEF Part
<1> DEFINE a == h[m.term]
           b == g[m.term]
<1>1. /\ m.prev + Len(m.entries) <= Len(a) /\ m.prevTerm = TermAt(a, m.prev)
      /\ \A k \in 1..Len(m.entries) : m.entries[k] = a[m.prev + k]
  BY DEF Part
<1>2. /\ m.prev \in Nat /\ Len(m.entries) \in Nat /\ a \in Log /\ b \in Log
      /\ SameUpTo(b, a, Len(a))
  <2>1. m.prev \in Nat /\ m.entries \in Log /\ m.term \in Entry
    BY DEF AppendEntries, Part
  <2> QED BY <2>1, LogLen DEF GrowsTo
<1> HIDE DEF a, b
<1>3. Len(a) \in Nat /\ Len(b) \in Nat /\ Len(a) <= Len(b) /\ \A k \in 1..Len(a) : b[k] = a[k]
  BY <1>2, LogLen DEF SameUpTo
<1>4. TermAt(b, m.prev) = TermAt(a, m.prev)
  BY <1>1, <1>2, <1>3 DEF TermAt
<1>5. \A k \in 1..Len(m.entries) : m.prev + k \in 1..Len(a)
  BY <1>1, <1>2, <1>3
<1>6. m.prev + Len(m.entries) <= Len(b)
  BY <1>1, <1>2, <1>3
<1> QED BY <1>1, <1>3, <1>4, <1>5, <1>6 DEF b

\* A step that takes the history from h to g.
LEMMA HistoryStep ==
  ASSUME TypeInv, conf' = conf, NEW h, History(h),
         NEW g \in [Entry -> Log], GrowsTo(h, g), \A t \in Entry : Matched(g[t], g),
         \A i \in Server : QueueMatched(disk'[i], writes'[i], g),
         \A m \in msgs' : m.type = "AppendEntries" => m \in msgs \/ Part(m, g),
         \A i \in Server : state'[i] = "leader" => log'[i] = g[currentTerm'[i]]
  PROVE  History(g)'
<1>1. Entry' = Entry /\ Log' = Log
  BY SetsKept
<1>2. h \in [Entry -> Log]
  BY DEF History
<1>3. ASSUME NEW m \in msgs', m.type = "AppendEntries" PROVE Part(m, g)'
  <2>1. CASE m \in msgs
    <3>1. m \in AppendEntries /\ Part(m, h)
      BY <1>3, <2>1 DEF TypeInv, QueuesOK, AppendEntriesResult, History
    <3>2. Part(m, g)
      BY <1>2, <3>1, PartGrows
    <3> QED BY <1>1, <3>2 DEF Part
  <2>2. CASE Part(m, g)
    BY <1>1, <2>2 DEF Part
  <2> QED BY <1>3, <2>1, <2>2
<1> QED BY <1>1, <1>3 DEF History

\* What a leader sends is a part of its log.
LEMMA SentPart ==
  ASSUME TypeInv, NEW h \in [Entry -> Log], NEW i \in Server, NEW j, NEW commit,
         NEW p \in ProgressType, NEW l \in Log, h[currentTerm[i]] = l
  PROVE  Part(sendAppendEntries(i, j, l, commit, p), h)
<1> DEFINE e == SubSeq(l, p.next, Len(l))
           m == sendAppendEntries(i, j, l, commit, p)
<1>1. /\ m.term = currentTerm[i] /\ m.prev = p.next - 1
      /\ m.prevTerm = TermAt(l, p.next - 1) /\ m.entries = e
  BY DEF sendAppendEntries
<1>2. p.next \in Nat \ {0} /\ l \in Seq(Entry) /\ Len(l) \in Nat
  BY LogLen DEF ProgressType
<1>3. currentTerm[i] \in Entry
  BY TermFacts
<1>4. /\ e \in Seq(Entry) /\ Len(e) = (IF p.next <= Len(l) THEN Len(l) - p.next + 1 ELSE 0)
      /\ \A k \in 1..Len(l) - p.next + 1 : e[k] = l[p.next + k - 1]
  BY <1>2, SubSeqFacts
<1> HIDE DEF e, m
<1>5. ASSUME e # << >>
      PROVE  /\ p.next - 1 + Len(e) <= Len(l)
             /\ \A k \in 1..Len(e) : e[k] = l[p.next - 1 + k]
  <2>1. Len(e) # 0
    BY <1>4, <1>5
  <2>2. Len(e) = Len(l) - p.next + 1
    BY <1>2, <1>4, <2>1
  <2>3. \A k \in 1..Len(e) : p.next + k - 1 = p.next - 1 + k
    BY <1>2
  <2> QED BY <1>2, <1>4, <2>2, <2>3
<1>6. Part(m, h)
  BY <1>1, <1>3, <1>5 DEF Part
<1> QED BY <1>6 DEF m

LEMMA WinsGo ==
  ASSUME conf' = conf, NEW h, NEW v, Wins(h, v), VotesGo(v)
  PROVE  \E u : VotesCast(u)' /\ Wins(h, u)'
<1>1. PICK u : /\ VotesCast(u)' /\ Extends(v, u)
               /\ \A t \in Entry, s \in Server : Over(s, t) => Over(s, t)'
  BY DEF VotesGo
<1>2. ASSUME NEW t \in Entry, h[t] # << >> PROVE Won(u, t)'
  <2>1. Won(v, t)
    BY <1>2 DEF Wins
  <2>2. \A s \in Server : v[t][s] # None => u[t][s] = v[t][s]
    BY <1>1 DEF Extends
  <2>3. \A s \in Server : Over(s, t) => Over(s, t)'
    BY <1>1
  <2> QED BY <2>1, <2>2, <2>3, WonGrows
<1>3. Entry' = Entry
  BY SetsKept
<1>4. Wins(h, u)'
  BY <1>2, <1>3 DEF Wins
<1> QED BY <1>1, <1>4

\* A step in which no leader adds to its log.
LEMMA MatchQuiet ==
  ASSUME TypeInv, conf' = conf, NEW h, NEW v, History(h), Wins(h, v), VotesGo(v),
         \A i \in Server : QueueMatched(disk'[i], writes'[i], h),
         \A m \in msgs' : m.type = "AppendEntries" => m \in msgs \/ Part(m, h),
         \A i \in Server : state'[i] = "leader" =>
           state[i] = "leader" /\ log'[i] = log[i] /\ currentTerm'[i] = currentTerm[i]
  PROVE  Past(h)'
<1>1. h \in [Entry -> Log] /\ GrowsTo(h, h) /\ \A t \in Entry : Matched(h[t], h)
  BY GrowsSame DEF History
<1>2. \A i \in Server : state'[i] = "leader" => log'[i] = h[currentTerm'[i]]
  BY DEF History
<1>3. History(h)'
  BY <1>1, <1>2, HistoryStep
<1>4. \E u : VotesCast(u)' /\ Wins(h, u)'
  BY WinsGo
<1> QED BY <1>3, <1>4 DEF Past, Led

\* The same, when nobody votes.
LEMMA NoVoteVotesGo ==
  ASSUME TypeInv, TypeInv', conf' = conf, NEW v, VotesCast(v), \A s \in Server : NoVote(s)
  PROVE  VotesGo(v)
<1>1. VotesCast(v)' /\ \A t \in Entry, s \in Server : Over(s, t) => Over(s, t)'
  BY NoVoteCast, NoVoteOver
<1>2. Extends(v, v)
  BY DEF Extends
<1> QED BY <1>1, <1>2 DEF VotesGo

\* A server becomes follower, whatever it was.
LEMMA FollowerNoVote ==
  ASSUME TypeInv, NEW i \in Server, NEW term \in Entry, NEW newLeader,
         term >= currentTerm[i], convertToFollower(i, term, newLeader)
  PROVE  /\ \A s \in Server : NoVote(s)
         /\ \A s \in Server : state'[s] = "leader" =>
              s # i /\ state[s] = "leader" /\ currentTerm'[s] = currentTerm[s]
<1>1. /\ state' = [state EXCEPT ![i] = "follower"]
      /\ currentTerm' = [currentTerm EXCEPT ![i] = term]
      /\ votedFor' = [votedFor EXCEPT ![i] = IF term > currentTerm[i] THEN None ELSE @]
      /\ votes' = [votes EXCEPT ![i] = {}]
  BY DEF convertToFollower
<1>2. /\ state'[i] = "follower" /\ currentTerm'[i] = term /\ votes'[i] = {}
      /\ votedFor'[i] = (IF term > currentTerm[i] THEN None ELSE votedFor[i])
      /\ \A s \in Server \ {i} : /\ state'[s] = state[s] /\ currentTerm'[s] = currentTerm[s]
                                 /\ votedFor'[s] = votedFor[s] /\ votes'[s] = votes[s]
  BY <1>1 DEF TypeInv, TypeOK
<1>3. currentTerm[i] \in Nat /\ term \in Nat
  BY TermFacts
<1>4. NoVote(i)
  BY <1>2, <1>3 DEF NoVote
<1>5. \A s \in Server \ {i} : NoVote(s)
  BY <1>2 DEF NoVote
<1> QED BY <1>2, <1>4, <1>5

LEMMA SameNoVote ==
  ASSUME UNCHANGED <<state, currentTerm, votedFor, votes>>
  PROVE  \A s \in Server : NoVote(s)
  BY DEF NoVote

LEMMA QuietQueues ==
  ASSUME NEW h, History(h), UNCHANGED diskVars
  PROVE  \A i \in Server : QueueMatched(disk'[i], writes'[i], h)
  BY DEF History, diskVars

LEMMA tickMatch ==
  ASSUME TypeInv, TypeInv', Queues, conf' = conf, NEW h, Past(h), NEW i \in Server,
         tick(i) \/ electionStart(i) \/ checkContactQuorum(i)
  PROVE  Past(h)'
<1>1. PICK v : History(h) /\ VotesCast(v) /\ Wins(h, v)
  BY DEF Past, Led
<1>2. UNCHANGED <<log, msgs, diskVars>>
  BY DEF tick, electionStart, checkContactQuorum, logVars
<1>3. \A k \in Server : QueueMatched(disk'[k], writes'[k], h)
  BY <1>1, <1>2, QuietQueues
<1>4. VotesGo(v) /\ \A k \in Server : state'[k] = "leader" =>
        state[k] = "leader" /\ currentTerm'[k] = currentTerm[k]
  <2>1. CASE tick(i)
    <3>1. /\ state' = [state EXCEPT ![i] = "candidate"]
          /\ UNCHANGED <<currentTerm, votedFor, votes>>
      BY <2>1 DEF tick
    <3>2. \A k \in Server : NoVote(k) /\ (state'[k] = "leader" => state[k] = "leader")
      BY <3>1 DEF NoVote, TypeInv, TypeOK
    <3> QED BY <1>1, <3>1, <3>2, NoVoteVotesGo
  <2>2. CASE electionStart(i)
    <3>1. VotesGo(v)
      BY <1>1, <2>2, electionStartGo
    <3>2. /\ state' = [state EXCEPT ![i] = "candidate"]
          /\ currentTerm' = [currentTerm EXCEPT ![i] = @ + 1]
      BY <2>2 DEF electionStart
    <3> QED BY <3>1, <3>2 DEF TypeInv, TypeOK
  <2>3. CASE checkContactQuorum(i)
    <3>1. convertToFollower(i, currentTerm[i], None)
      BY <2>3 DEF checkContactQuorum
    <3>2. currentTerm[i] \in Entry /\ currentTerm[i] >= currentTerm[i]
      BY TermFacts
    <3>3. /\ \A s \in Server : NoVote(s)
          /\ \A s \in Server : state'[s] = "leader" =>
               state[s] = "leader" /\ currentTerm'[s] = currentTerm[s]
      BY <3>1, <3>2, FollowerNoVote
    <3> QED BY <1>1, <3>3, NoVoteVotesGo
  <2> QED BY <2>1, <2>2, <2>3
<1> QED BY <1>1, <1>2, <1>3, <1>4, MatchQuiet

LEMMA recvRequestVoteMatch ==
  ASSUME TypeInv, TypeInv', Queues, conf' = conf, NEW h, Past(h),
         NEW i \in Server, NEW j \in Server, recvRequestVote(j, i)
  PROVE  Past(h)'
<1>1. PICK v : History(h) /\ VotesCast(v) /\ Wins(h, v)
  BY DEF Past, Led
<1>2. UNCHANGED <<log, msgs, diskVars>>
  BY DEF recvRequestVote, logVars
<1>3. \A k \in Server : QueueMatched(disk'[k], writes'[k], h)
  BY <1>1, <1>2, QuietQueues
<1>4. VotesGo(v)
  BY <1>1, recvRequestVoteGo
<1>5. \A k \in Server : state'[k] = "leader" =>
        state[k] = "leader" /\ currentTerm'[k] = currentTerm[k]
  <2>1. /\ ~HasLeader(j) /\ currentTerm' = [currentTerm EXCEPT ![j] = currentTerm[i]]
        /\ \E x : state' = [state EXCEPT ![j] = x] /\ x \in {"follower", state[j]}
    BY DEF recvRequestVote
  <2>2. state[j] # "leader"
    BY <2>1 DEF HasLeader
  <2>3. state \in [Server -> Role] /\ currentTerm \in [Server -> 0..Conf.maxTerm]
    BY DEF TypeInv, TypeOK
  <2> QED BY <2>1, <2>2, <2>3
<1> QED BY <1>1, <1>2, <1>3, <1>4, <1>5, MatchQuiet

\* A step that at most sends from the log of a leader: the messages of a
\* leader i, with some progress.
LEMMA MatchSends ==
  ASSUME TypeInv, TypeInv', conf' = conf, NEW h, Past(h), NEW i \in Server,
         UNCHANGED <<state, currentTerm, votedFor, votes, log, diskVars>>,
         \A m \in msgs' :
           \/ m \in msgs \/ m.type # "AppendEntries"
           \/ /\ state[i] = "leader"
              /\ \E j, c : \E p \in ProgressType : m = sendAppendEntries(i, j, log[i], c, p)
  PROVE  Past(h)'
<1>1. PICK v : History(h) /\ VotesCast(v) /\ Wins(h, v)
  BY DEF Past, Led
<1>2. \A k \in Server : QueueMatched(disk'[k], writes'[k], h)
  BY <1>1, QuietQueues
<1>3. VotesGo(v)
  BY <1>1, SameNoVote, NoVoteVotesGo
<1>4. ASSUME NEW m \in msgs', m.type = "AppendEntries" PROVE m \in msgs \/ Part(m, h)
  <2>1. CASE m \in msgs
    BY <2>1
  <2>2. CASE m \notin msgs
    <3>1. PICK j, c : \E p \in ProgressType : m = sendAppendEntries(i, j, log[i], c, p)
      BY <1>4, <2>2
    <3>2. PICK p \in ProgressType : m = sendAppendEntries(i, j, log[i], c, p)
      BY <3>1
    <3>3. log[i] \in Log /\ h \in [Entry -> Log] /\ h[currentTerm[i]] = log[i]
      BY <1>1, <1>4, <2>2, LogFacts DEF History
    <3> QED BY <3>2, <3>3, SentPart
  <2> QED BY <2>1, <2>2
<1> QED BY <1>1, <1>2, <1>3, <1>4, MatchQuiet

LEMMA replicationHeartbeatMatch ==
  ASSUME TypeInv, TypeInv', conf' = conf, NEW h, Past(h),
         NEW i \in Server, NEW j \in Server, replicationHeartbeat(i, j)
  PROVE  Past(h)'
<1> DEFINE new == {sendAppendEntries(i, j, log[i], commitIndex[i], progress[i][j])}
<1>1. /\ state[i] = "leader" /\ Send(msgs, new)
      /\ UNCHANGED <<state, currentTerm, votedFor, votes, log, diskVars>>
  BY DEF replicationHeartbeat, electionVars, logVars
<1>2. progress[i][j] \in ProgressType
  BY DEF TypeInv, TypeOK, ProgressType
<1>3. msgs' \subseteq msgs \cup new
  <2> HIDE DEF new
  <2> QED BY <1>1, SendSubset
<1>4. \A m \in msgs' :
        \/ m \in msgs
        \/ \E k, c : \E p \in ProgressType : m = sendAppendEntries(i, k, log[i], c, p)
  BY <1>2, <1>3
<1> QED BY <1>1, <1>4, MatchSends

LEMMA recvAppendEntriesResultMatch ==
  ASSUME TypeInv, TypeInv', conf' = conf, NEW h, Past(h), NEW m \in msgs, recvAppendEntriesResult(m)
  PROVE  Past(h)'
<1> DEFINE i == m.to
           j == m.from
           p == progress[i][j]
           last == Min({m.last, Len(log[i])})
           current == state[i] = "leader" /\ m.term = currentTerm[i]
           Replicate(q, c, due) ==
             LET send == ShouldReplicate(log[i], q, due)
             IN  /\ progress' = [progress EXCEPT ![i][j] =
                                   IF send THEN Sent(log[i], q) ELSE q]
                 /\ Send(msgs \ {m}, IF send THEN {sendAppendEntries(i, j, log[i], c, q)}
                                             ELSE {})
<1>1. m.type = "AppendEntriesResult" /\ UNCHANGED diskVars
  BY DEF recvAppendEntriesResult
<1>2. m \in AppendEntriesResult /\ i # j
  BY <1>1 DEF TypeInv, QueuesOK, MessagesOK, AppendEntries
<1>3. /\ i \in Server /\ j \in Server /\ m.term \in Term /\ m.rejected \in Nat
      /\ m.last \in Nat
  BY <1>2 DEF AppendEntriesResult
<1>4. log[i] \in Log /\ Len(log[i]) \in Nat
  BY <1>3, LogFacts
<1>5. last \in 0..Len(log[i])
  BY <1>3, <1>4, MinOfTwo
<1>6. p \in ProgressType /\ (state[i] = "leader" => Bounded(log[i], p))
  BY <1>2, <1>3 DEF TypeInv, TypeOK, ProgressType, ProgressBounded
<1>7. CASE msgs' = msgs \ {m} /\ UNCHANGED <<electionVars, log>>
  <2> HIDE DEF i
  <2>1. UNCHANGED <<state, currentTerm, votedFor, votes, log, diskVars>>
    BY <1>1, <1>7 DEF electionVars
  <2>2. \A x \in msgs' : x \in msgs
    BY <1>7
  <2> QED BY <1>3, <2>1, <2>2, MatchSends
<1> HIDE DEF i, j, p, last
<1>8. CASE /\ state[i] = "leader" /\ m.term > currentTerm[i]
           /\ convertToFollower(i, m.term, None)
           /\ msgs' = msgs \ {m}
           /\ UNCHANGED logVars
  <2>1. PICK v : History(h) /\ VotesCast(v) /\ Wins(h, v)
    BY DEF Past, Led
  <2>2. currentTerm[i] \in Nat /\ m.term \in Nat /\ m.term \in Entry /\ m.term >= currentTerm[i]
    <3>1. currentTerm[i] \in Nat /\ currentTerm[i] \in Entry /\ Entry \subseteq Nat
      BY <1>3, TermFacts
    <3>2. Conf.maxTerm \in Nat
      BY ConfFacts DEF TypeInv, QueuesOK
    <3> QED BY <1>3, <1>8, <3>1, <3>2 DEF Term, Entry
  <2>3. /\ \A s \in Server : NoVote(s)
        /\ \A s \in Server : state'[s] = "leader" =>
             s # i /\ state[s] = "leader" /\ currentTerm'[s] = currentTerm[s]
    BY <1>3, <1>8, <2>2, FollowerNoVote
  <2>4. VotesGo(v)
    BY <2>1, <2>3, NoVoteVotesGo
  <2>5. \A k \in Server : QueueMatched(disk'[k], writes'[k], h)
    BY <1>1, <2>1, QuietQueues
  <2>6. log' = log /\ \A x \in msgs' : x \in msgs
    BY <1>8 DEF logVars
  <2> QED BY <2>1, <2>3, <2>4, <2>5, <2>6, MatchQuiet
<1>9. ASSUME NEW q \in ProgressType, NEW c, NEW due, current, Replicate(q, c, due),
             UNCHANGED <<electionVars, log>>
      PROVE  Past(h)'
  <2> DEFINE send == ShouldReplicate(log[i], q, due)
             new == IF send THEN {sendAppendEntries(i, j, log[i], c, q)} ELSE {}
  <2>1. UNCHANGED <<state, currentTerm, votedFor, votes, log, diskVars>> /\ state[i] = "leader"
    BY <1>1, <1>9 DEF electionVars
  <2>2. Send(msgs \ {m}, new)
    BY <1>9
  <2>3. \A x \in new : x = sendAppendEntries(i, j, log[i], c, q)
    OBVIOUS
  <2> HIDE DEF new
  <2>4. msgs' \subseteq (msgs \ {m}) \cup new
    BY <2>2, SendSubset
  <2>5. \A x \in msgs' :
          \/ x \in msgs
          \/ \E k, d : \E r \in ProgressType : x = sendAppendEntries(i, k, log[i], d, r)
    BY <2>3, <2>4
  <2> QED BY <1>3, <2>1, <2>5, MatchSends
<1>10. CASE /\ current /\ m.rejected > 0 /\ ~Stale(p, m.rejected)
            /\ \E due \in BOOLEAN :
                 Replicate(progressMaybeDecrement(p, m.rejected, m.last),
                           commitIndex[i], due)
            /\ UNCHANGED <<electionVars, logVars>>
  <2> DEFINE q == progressMaybeDecrement(p, m.rejected, m.last)
  <2>1. q \in ProgressType
    BY <1>3, <1>4, <1>6, <1>10, progressMaybeDecrementType
  <2>2. PICK due \in BOOLEAN : Replicate(q, commitIndex[i], due)
    BY <1>10
  <2>3. UNCHANGED <<electionVars, log>> /\ current
    BY <1>10 DEF logVars
  <2> HIDE DEF q, Replicate, current
  <2> QED BY <1>9, <2>1, <2>2, <2>3
<1>11. CASE /\ current /\ m.rejected = 0 /\ p.match < last
            /\ LET q == progressMaybeUpdate(p, last)
                   c == LeaderCommit(i, log[i], [progress[i] EXCEPT ![j] = q], last)
               IN  /\ ApplyUpTo(i, log[i], c)
                   /\ \E due \in BOOLEAN : Replicate(q, c, due)
            /\ UNCHANGED <<electionVars, log, lastStored>>
  <2> DEFINE q == progressMaybeUpdate(p, last)
             c == LeaderCommit(i, log[i], [progress[i] EXCEPT ![j] = q], last)
  <2>1. q \in ProgressType
    BY <1>4, <1>5, <1>6, <1>11, progressMaybeUpdateType
  <2>2. PICK due \in BOOLEAN : Replicate(q, c, due)
    BY <1>11
  <2>3. UNCHANGED <<electionVars, log>> /\ current
    BY <1>11
  <2> HIDE DEF q, c, Replicate, current
  <2> QED BY <1>9, <2>1, <2>2, <2>3
<1> QED BY <1>7, <1>8, <1>10, <1>11 DEF recvAppendEntriesResult, logVars, i, j, p, last

LEMMA LossMatch ==
  ASSUME TypeInv, TypeInv', conf' = conf, NEW h, Past(h), NEW m \in msgs, SendFails(m) \/ Lose(m)
  PROVE  Past(h)'
<1>1. /\ UNCHANGED <<state, currentTerm, votedFor, votes, log, diskVars>>
      /\ \A x \in msgs' : x \in msgs
  BY DEF SendFails, Lose, electionVars, logVars
<1>2. \E i : i \in Server
  BY DEF TypeInv, QueuesOK, AppendEntries, AppendEntriesResult
<1> QED BY <1>1, <1>2, MatchSends

\* A step that changes the log, the disk and the queue of one server, which then
\* is not leader, unless its log stays as it is.
LEMMA MatchOne ==
  ASSUME TypeInv, TypeInv', conf' = conf, NEW h, NEW v, History(h), VotesCast(v), Wins(h, v),
         NEW i \in Server,
         \A k \in Server \ {i} : log'[k] = log[k] /\ writes'[k] = writes[k]
                                 /\ disk'[k] = disk[k],
         QueueMatched(disk'[i], writes'[i], h),
         \A m \in msgs' : m.type = "AppendEntries" => m \in msgs,
         \A s \in Server : NoVote(s),
         \A s \in Server : state'[s] = "leader" =>
           /\ s # i \/ log'[i] = log[i]
           /\ state[s] = "leader" /\ currentTerm'[s] = currentTerm[s]
  PROVE  Past(h)'
<1>1. \A k \in Server : QueueMatched(disk'[k], writes'[k], h)
  BY DEF History
<1>2. VotesGo(v)
  BY NoVoteVotesGo
<1> QED BY <1>1, <1>2, MatchQuiet

LEMMA WriteCompletesMatch ==
  ASSUME TypeInv, TypeInv', conf' = conf, NEW h, Past(h), NEW i \in Server, WriteCompletes(i)
  PROVE  Past(h)'
<1>0. PICK v : History(h) /\ VotesCast(v) /\ Wins(h, v)
  BY DEF Past, Led
<1>1. /\ writes[i] # << >>
      /\ disk' = [disk EXCEPT ![i] = OnDisk(disk[i], Head(writes[i]))]
      /\ writes' = [writes EXCEPT ![i] = Tail(@)]
      /\ log' = log /\ UNCHANGED electionVars
  BY DEF WriteCompletes, TruncateCompletes, appendLeaderCb, appendFollowerCb, logVars
<1>2. /\ disk'[i] = OnDisk(disk[i], Head(writes[i])) /\ writes'[i] = Tail(writes[i])
      /\ \A k \in Server \ {i} : writes'[k] = writes[k] /\ disk'[k] = disk[k]
  BY <1>1 DEF TypeInv, TypeOK, QueuesOK
<1>3. QueueMatched(disk'[i], writes'[i], h)
  <2>1. QueueMatched(disk[i], writes[i], h) /\ disk[i] \in Log /\ writes[i] \in Seq(Write)
    BY <1>0, LogFacts DEF History
  <2> QED BY <1>1, <1>2, <2>1, QueueMatchedTail
<1>4. \A m \in msgs' : m.type = "AppendEntries" => m \in msgs
  <2> DEFINE w == Head(writes[i])
             r == result(i, leader[i], w.term, 0, lastStored[i] + updateLastStored(i, w))
  <2>1. msgs' = msgs \/ Send(msgs, {r})
    BY DEF WriteCompletes, TruncateCompletes, appendLeaderCb, appendFollowerCb
  <2>2. r.type = "AppendEntriesResult"
    BY DEF result
  <2> HIDE DEF r
  <2> QED BY <2>1, <2>2 DEF Send
<1>5. UNCHANGED <<state, currentTerm, votedFor, votes>>
  BY <1>1 DEF electionVars
<1>6. \A s \in Server : NoVote(s)
  BY <1>5, SameNoVote
<1> QED BY <1>0, <1>1, <1>2, <1>3, <1>4, <1>5, <1>6, MatchOne

LEMMA WriteFailsMatch ==
  ASSUME TypeInv, TypeInv', Queues, conf' = conf, NEW h, Past(h), NEW i \in Server, WriteFails(i)
  PROVE  Past(h)'
<1>0. PICK v : History(h) /\ VotesCast(v) /\ Wins(h, v)
  BY DEF Past, Led
<1> DEFINE reject(w) == result(i, leader[i], currentTerm[i], w.prev + 1, lastStored[i])
           rejects == {reject(w) : w \in {f \in Failed(i) : f.op = "follower"}}
           l == Truncate(log[i], FirstFailed(i))
           ws == Truncates(writes[i])[Len(writes[i])]
<1>1. /\ log' = [log EXCEPT ![i] = l]
      /\ writes' = [writes EXCEPT ![i] = ws]
      /\ Send(msgs, rejects)
      /\ IF state[i] = "leader"
           THEN convertToFollower(i, currentTerm[i], None)
           ELSE UNCHANGED <<electionVars, progress>>
      /\ disk' = disk
  BY DEF WriteFails, Failed, FirstFailed
<1>2. writes[i] \in Seq(Write) /\ Len(writes[i]) \in 0..Len(writes[i]) /\ disk[i] \in Log
  BY LogFacts
<1>3. ws \in Seq(Write) /\ \A k \in 1..Len(ws) : ws[k].op = "truncate"
  BY <1>2, TruncatesType
<1>4. \A m \in msgs' : m.type = "AppendEntries" => m \in msgs
  <2>1. \A r \in rejects : r.type = "AppendEntriesResult"
    BY DEF result
  <2> HIDE DEF rejects
  <2> QED BY <1>1, <2>1 DEF Send
<1> HIDE DEF l, ws
<1>5. /\ \A k \in Server \ {i} : log'[k] = log[k] /\ writes'[k] = writes[k] /\ disk'[k] = disk[k]
      /\ disk'[i] = disk[i] /\ writes'[i] = ws
  BY <1>1 DEF TypeInv, TypeOK, QueuesOK
<1>6. QueueMatched(disk'[i], writes'[i], h)
  <2>1. Matched(disk[i], h) /\ h \in [Entry -> Log]
    BY <1>0, LogIsMatched DEF History
  <2> QED BY <1>2, <1>3, <1>5, <2>1, QueueMatchedFail
<1>7. /\ \A s \in Server : NoVote(s)
      /\ \A s \in Server : state'[s] = "leader" =>
           s # i /\ state[s] = "leader" /\ currentTerm'[s] = currentTerm[s]
  <2>1. CASE state[i] = "leader"
    <3>1. currentTerm[i] \in Entry /\ currentTerm[i] >= currentTerm[i]
      BY TermFacts
    <3> QED BY <1>1, <2>1, <3>1, FollowerNoVote
  <2>2. CASE state[i] # "leader"
    BY <1>1, <2>2 DEF electionVars, NoVote
  <2> QED BY <2>1, <2>2
<1> QED BY <1>0, <1>4, <1>5, <1>6, <1>7, MatchOne

LEMMA raft_startMatch ==
  ASSUME TypeInv, TypeInv', Queues, conf' = conf, NEW h, Past(h), NEW i \in Server, raft_start(i)
  PROVE  Past(h)'
<1>0. PICK v : History(h) /\ VotesCast(v) /\ Wins(h, v)
  BY DEF Past, Led
<1>1. /\ log' = [log EXCEPT ![i] = disk[i]] /\ writes' = [writes EXCEPT ![i] = << >>]
      /\ disk' = disk /\ msgs' = msgs
      /\ state' = [state EXCEPT ![i] = "follower"] /\ votes' = [votes EXCEPT ![i] = {}]
      /\ UNCHANGED <<currentTerm, votedFor>>
  BY DEF raft_start
<1>2. /\ disk'[i] = disk[i] /\ writes'[i] = << >>
      /\ \A k \in Server \ {i} : log'[k] = log[k] /\ writes'[k] = writes[k]
                                 /\ disk'[k] = disk[k]
  BY <1>1 DEF TypeInv, TypeOK, QueuesOK
<1>3. QueueMatched(disk'[i], writes'[i], h)
  <2>1. Matched(disk[i], h) /\ disk[i] \in Log
    BY <1>0, LogIsMatched, LogFacts
  <2> QED BY <1>2, <2>1, QueueMatchedEmpty
<1>4. /\ state'[i] = "follower" /\ votes'[i] = {}
      /\ \A k \in Server \ {i} : state'[k] = state[k] /\ votes'[k] = votes[k]
  BY <1>1 DEF TypeInv, TypeOK
<1>5. \A s \in Server : NoVote(s)
  BY <1>1, <1>4 DEF NoVote
<1>6. \A s \in Server : state'[s] = "leader" =>
        s # i /\ state[s] = "leader" /\ currentTerm'[s] = currentTerm[s]
  BY <1>1, <1>4
<1> QED BY <1>0, <1>1, <1>2, <1>3, <1>5, <1>6, MatchOne

\* checkLogMatchingProperty and deleteConflictingEntries: what is kept and the
\* new entries are together the beginning of the log of the leader that sent
\* them.
LEMMA NewLogMatched ==
  ASSUME TypeInv, Queues, NEW h, History(h), NEW m \in msgs, m \in AppendEntries,
         Matches(m.to, m), ~Conflicts(m.to, m), NewEntries(m.to, m) # << >>
  PROVE  Matched(Kept(m.to, m) \o NewEntries(m.to, m), h) /\ Matched(Kept(m.to, m), h)
<1> DEFINE i == m.to
           l == log[i]
           g == h[m.term]
           e == m.entries
           n == Matching(log[i], m.prev + 1, m.entries)
           new == NewEntries(i, m)
           kept == Kept(i, m)
           index == FirstNew(i, m)
           both == kept \o new
<1>1. /\ i \in Server /\ m.prev \in Nat /\ e \in Log /\ Len(e) \in Nat /\ m.prevTerm \in Nat
  BY LogLen DEF AppendEntries
<1>2. /\ n \in 0..Len(e) - 1 /\ index = m.prev + n + 1
      /\ index <= Len(l) + 1 /\ m.prev <= Len(l) /\ TermAt(l, m.prev) = m.prevTerm
      /\ \A k \in 1..n : l[m.prev + k] = e[k]
      /\ new \in Log /\ Len(new) = Len(e) - n
      /\ \A k \in 1..Len(new) : new[k] = e[n + k]
      /\ kept \in Log /\ Len(kept) = index - 1
      /\ \A k \in 1..index - 1 : kept[k] = l[k]
  BY NewEntriesFacts
<1>3. e # << >>
  BY <1>1, <1>2
<1>4. /\ h \in [Entry -> Log] /\ m.term \in Entry /\ g \in Log
      /\ m.prev + Len(e) <= Len(g) /\ m.prevTerm = TermAt(g, m.prev)
      /\ \A k \in 1..Len(e) : e[k] = g[m.prev + k]
  <2>1. m.type = "AppendEntries"
    BY DEF AppendEntries
  <2>2. Part(m, h) /\ h \in [Entry -> Log]
    BY <2>1 DEF History
  <2> QED BY <1>3, <2>2 DEF Part
<1>5. /\ l \in Log /\ Matched(l, h) /\ Matched(g, h)
  BY <1>1, <1>4, LogFacts, LogIsMatched DEF History
<1> HIDE DEF i, l, g, e, n, new, kept, index
<1>6. Len(l) \in Nat /\ Len(g) \in Nat /\ n \in Nat /\ n < Len(e)
  BY <1>1, <1>2, <1>4, <1>5, LogLen
<1>7. m.prev # 0 => SameUpTo(l, g, m.prev)
  <2> SUFFICES ASSUME m.prev # 0 PROVE SameUpTo(l, g, m.prev)
    OBVIOUS
  <2>1. m.prev \in 1..Len(l) /\ m.prev \in 1..Len(g) /\ m.prev <= Len(g)
    BY <1>1, <1>2, <1>4, <1>6, SMTT(60)
  <2>2. l[m.prev] = g[m.prev]
    BY <1>2, <1>4, <2>1 DEF TermAt
  <2> QED BY <1>4, <1>5, <2>1, <2>2, MatchedSame
<1>8. /\ both \in Seq(Entry) /\ Len(both) = m.prev + Len(e)
      /\ \A k \in 1..Len(kept) : both[k] = kept[k]
      /\ \A k \in Len(kept) + 1..Len(both) : both[k] = new[k - Len(kept)]
  <2>1. kept \in Seq(Entry) /\ new \in Seq(Entry) /\ Len(kept) = m.prev + n
        /\ Len(new) = Len(e) - n /\ Len(kept) \in Nat /\ Len(new) \in Nat
    BY <1>1, <1>2, <1>6, LogLen
  <2>2. /\ both \in Seq(Entry) /\ Len(both) = Len(kept) + Len(new)
        /\ \A k \in 1..Len(kept) + Len(new) :
             both[k] = IF k <= Len(kept) THEN kept[k] ELSE new[k - Len(kept)]
    BY <2>1, ConcatProperties
  <2> HIDE DEF both
  <2>3. Len(both) = m.prev + Len(e)
    <3>1. \A a, c, d \in Nat : (a + c) + (d - c) = a + d
      OBVIOUS
    <3>2. Len(both) = (m.prev + n) + (Len(e) - n)
      BY <2>1, <2>2
    <3> QED BY <1>1, <1>6, <3>1, <3>2
  <2>4. \A k \in 1..Len(kept) : k \in 1..Len(kept) + Len(new) /\ k <= Len(kept)
    BY <2>1
  <2>5. \A k \in Len(kept) + 1..Len(both) : k \in 1..Len(kept) + Len(new) /\ ~(k <= Len(kept))
    BY <2>1, <2>2
  <2> QED BY <2>2, <2>3, <2>4, <2>5
<1> HIDE DEF both
<1>9. ASSUME NEW k \in 1..Len(both) PROVE both[k] = g[k]
  <2> DEFINE P == m.prev
             E == Len(e)
             K == Len(kept)
             N == Len(new)
             B == Len(both)
  <2>0. /\ P \in Nat /\ E \in Nat /\ n \in Nat /\ n < E /\ index = P + n + 1
        /\ K = index - 1 /\ N = E - n /\ B = P + E /\ k \in 1..B
    BY <1>1, <1>2, <1>6, <1>8
  <2> HIDE DEF P, E, K, N, B
  <2>1. CASE k <= P
    <3>1. k \in 1..K /\ k \in 1..index - 1 /\ P # 0 /\ k \in 1..P
      BY <2>0, <2>1
    <3>2. SameUpTo(l, g, P)
      BY <1>7, <3>1 DEF P
    <3>3. both[k] = kept[k] /\ kept[k] = l[k]
      BY <1>2, <1>8, <3>1 DEF K
    <3> QED BY <3>1, <3>2, <3>3 DEF SameUpTo
  <2>2. CASE P < k /\ k <= P + n
    <3>1. k \in 1..K /\ k \in 1..index - 1 /\ k - P \in 1..n /\ k - P \in 1..E
          /\ P + (k - P) = k
      BY <2>0, <2>2
    <3>2. l[P + (k - P)] = e[k - P] /\ e[k - P] = g[P + (k - P)]
      BY <1>2, <1>4, <3>1 DEF P, E
    <3>3. both[k] = kept[k] /\ kept[k] = l[k]
      BY <1>2, <1>8, <3>1 DEF K
    <3> QED BY <3>1, <3>2, <3>3
  <2>3. CASE P + n < k
    <3>1. k \in K + 1..B /\ k - K \in 1..N /\ n + (k - K) = k - P /\ k - P \in 1..E
          /\ P + (k - P) = k
      BY <2>0, <2>3
    <3>2. both[k] = new[k - K]
      BY <1>8, <3>1 DEF K, B
    <3>3. new[k - K] = e[n + (k - K)] /\ e[k - P] = g[P + (k - P)]
      BY <1>2, <1>4, <3>1 DEF P, E, N
    <3> QED BY <3>1, <3>2, <3>3
  <2> QED BY <2>0, <2>1, <2>2, <2>3
<1>10. SameUpTo(both, g, Len(both)) /\ both \in Log
  <2>1. Len(both) <= Len(g) /\ Len(both) <= Len(both)
    BY <1>1, <1>4, <1>6, <1>8
  <2> QED BY <1>8, <1>9, <2>1 DEF SameUpTo, Log
<1>11. Matched(both, h)
  BY <1>4, <1>5, <1>10, MatchedPrefix
<1>12. SameUpTo(kept, l, Len(kept))
  <2>1. Len(kept) <= Len(l) /\ Len(kept) <= Len(kept) /\ \A k \in 1..Len(kept) : k \in 1..index - 1
    BY <1>1, <1>2, <1>6, SMTT(60)
  <2> QED BY <1>2, <2>1 DEF SameUpTo
<1>13. Matched(kept, h)
  BY <1>2, <1>4, <1>5, <1>12, MatchedPrefix
<1> QED BY <1>11, <1>13 DEF both, kept, new, i

LEMMA recvAppendEntriesMatch ==
  ASSUME TypeInv, TypeInv', Queues, conf' = conf, NEW h, Past(h), NEW m \in msgs,
         recvAppendEntries(m)
  PROVE  Past(h)'
<1> DEFINE i == m.to
<1>0. PICK v : History(h) /\ VotesCast(v) /\ Wins(h, v)
  BY DEF Past, Led
<1>1. m \in AppendEntries
  BY recvAppendEntriesCases DEF TypeInv, QueuesOK, AppendEntriesResult
<1>2. i \in Server /\ m.term \in Entry /\ m.type = "AppendEntries"
  BY <1>0, <1>1 DEF AppendEntries, History, Part
<1>3. \A x \in msgs' : x.type = "AppendEntries" => x \in msgs
  <2>1. \/ msgs' = msgs \ {m}
        \/ \E t, r, last : Send(msgs \ {m}, {result(i, m.from, t, r, last)})
    BY recvAppendEntriesCases
  <2>2. CASE msgs' = msgs \ {m}
    BY <2>2
  <2>3. ASSUME NEW t, NEW r, NEW last, Send(msgs \ {m}, {result(i, m.from, t, r, last)})
        PROVE  \A x \in msgs' : x.type = "AppendEntries" => x \in msgs
    <3> DEFINE new == {result(i, m.from, t, r, last)}
    <3>1. \A x \in new : x.type = "AppendEntriesResult"
      BY DEF result
    <3>2. Send(msgs \ {m}, new)
      BY <2>3
    <3> HIDE DEF new
    <3>3. msgs' \subseteq (msgs \ {m}) \cup new
      BY <3>2, SendSubset
    <3> QED BY <3>1, <3>3
  <2> QED BY <2>1, <2>2, <2>3
<1>4. CASE UNCHANGED <<electionVars, logVars, progress, diskVars>>
  <2>1. UNCHANGED <<state, currentTerm, votedFor, votes, log, diskVars>>
    BY <1>4 DEF electionVars, logVars
  <2> QED BY <1>2, <1>3, <2>1, MatchSends
<1>5. CASE m.term >= currentTerm[i] /\ convertToFollower(i, m.term, m.from)
  <2>1. /\ \A s \in Server : NoVote(s)
        /\ \A s \in Server : state'[s] = "leader" =>
             s # i /\ state[s] = "leader" /\ currentTerm'[s] = currentTerm[s]
    BY <1>2, <1>5, FollowerNoVote
  <2>2. CASE UNCHANGED <<log, disk, writes>>
    <3>1. QueueMatched(disk'[i], writes'[i], h)
      BY <1>0, <1>2, <2>2 DEF History
    <3> QED BY <1>0, <1>2, <1>3, <2>1, <2>2, <3>1, MatchOne
  <2>3. CASE /\ ~Conflicts(i, m) /\ Matches(i, m) /\ NewEntries(i, m) # << >>
             /\ log' = [log EXCEPT ![i] = Kept(i, m) \o NewEntries(i, m)]
             /\ writes' = [writes EXCEPT ![i] = @ \o Truncation(i, m) \o <<WriteOf(i, m)>>]
             /\ UNCHANGED disk
    <3> DEFINE w == WriteOf(i, m)
               ws == writes[i]
               l == log[i]
               index == FirstNew(i, m)
    <3>1. /\ index \in WriteIndex /\ index <= Len(l) + 1
          /\ InConflict(i, m) <=> index <= Len(l)
          /\ NewEntries(i, m) \in Log /\ Kept(i, m) \in Log
      BY <1>1, <2>3, NewEntriesFacts
    <3>2. w \in Write
      BY <1>1, <2>3, AppendFollowerFacts
    <3>3. w.op = "follower" /\ w.entries = NewEntries(i, m)
      BY DEF WriteOf
    <3>4. Matched(Kept(i, m) \o w.entries, h) /\ Matched(Kept(i, m), h)
      BY <1>0, <1>1, <2>3, <3>3, NewLogMatched
    <3> HIDE DEF i
    <3>5. l \in Log /\ disk[i] \in Log /\ ws \in Seq(Write)
      BY <1>2, LogFacts
    <3>6. QueueEndsInLog(disk[i], ws, l) /\ QueueMatched(disk[i], ws, h)
      BY <1>0, <1>2 DEF Queues, Queue, History
    <3>7. OnDisk(Kept(i, m), w) = Kept(i, m) \o w.entries
      BY <3>3 DEF OnDisk
    <3>8. QueueMatched(disk[i], ws \o Truncation(i, m) \o <<w>>, h)
      <4>1. CASE InConflict(i, m)
        <5> DEFINE t == [op |-> "truncate", index |-> index]
                   vs == Append(ws, t)
        <5>1. Truncation(i, m) = <<t>> /\ Kept(i, m) = Truncate(l, index)
          BY <4>1 DEF Truncation, Kept
        <5>2. t \in Write /\ OnDisk(l, t) = Kept(i, m)
          BY <3>1, <5>1 DEF Write, TruncateWrite, OnDisk
        <5> HIDE DEF t, w, index, l, ws
        <5>3. vs \in Seq(Write) /\ ws \o <<t>> \o <<w>> = Append(vs, w)
          BY <3>2, <3>5, <5>2
        <5> HIDE DEF vs
        <5>4. QueueMatched(disk[i], vs, h) /\ QueueEndsInLog(disk[i], vs, Kept(i, m))
          BY <3>4, <3>5, <3>6, <5>2, QueueMatchedAppend DEF vs
        <5>5. QueueMatched(disk[i], Append(vs, w), h)
          BY <3>1, <3>2, <3>4, <3>5, <3>7, <5>3, <5>4, QueueMatchedAppend
        <5> QED BY <5>1, <5>3, <5>5
      <4>2. CASE ~InConflict(i, m)
        <5>1. Truncation(i, m) = << >> /\ Kept(i, m) = l
          BY <4>2 DEF Truncation, Kept
        <5>2. ws \o << >> \o <<w>> = Append(ws, w)
          BY <3>5
        <5> HIDE DEF w, index, l, ws
        <5>3. QueueMatched(disk[i], Append(ws, w), h)
          BY <3>2, <3>4, <3>5, <3>6, <3>7, <5>1, QueueMatchedAppend
        <5> QED BY <5>1, <5>2, <5>3
      <4> QED BY <4>1, <4>2
    <3>9. disk'[i] = disk[i] /\ writes'[i] = ws \o Truncation(i, m) \o <<w>>
      BY <1>2, <2>3 DEF TypeInv, TypeOK, QueuesOK
    <3>10. \A k \in Server \ {i} : log'[k] = log[k] /\ writes'[k] = writes[k] /\ disk'[k] = disk[k]
      BY <2>3 DEF TypeInv, TypeOK, QueuesOK
    <3> QED BY <1>0, <1>2, <1>3, <2>1, <3>8, <3>9, <3>10, MatchOne
  <2> QED BY <1>5, <2>2, <2>3, recvAppendEntriesCases DEF logVars, diskVars
<1> QED BY <1>4, <1>5, recvAppendEntriesCases

\* A leader adds an entry of its term to its log.
LEMMA MatchedAppend ==
  ASSUME NEW h \in [Entry -> Log], NEW g \in [Entry -> Log], GrowsTo(h, g),
         NEW l \in Log, Matched(l, h), NEW t \in Entry, g[t] = Append(l, t)
  PROVE  Matched(g[t], g)
<1> DEFINE x == g[t]
<1>1. Len(l) \in Nat /\ l \in Seq(Entry)
  BY LogLen
<1>2. /\ Len(x) = Len(l) + 1 /\ x[Len(l) + 1] = t
      /\ \A k \in 1..Len(l) : x[k] = l[k]
  BY <1>1
<1> HIDE DEF x
<1>3. Matched(l, g)
  BY MatchedGrows
<1> SUFFICES ASSUME NEW k \in 1..Len(x) PROVE SameUpTo(x, g[x[k]], k)
  BY DEF Matched, x
<1>4. CASE k = Len(l) + 1
  <2>1. g[x[k]] = x /\ k <= Len(x)
    BY <1>1, <1>2, <1>4 DEF x
  <2> QED BY <2>1 DEF SameUpTo
<1>5. CASE k # Len(l) + 1
  <2>1. k \in 1..Len(l) /\ k \in Int
    BY <1>1, <1>2, <1>5
  <2>2. SameUpTo(x, l, k)
    BY <1>1, <1>2, <2>1 DEF SameUpTo
  <2>3. SameUpTo(l, g[l[k]], k) /\ x[k] = l[k]
    BY <1>2, <1>3, <2>1 DEF Matched
  <2> QED BY <2>1, <2>2, <2>3, SameTrans
<1> QED BY <1>4, <1>5

LEMMA Append1Match ==
  ASSUME TypeInv, TypeInv', Queues, conf' = conf,
         NEW h, NEW v, History(h), VotesCast(v), Wins(h, v), NEW i \in Server,
         NEW g, g = [h EXCEPT ![currentTerm[i]] = Append(log[i], currentTerm[i])],
         NEW prog \in [Server -> ProgressType], NEW due, Append1(i, prog, due),
         h[currentTerm[i]] = << >> \/ h[currentTerm[i]] = log[i],
         Quorum(Voters(v, currentTerm[i], i)), votes'[i] = {},
         UNCHANGED <<currentTerm, votedFor>>,
         \A s \in Server \ {i} :
           /\ state'[s] = state[s] /\ votes'[s] = votes[s]
           /\ state[s] = "leader" => currentTerm[s] # currentTerm[i]
  PROVE  Past(g)'
<1>t. PICK T : T = currentTerm[i]
  OBVIOUS
<1>l. PICK l : l = Append(log[i], T)
  OBVIOUS
<1>g. g = [h EXCEPT ![T] = l]
  BY <1>t, <1>l
<1>0. T \in Entry /\ Entry' = Entry /\ Entry \subseteq Nat
  BY <1>t, TermFacts, SetsKept
<1>1. h \in [Entry -> Log] /\ log[i] \in Log /\ Len(log[i]) \in Nat /\ log[i] \in Seq(Entry)
  BY LogFacts, LogLen DEF History
<1>2. /\ l \in Log /\ Len(l) = Len(log[i]) + 1 /\ l = log[i] \o <<T>>
      /\ \A k \in 1..Len(log[i]) : l[k] = log[i][k]
  BY <1>0, <1>1, <1>l, AppendProperties, AppendIsConcat, SMTT(60) DEF Log
<1>3. /\ g \in [Entry -> Log] /\ g[T] = l
      /\ \A t \in Entry : t # T => g[t] = h[t]
  BY <1>0, <1>1, <1>2, <1>g
<1>4. GrowsTo(h, g)
  <2> SUFFICES ASSUME NEW t \in Entry PROVE SameUpTo(g[t], h[t], Len(h[t]))
    BY DEF GrowsTo
  <2>1. CASE t # T
    <3>1. Len(h[t]) \in Nat
      BY <1>1, LogLen
    <3> QED BY <1>3, <2>1, <3>1 DEF SameUpTo
  <2>2. CASE t = T /\ h[T] = << >>
    <3>1. Len(h[t]) = 0 /\ Len(g[t]) \in Nat
      BY <1>1, <1>2, <1>3, <2>2
    <3> QED BY <3>1 DEF SameUpTo
  <2>3. CASE t = T /\ h[T] = log[i]
    BY <1>1, <1>2, <1>3, <2>3 DEF SameUpTo
  <2> QED BY <1>t, <2>1, <2>2, <2>3
<1>5. Matched(log[i], h) /\ \A t \in Entry : Matched(h[t], h)
  BY LogIsMatched DEF History
<1>6. Matched(g[T], g)
  BY <1>0, <1>1, <1>3, <1>4, <1>5, <1>l, MatchedAppend
<1>7. \A t \in Entry : Matched(g[t], g)
  <2> SUFFICES ASSUME NEW t \in Entry, t # T PROVE Matched(g[t], g)
    BY <1>6
  <2>1. h[t] \in Log /\ Matched(h[t], h) /\ g[t] = h[t]
    BY <1>1, <1>3, <1>5
  <2> QED BY <1>1, <1>3, <1>4, <2>1, MatchedGrows
<1> DEFINE w == [op |-> "leader", index |-> Len(l), entries |-> <<T>>]
           new == triggerAll(i, l, commitIndex[i], prog, due)
<1>8. /\ log' = [log EXCEPT ![i] = l] /\ disk' = disk
      /\ writes' = [writes EXCEPT ![i] = Append(@, w)]
      /\ Send(msgs, new)
  BY <1>t, <1>l DEF Append1
<1>9. w \in Write /\ OnDisk(log[i], w) = l
  <2>1. <<T>> \in Log
    BY <1>0 DEF Log
  <2>2. Len(l) \in WriteIndex
    <3>1. Len(log[i]) # 0
      BY LogFacts
    <3> QED BY <1>1, <1>2, <3>1 DEF WriteIndex
  <2> QED BY <1>2, <2>1, <2>2 DEF Write, LeaderWrite, OnDisk
<1>10. ASSUME NEW m \in msgs', m.type = "AppendEntries" PROVE m \in msgs \/ Part(m, g)
  <2>1. msgs' \subseteq msgs \cup new
    <3> HIDE DEF new
    <3> QED BY <1>8, SendSubset
  <2>2. CASE m \in msgs
    BY <2>2
  <2>3. CASE m \in new
    <3>1. PICK j \in Receivers(i, l, prog, due) :
            m = sendAppendEntries(i, j, l, commitIndex[i], prog[j])
      BY <2>3 DEF triggerAll
    <3>2. prog[j] \in ProgressType
      BY <3>1 DEF Receivers
    <3>3. g[currentTerm[i]] = l
      BY <1>3, <1>t
    <3> QED BY <1>2, <1>3, <3>1, <3>2, <3>3, SentPart
  <2> QED BY <2>1, <2>2, <2>3
<1> HIDE DEF w
<1>11. ASSUME NEW k \in Server PROVE QueueMatched(disk'[k], writes'[k], g)
  <2>1. /\ disk[k] \in Log /\ writes[k] \in Seq(Write) /\ QueueMatched(disk[k], writes[k], h)
    BY LogFacts DEF History
  <2>2. QueueMatched(disk[k], writes[k], g)
    BY <1>1, <1>3, <1>4, <2>1, QueueMatchedGrows
  <2>3. CASE k = i
    <3>1. QueueEndsInLog(disk[i], writes[i], log[i]) /\ Matched(OnDisk(log[i], w), g)
      BY <1>3, <1>6, <1>9 DEF Queues, Queue
    <3>2. QueueMatched(disk[i], Append(writes[i], w), g)
      BY <1>1, <1>9, <2>1, <2>2, <2>3, <3>1, QueueMatchedAppend
    <3>3. disk'[i] = disk[i] /\ writes'[i] = Append(writes[i], w)
      BY <1>8 DEF TypeInv, QueuesOK
    <3> QED BY <2>3, <3>2, <3>3
  <2>4. CASE k # i
    BY <1>8, <2>2, <2>4 DEF TypeInv, QueuesOK
  <2> QED BY <2>3, <2>4
<1>12. ASSUME NEW k \in Server, state'[k] = "leader" PROVE log'[k] = g[currentTerm'[k]]
  <2>1. CASE k = i
    BY <1>3, <1>8, <1>t, <2>1 DEF TypeInv, TypeOK
  <2>2. CASE k # i
    <3>1. log'[k] = log[k] /\ state[k] = "leader" /\ currentTerm[k] \in Entry /\ currentTerm[k] # T
      BY <1>8, <1>12, <1>t, <2>2, TermFacts DEF TypeInv, TypeOK
    <3> QED BY <1>3, <3>1 DEF History
  <2> QED BY <2>1, <2>2
<1>13. History(g)'
  BY <1>3, <1>4, <1>7, <1>10, <1>11, <1>12, HistoryStep
<1>14. VotesCast(v)'
  <2>1. v \in Ballots'
    BY SetsKept DEF VotesCast, Ballots
  <2>2. ASSUME NEW s \in Server
        PROVE  /\ v[currentTerm'[s]][s] = votedFor'[s]
               /\ \A t \in Entry : t > currentTerm'[s] => v[t][s] = None
               /\ \A x \in votes'[s] : v[currentTerm'[s]][x] = s
               /\ state'[s] = "leader" => Quorum(Voters(v, currentTerm'[s], s))
    BY DEF VotesCast
  <2> QED BY <1>0, <2>1, <2>2 DEF VotesCast, Quorum, Voters
<1>15. \A s \in Server, t \in Entry : Over(s, t) => Over(s, t)'
  BY DEF Over
<1>16. Wins(g, v)'
  <2>1. ASSUME NEW t \in Entry, g[t] # << >> PROVE Won(v, t)'
    <3>1. CASE t = T
      <4>1. Over(i, t)'
        <5>1. currentTerm'[i] = t /\ t \in Nat /\ votes'[i] = {}
          BY <1>0, <1>t, <3>1
        <5>2. currentTerm'[i] >= t
          BY <5>1
        <5> QED BY <5>1, <5>2 DEF Over
      <4>2. Quorum(Voters(v, t, i))'
        BY <1>t, <3>1 DEF Quorum, Voters
      <4> QED BY <4>1, <4>2 DEF Won
    <3>2. CASE t # T
      <4>1. Won(v, t)
        BY <1>3, <2>1, <3>2 DEF Wins
      <4> QED BY <1>15, <4>1, WonGrows
    <3> QED BY <3>1, <3>2
  <2> QED BY <1>0, <2>1 DEF Wins
<1> QED BY <1>13, <1>14, <1>16 DEF Past, Led

\* Two servers with a majority of the votes of a term are one.
LEMMA OneLeader ==
  ASSUME TypeInv, NEW v, VotesCast(v), NEW i \in Server,
         Quorum(Voters(v, currentTerm[i], i)), NEW s \in Server, s # i, state[s] = "leader"
  PROVE  currentTerm[s] # currentTerm[i]
<1>1. Quorum(Voters(v, currentTerm[s], s))
  BY DEF VotesCast
<1> QED BY <1>1, OneWinner

\* Nobody has led the term that a candidate wins.
LEMMA WinnerIsFirst ==
  ASSUME TypeInv, NEW h, NEW v, VotesCast(v), Wins(h, v), NEW i \in Server, Quorum(votes[i])
  PROVE  Quorum(Voters(v, currentTerm[i], i)) /\ h[currentTerm[i]] = << >>
<1>1. Quorum(Voters(v, currentTerm[i], i))
  <2>1. votes[i] \subseteq Voters(v, currentTerm[i], i)
        /\ Voters(v, currentTerm[i], i) \in SUBSET Server
    BY TermFacts DEF VotesCast, Voters
  <2> QED BY <2>1, QuorumMonotone
<1>2. h[currentTerm[i]] = << >>
  <2> SUFFICES ASSUME h[currentTerm[i]] # << >> PROVE FALSE
    OBVIOUS
  <2>1. Won(v, currentTerm[i])
    BY TermFacts DEF Wins
  <2>2. Over(i, currentTerm[i])
    <3>1. CASE \A s \in Server : Over(s, currentTerm[i])
      BY <3>1
    <3>2. ASSUME NEW l \in Server, Over(l, currentTerm[i]), Quorum(Voters(v, currentTerm[i], l))
          PROVE  Over(i, currentTerm[i])
      BY <1>1, <3>2, OneWinner
    <3> QED BY <2>1, <3>1, <3>2 DEF Won
  <2>3. votes[i] = {}
    BY <2>2 DEF Over
  <2> QED BY <2>3, QuorumNonEmpty
<1> QED BY <1>1, <1>2

LEMMA convertToLeaderMatch ==
  ASSUME TypeInv, TypeInv', Queues, conf' = conf, NEW h, Past(h), NEW i \in Server, convertToLeader(i),
         NEW g, g = [h EXCEPT ![currentTerm[i]] = Append(log[i], currentTerm[i])]
  PROVE  Past(g)'
<1>0. PICK v : History(h) /\ VotesCast(v) /\ Wins(h, v)
  BY DEF Past, Led
<1> DEFINE prog == progressBuildArray(i, Len(log[i]))
<1>1. /\ state[i] = "candidate" /\ Quorum(votes[i]) /\ Append1(i, prog, Server)
      /\ state' = [state EXCEPT ![i] = "leader"] /\ votes' = [votes EXCEPT ![i] = {}]
      /\ UNCHANGED <<currentTerm, votedFor>>
  BY DEF convertToLeader
<1>2. prog \in [Server -> ProgressType]
  <2>1. lastStored[i] \in Nat /\ Len(log[i]) \in Nat
    BY LogFacts
  <2> QED BY <2>1 DEF progressBuildArray, ProgressType
<1> HIDE DEF prog
<1>3. Quorum(Voters(v, currentTerm[i], i)) /\ h[currentTerm[i]] = << >>
  BY <1>0, <1>1, WinnerIsFirst
<1>5. \A s \in Server \ {i} :
        /\ state'[s] = state[s] /\ votes'[s] = votes[s]
        /\ state[s] = "leader" => currentTerm[s] # currentTerm[i]
  <2>1. \A s \in Server \ {i} : state'[s] = state[s] /\ votes'[s] = votes[s]
    BY <1>1 DEF TypeInv, TypeOK
  <2>2. \A s \in Server \ {i} : state[s] = "leader" => currentTerm[s] # currentTerm[i]
    BY <1>0, <1>3, OneLeader
  <2> QED BY <2>1, <2>2
<1>6. votes'[i] = {}
  BY <1>1 DEF TypeInv, TypeOK
<1> QED BY <1>0, <1>1, <1>2, <1>3, <1>5, <1>6, Append1Match

LEMMA raft_applyMatch ==
  ASSUME TypeInv, TypeInv', Queues, conf' = conf, NEW h, Past(h), NEW i \in Server, raft_apply(i),
         NEW g, g = [h EXCEPT ![currentTerm[i]] = Append(log[i], currentTerm[i])]
  PROVE  Past(g)'
<1>0. PICK v : History(h) /\ VotesCast(v) /\ Wins(h, v)
  BY DEF Past, Led
<1>1. /\ state[i] = "leader" /\ UNCHANGED <<state, currentTerm, votedFor, votes>>
      /\ \E due \in SUBSET (Server \ {i}) : Append1(i, progress[i], due)
  BY DEF raft_apply, electionVars
<1>2. PICK due \in SUBSET (Server \ {i}) : Append1(i, progress[i], due)
  BY <1>1
<1>3. progress[i] \in [Server -> ProgressType]
  BY DEF TypeInv, TypeOK, ProgressType
<1>4. Quorum(Voters(v, currentTerm[i], i)) /\ h[currentTerm[i]] = log[i]
  BY <1>0, <1>1 DEF VotesCast, History
<1>5. votes'[i] = {}
  BY <1>1 DEF TypeInv, TypeOK
<1>6. \A s \in Server \ {i} :
        /\ state'[s] = state[s] /\ votes'[s] = votes[s]
        /\ state[s] = "leader" => currentTerm[s] # currentTerm[i]
  BY <1>0, <1>1, <1>4, OneLeader
<1> QED BY <1>0, <1>1, <1>2, <1>3, <1>4, <1>5, <1>6, Append1Match

\* A message found in flight at the start is a part of the log it comes from.
LEMMA CarriesPart ==
  ASSUME NEW h \in [Entry -> Log], NEW m \in AppendEntries, Carries(m, h)
  PROVE  Part(m, h)
<1> DEFINE l == h[m.term]
           n == Len(m.entries)
<1>1. /\ m.term \in Entry /\ m.prev + n <= Len(l)
      /\ m.prevTerm = (IF m.prev = 0 THEN 0 ELSE l[m.prev])
      /\ m.entries = SubSeq(l, m.prev + 1, m.prev + n)
  BY DEF Carries
<1>2. l \in Seq(Entry) /\ Len(l) \in Nat /\ m.prev \in Nat /\ n \in Nat
  <2>1. m.entries \in Log /\ m.prev \in Nat /\ l \in Log
    BY <1>1 DEF AppendEntries
  <2> QED BY <2>1, LogLen
<1> HIDE DEF l, n
<1>3. m.prevTerm = TermAt(l, m.prev)
  <2>1. m.prev = 0 => m.prev \notin 1..Len(l)
    BY <1>2
  <2>2. m.prev # 0 => m.prev \in 1..Len(l)
    BY <1>1, <1>2, SMTT(60)
  <2> QED BY <1>1, <2>1, <2>2 DEF TermAt
<1>4. \A k \in 1..n : m.entries[k] = l[m.prev + k]
  <2>1. m.prev + 1 \in Nat \ {0} /\ m.prev + n \in Int
    BY <1>2
  <2> DEFINE f == m.prev + 1
             z == m.prev + n
             e == SubSeq(l, f, z)
  <2>a. l \in Seq(Entry) /\ f \in Nat \ {0} /\ z \in Int /\ z <= Len(l)
    BY <1>1, <1>2, <2>1
  <2>b. m.entries = e
    BY <1>1
  <2> HIDE DEF f, z
  <2>c. \A k \in 1..z - f + 1 : e[k] = l[f + k - 1]
    BY <2>a, SubSeqFacts
  <2>2. \A k \in 1..(m.prev + n) - (m.prev + 1) + 1 : m.entries[k] = l[m.prev + 1 + k - 1]
    BY <2>b, <2>c DEF f, z
  <2>3. \A k \in 1..n : k \in 1..(m.prev + n) - (m.prev + 1) + 1 /\ m.prev + 1 + k - 1 = m.prev + k
    BY <1>2
  <2> QED BY <2>2, <2>3
<1> QED BY <1>1, <1>3, <1>4 DEF Part, l, n

LEMMA InitMatch == Init => Past(Conf.past)
<1> SUFFICES ASSUME Init PROVE Past(Conf.past)
  OBVIOUS
<1>1. TypeInv /\ Queues /\ conf \in DOMAIN Configurations
  BY InitType, InitQueues DEF Init
<1> DEFINE h == Conf.past
           term == Conf.term
           vote == Conf.vote
<1>2. /\ h \in [Entry -> Log] /\ Conf.log \in [Server -> Log]
      /\ term \in [Server -> Entry] /\ vote \in [Server -> Server \cup {None}]
      /\ \A m \in Conf.msgs : m \in AppendEntries
  BY <1>1, StartFacts
<1>3. /\ state = [i \in Server |-> "follower"]
      /\ currentTerm = term /\ votedFor = vote /\ votes = [i \in Server |-> {}]
      /\ disk = Conf.log /\ log = Conf.log /\ writes = [i \in Server |-> << >>]
      /\ msgs = Conf.msgs
  BY DEF Init
<1> DEFINE voted(i, t, w) == term[i] > t \/ (term[i] = t /\ vote[i] = w)
           elected(t, w) == voted(w, t, w) /\ Quorum({i \in Server : voted(i, t, w)})
           winner(t) == IF \E w \in Server : elected(t, w)
                          THEN CHOOSE w \in Server : elected(t, w) ELSE None
<1>4. /\ DOMAIN h = Entry
      /\ \A i \in Server : Agrees(Conf.log[i], h)
      /\ \A t \in Entry : h[t] # << >> =>
           /\ Agrees(h[t], h)
           /\ \/ \A i \in Server : term[i] >= t
              \/ \E w \in Server : elected(t, w)
      /\ \A m \in Conf.msgs : Carries(m, h)
  <2>1. Restartable(Conf) /\ DOMAIN h = Entry
    BY <1>1, <1>2, ConfFacts
  <2> QED BY <2>1 DEF Restartable
<1> HIDE DEF h, term, vote
<1>5. History(h)
  <2>1. \A t \in Entry : Matched(h[t], h)
    <3> SUFFICES ASSUME NEW t \in Entry PROVE Matched(h[t], h)
      OBVIOUS
    <3>1. h[t] \in Log
      BY <1>2
    <3>2. CASE h[t] = << >>
      BY <3>2 DEF Matched
    <3>3. CASE h[t] # << >>
      BY <1>2, <1>4, <3>1, <3>3, AgreesMatched
    <3> QED BY <3>2, <3>3
  <2>2. ASSUME NEW i \in Server PROVE QueueMatched(disk[i], writes[i], h)
    <3>1. disk[i] \in Log /\ writes[i] = << >> /\ Agrees(disk[i], h)
      BY <1>2, <1>3, <1>4
    <3>2. Matched(disk[i], h)
      BY <1>2, <3>1, AgreesMatched
    <3> QED BY <3>1, <3>2, QueueMatchedEmpty
  <2>3. \A m \in msgs : m.type = "AppendEntries" => Part(m, h)
    BY <1>2, <1>3, <1>4, CarriesPart
  <2>4. \A i \in Server : state[i] # "leader"
    BY <1>3
  <2> QED BY <1>2, <2>1, <2>2, <2>3, <2>4 DEF History
<1>6. PICK v : v = [t \in Entry |-> [s \in Server |->
                      IF term[s] > t THEN winner(t) ELSE IF term[s] = t THEN vote[s] ELSE None]]
  OBVIOUS
<1>7. \A t \in Entry : /\ winner(t) \in Server \cup {None}
                       /\ (\E w \in Server : elected(t, w)) => winner(t) \in Server /\ elected(t, winner(t))
  <2> HIDE DEF elected
  <2> QED OBVIOUS
<1>8. Entry \subseteq Nat /\ \A s \in Server : term[s] \in Nat
  <2>1. Entry \subseteq Nat
    BY DEF Entry
  <2> QED BY <1>2, <2>1
<1> HIDE DEF winner
<1>9. VotesCast(v)
  <2>1. v \in Ballots
    BY <1>2, <1>6, <1>7 DEF Ballots
  <2>2. ASSUME NEW s \in Server
        PROVE  /\ v[currentTerm[s]][s] = votedFor[s]
               /\ \A t \in Entry : t > currentTerm[s] => v[t][s] = None
    <3>1. term[s] \in Entry /\ term[s] \in Nat /\ ~(term[s] > term[s])
      BY <1>2, <1>8
    <3>2. v[term[s]][s] = vote[s]
      BY <1>6, <3>1
    <3>3. ASSUME NEW t \in Entry, t > term[s] PROVE v[t][s] = None
      <4>1. ~(term[s] > t) /\ term[s] # t
        BY <1>8, <3>1, <3>3
      <4> QED BY <1>6, <4>1
    <3> QED BY <1>3, <3>2, <3>3
  <2>3. \A s \in Server : votes[s] = {} /\ state[s] # "leader"
    BY <1>3
  <2> QED BY <2>1, <2>2, <2>3 DEF VotesCast
<1>10. Wins(h, v)
  <2> SUFFICES ASSUME NEW t \in Entry, h[t] # << >> PROVE Won(v, t)
    BY DEF Wins
  <2>1. \A s \in Server : term[s] >= t => Over(s, t)
    BY <1>3 DEF Over
  <2>2. CASE \A s \in Server : term[s] >= t
    BY <2>1, <2>2 DEF Won
  <2>3. CASE \E w \in Server : elected(t, w)
    <3> DEFINE w == winner(t)
               S == {s \in Server : voted(s, t, w)}
    <3>1. w \in Server /\ voted(w, t, w) /\ Quorum(S)
      BY <1>7, <2>3
    <3> HIDE DEF w
    <3>2. \A s \in S : v[t][s] = w
      <4> SUFFICES ASSUME NEW s \in Server, voted(s, t, w) PROVE v[t][s] = w
        OBVIOUS
      <4>1. CASE term[s] > t
        BY <1>6, <4>1 DEF w
      <4>2. CASE term[s] = t /\ vote[s] = w
        <5>1. ~(term[s] > t)
          BY <1>8, <4>2
        <5> QED BY <1>6, <4>2, <5>1
      <4> QED BY <4>1, <4>2
    <3>3. Quorum(Voters(v, t, w))
      <4>1. S \subseteq Voters(v, t, w) /\ Voters(v, t, w) \in SUBSET Server
        BY <3>2 DEF Voters
      <4> HIDE DEF S
      <4> QED BY <3>1, <4>1, QuorumMonotone
    <3>4. term[w] >= t
      BY <1>8, <3>1
    <3> QED BY <2>1, <3>1, <3>3, <3>4 DEF Won
  <2> QED BY <1>4, <2>2, <2>3
<1> QED BY <1>5, <1>9, <1>10 DEF Past, Led, h

LEMMA StutterMatch ==
  ASSUME TypeInv, TypeInv', NEW h, Past(h), UNCHANGED vars
  PROVE  Past(h)'
<1>1. /\ UNCHANGED <<state, currentTerm, votedFor, votes, log, diskVars>>
      /\ conf' = conf /\ msgs' = msgs
  BY DEF vars, diskVars
<1>2. \E i : i \in Server
  <2>1. Server # {}
    BY ReplicationAssumption, FS_EmptySet
  <2> QED BY <2>1
<1> QED BY <1>1, <1>2, MatchSends

LEMMA NextMatch == TypeInv /\ TypeInv' /\ Queues /\ MatchInv /\ [Next]_vars => MatchInv'
<1> SUFFICES ASSUME TypeInv, TypeInv', Queues, MatchInv, [Next]_vars PROVE MatchInv'
  OBVIOUS
<1>0. PICK h : Past(h)
  BY DEF MatchInv
<1> SUFFICES \E g : Past(g)'
  BY DEF MatchInv
<1>1. CASE UNCHANGED vars
  BY <1>0, <1>1, StutterMatch
<1>2. CASE Next
  <2>0. conf' = conf /\ Up \subseteq Server
    BY <1>2 DEF Next, Up
  <2>1. ASSUME NEW i \in Up, NEW j \in Up, recvRequestVote(j, i) PROVE Past(h)'
    BY <1>0, <2>0, <2>1, recvRequestVoteMatch
  <2>2. ASSUME NEW i \in Up, NEW j \in Server, replicationHeartbeat(i, j) PROVE Past(h)'
    BY <1>0, <2>0, <2>2, replicationHeartbeatMatch
  <2>3. ASSUME NEW i \in Up, tick(i) \/ electionStart(i) \/ checkContactQuorum(i)
        PROVE  Past(h)'
    BY <1>0, <2>0, <2>3, tickMatch
  <2>4. ASSUME NEW i \in Up, convertToLeader(i) \/ raft_apply(i) PROVE \E g : Past(g)'
    <3>1. PICK g : g = [h EXCEPT ![currentTerm[i]] = Append(log[i], currentTerm[i])]
      OBVIOUS
    <3>2. Past(g)'
      BY <1>0, <2>0, <2>4, <3>1, convertToLeaderMatch, raft_applyMatch
    <3> QED BY <3>2
  <2>5. ASSUME NEW i \in Up, WriteCompletes(i) \/ WriteFails(i) \/ raft_start(i)
        PROVE  Past(h)'
    BY <1>0, <2>0, <2>5, WriteCompletesMatch, WriteFailsMatch, raft_startMatch
  <2>6. ASSUME NEW m \in msgs, recvAppendEntries(m) PROVE Past(h)'
    BY <1>0, <2>0, <2>6, recvAppendEntriesMatch
  <2>7. ASSUME NEW m \in msgs, recvAppendEntriesResult(m) PROVE Past(h)'
    BY <1>0, <2>0, <2>7, recvAppendEntriesResultMatch
  <2>8. ASSUME NEW m \in msgs, SendFails(m) \/ Lose(m) PROVE Past(h)'
    BY <1>0, <2>0, <2>8, LossMatch
  <2> QED BY <1>2, <2>1, <2>2, <2>3, <2>4, <2>5, <2>6, <2>7, <2>8 DEF Next
<1> QED BY <1>1, <1>2

LEMMA MatchInvariant == Spec => []MatchInv
<1>1. Init => MatchInv
  BY InitMatch DEF MatchInv
<1> QED BY <1>1, TypeInvariant, QueuesInvariant, NextMatch, PTL DEF Spec

\* Two logs in memory with the same entry at some index are the same up to it.
LEMMA MatchInvMatching == TypeInv /\ Queues /\ MatchInv => LogMatching
<1> SUFFICES ASSUME TypeInv, Queues, MatchInv, NEW i \in Server, NEW j \in Server,
                    NEW k \in 1..Min({Len(log[i]), Len(log[j])}), log[i][k] = log[j][k]
             PROVE  SubSeq(log[i], 1, k) = SubSeq(log[j], 1, k)
  BY DEF LogMatching
<1>0. PICK h : History(h)
  BY DEF MatchInv, Past
<1> DEFINE a == log[i]
           b == log[j]
<1>1. /\ a \in Log /\ b \in Log /\ a \in Seq(Entry) /\ b \in Seq(Entry)
      /\ Len(a) \in Nat /\ Len(b) \in Nat /\ h \in [Entry -> Log]
      /\ Matched(a, h) /\ Matched(b, h)
  BY <1>0, LogFacts, LogLen, LogIsMatched DEF History
<1>a. Min({Len(a), Len(b)}) = IF Len(a) <= Len(b) THEN Len(a) ELSE Len(b)
  <2>1. Len(a) \in Int /\ Len(b) \in Int
    BY <1>1
  <2> HIDE DEF a, b
  <2> QED BY <2>1, MinOfTwo
<1>2. k \in 1..Len(a) /\ k <= Len(b) /\ a[k] = b[k] /\ k \in Int
  BY <1>1, <1>a
<1> HIDE DEF a, b
<1>3. SameUpTo(a, b, k)
  BY <1>1, <1>2, MatchedSame
<1> DEFINE x == SubSeq(a, 1, k)
           y == SubSeq(b, 1, k)
<1>4. /\ x \in Seq(Entry) /\ Len(x) = k /\ \A n \in 1..k - 1 + 1 : x[n] = a[1 + n - 1]
      /\ y \in Seq(Entry) /\ Len(y) = k /\ \A n \in 1..k - 1 + 1 : y[n] = b[1 + n - 1]
  <2>1. 1 \in Nat \ {0} /\ k <= Len(a) /\ 1 <= k /\ k - 1 + 1 = k
    BY <1>1, <1>2
  <2> QED BY <1>1, <1>2, <2>1, SubSeqFacts
<1>5. \A n \in 1..k : x[n] = y[n]
  <2>1. \A n \in 1..k : n \in 1..k - 1 + 1 /\ 1 + n - 1 = n
    BY <1>2
  <2> HIDE DEF x, y
  <2> QED BY <1>3, <1>4, <2>1 DEF SameUpTo
<1>6. x = y
  <2> HIDE DEF x, y
  <2> QED BY <1>4, <1>5, SeqEqual
<1> QED BY <1>6 DEF a, b

\* Log Matching: whatever crashes, fails, is lost or reordered, two servers whose
\* logs have the same entry at some index agree on all the entries before it.
THEOREM LogMatchingSafe == Spec => []LogMatching
  BY TypeInvariant, QueuesInvariant, MatchInvariant, MatchInvMatching, PTL

-------------------------------------------------------------------------------
(***************************************************************************)
(* What last_stored claims is on disk, as long as no server has two          *)
(* truncations in flight.  With two, updateLastStored can count an entry     *)
(* twice: one that was truncated and appended again while the write of its   *)
(* first copy was still going on.                                            *)
(***************************************************************************)

\* At most one truncation is in flight to the disk of each server.
OneCut(ws) ==
  \A j, k \in 1..Len(ws) : ws[j].op = "truncate" /\ ws[k].op = "truncate" => j = k

OneTruncation == \A i \in Server : OneCut(writes[i])

(* The inductive invariant, for the disk d, the queue ws, the log l in memory and
   the value s of last_stored. *)

\* s is the end of the disk, or the lowest truncation in the queue.
Floor(d, ws, s) ==
  /\ s <= Len(d)
  /\ \A k \in 1..Len(ws) : ws[k].op = "truncate" => s < ws[k].index
  /\ \/ s = Len(d)
     \/ \E k \in 1..Len(ws) : ws[k].op = "truncate" /\ s = ws[k].index - 1

\* A truncation behind other operations cuts off an entry that differs from the
\* one in memory.
CutsDiffer(d, ws, l) ==
  \A k \in 2..Len(ws) :
    ws[k].op = "truncate" =>
      LET x == Replay(d, ws)[k - 1]
      IN  /\ ws[k].index <= Len(x) /\ ws[k].index <= Len(l)
          /\ x[ws[k].index] # l[ws[k].index]

Stored(d, ws, l, s) == s \in Nat /\ Floor(d, ws, s) /\ CutsDiffer(d, ws, l)

LEMMA WriteFacts ==
  ASSUME NEW w \in Write
  PROVE  /\ w.index \in WriteIndex /\ w.index \in Nat \ {0}
         /\ w.op # "truncate" => w.entries \in Log
  BY DEF Write, WriteIndex, LeaderWrite, FollowerWrite, TruncateWrite

LEMMA ConcatFacts ==
  ASSUME NEW S, NEW a \in Seq(S), NEW b \in Seq(S)
  PROVE  /\ Len(a \o b) = Len(a) + Len(b)
         /\ \A k \in 1..Len(b) : (a \o b)[Len(a) + k] = b[k]
  OBVIOUS

\* What last_stored claims is on disk.
LEMMA StoredSound ==
  ASSUME NEW d \in Log, NEW ws \in Seq(Write), NEW l \in Log, QueueEndsInLog(d, ws, l),
         NEW s, Stored(d, ws, l, s)
  PROVE  SameUpTo(l, d, s)
<1>1. /\ Replay(d, ws)[0] = d /\ Replay(d, ws)[Len(ws)] = l /\ Len(ws) \in Nat
  BY ReplayStep DEF QueueEndsInLog
<1>2. /\ 0 \in 0..Len(ws) /\ Len(ws) \in 0..Len(ws) /\ s \in Nat /\ s <= Len(Replay(d, ws)[0])
      /\ \A k \in 0 + 1..Len(ws) : k \in 1..Len(ws)
  BY <1>1 DEF Stored, Floor
<1>3. \A k \in 0 + 1..Len(ws) : ws[k].op = "truncate" => s < ws[k].index
  BY <1>2 DEF Stored, Floor
<1>4. SameUpTo(Replay(d, ws)[Len(ws)], Replay(d, ws)[0], s)
  BY <1>2, <1>3, ReplayFloor
<1> QED BY <1>1, <1>4

LEMMA StoredEmpty ==
  ASSUME NEW d \in Log
  PROVE  Stored(d, << >>, d, Len(d))
<1>1. Len(d) \in Nat /\ Len(<< >>) = 0
  BY LogLen
<1> QED BY <1>1 DEF Stored, Floor, CutsDiffer

\* An append goes to the end of the queue.
LEMMA StoredAppend ==
  ASSUME NEW d \in Log, NEW ws \in Seq(Write), NEW l \in Log, NEW s, Stored(d, ws, l, s),
         NEW w \in Write, w.op # "truncate"
  PROVE  Stored(d, Append(ws, w), l \o w.entries, s)
<1> DEFINE vs == Append(ws, w)
           n == Len(ws)
           x == l \o w.entries
<1>1. /\ vs \in Seq(Write) /\ Len(vs) = n + 1 /\ n \in Nat /\ vs[n + 1] = w
      /\ \A k \in 1..n : vs[k] = ws[k]
  OBVIOUS
<1>2. /\ Len(l) \in Nat /\ Len(x) \in Nat /\ Len(l) <= Len(x)
      /\ \A k \in 1..Len(l) : x[k] = l[k]
  <2>1. w.entries \in Seq(Entry) /\ Len(w.entries) \in Nat /\ l \in Seq(Entry) /\ Len(l) \in Nat
    BY WriteFacts, LogLen
  <2> QED BY <2>1
<1> HIDE DEF vs, x
<1>3. \A k \in 0..n : Replay(d, vs)[k] = Replay(d, ws)[k]
  <2>1. n <= Len(ws) /\ n <= Len(vs) /\ \A k \in 1..n : vs[k] = ws[k]
    BY <1>1
  <2> QED BY <1>1, <2>1, ReplayPrefix
<1>4. \A k \in 1..Len(vs) : vs[k].op = "truncate" => k \in 1..n /\ vs[k] = ws[k]
  BY <1>1
<1>5. Floor(d, vs, s)
  <2>1. \A k \in 1..n : k \in 1..Len(vs)
    BY <1>1
  <2> QED BY <1>1, <1>4, <2>1 DEF Stored, Floor
<1>6. CutsDiffer(d, vs, x)
  <2> SUFFICES ASSUME NEW k \in 2..Len(vs), vs[k].op = "truncate"
               PROVE  LET y == Replay(d, vs)[k - 1]
                      IN  /\ vs[k].index <= Len(y) /\ vs[k].index <= Len(x)
                          /\ y[vs[k].index] # x[vs[k].index]
    BY DEF CutsDiffer
  <2>1. k \in 2..n /\ k \in 1..n /\ vs[k] = ws[k] /\ k - 1 \in 0..n
    BY <1>1, <1>4
  <2> DEFINE y == Replay(d, ws)[k - 1]
             t == ws[k].index
  <2>2. Replay(d, vs)[k - 1] = y
    BY <1>3, <2>1
  <2>3. t <= Len(y) /\ t <= Len(l) /\ y[t] # l[t] /\ t \in Nat \ {0}
    BY <2>1, WriteFacts DEF Stored, CutsDiffer
  <2> HIDE DEF y, t
  <2>4. t \in 1..Len(l) /\ t <= Len(x)
    BY <1>2, <2>3
  <2> QED BY <1>2, <2>1, <2>2, <2>3, <2>4 DEF t
<1> QED BY <1>5, <1>6 DEF Stored, vs, x

\* deleteConflictingEntries and the append that follows it, when no truncation is
\* in the queue yet.
LEMMA StoredReplace ==
  ASSUME NEW d \in Log, NEW ws \in Seq(Write), NEW l \in Log, QueueEndsInLog(d, ws, l),
         NEW s, Stored(d, ws, l, s), \A k \in 1..Len(ws) : ws[k].op # "truncate",
         NEW t \in Write, t.op = "truncate", NEW w \in Write, w.op # "truncate",
         t.index <= Len(l), w.entries # << >>, w.entries[1] # l[t.index]
  PROVE  Stored(d, ws \o <<t>> \o <<w>>, Truncate(l, t.index) \o w.entries,
                IF s <= t.index - 1 THEN s ELSE t.index - 1)
<1> DEFINE us == Append(ws, t)
           n == Len(ws)
           x == Truncate(l, t.index)
           z == IF s <= t.index - 1 THEN s ELSE t.index - 1
           vs == Append(us, w)
           y == x \o w.entries
<1>0. ws \o <<t>> \o <<w>> = Append(Append(ws, t), w)
  OBVIOUS
<1>1. /\ us \in Seq(Write) /\ Len(us) = n + 1 /\ n \in Nat /\ us[n + 1] = t
      /\ \A k \in 1..n : us[k] = ws[k]
  OBVIOUS
<1> HIDE DEF us
<1>2. /\ vs \in Seq(Write) /\ Len(vs) = n + 2 /\ vs[n + 1] = t /\ vs[n + 2] = w
      /\ \A k \in 1..n : vs[k] = ws[k]
  BY <1>1
<1>3. t.index \in Nat \ {0, 1} /\ w.entries \in Log /\ w.entries \in Seq(Entry) /\ Len(w.entries) \in Nat
  BY WriteFacts, LogLen DEF WriteIndex
<1>4. l \in Seq(Entry) /\ Len(l) \in Nat /\ Len(d) \in Nat
  BY LogLen
<1>5. x \in Seq(Entry) /\ Len(x) = t.index - 1
  <2>1. t.index \in Nat \ {0} /\ t.index - 1 <= Len(l)
    BY <1>3, <1>4
  <2> QED BY <1>4, <2>1, TruncateFacts
<1> HIDE DEF x
<1>6. /\ Len(y) = t.index - 1 + Len(w.entries) /\ Len(w.entries) > 0
      /\ y[t.index] = w.entries[1]
  <2> DEFINE e == w.entries
  <2>1. e \in Seq(Entry) /\ Len(e) \in Nat /\ Len(e) > 0 /\ y = x \o e
    BY <1>3
  <2> HIDE DEF e, y
  <2>2. /\ Len(y) = Len(x) + Len(e)
        /\ \A k \in 1..Len(e) : y[Len(x) + k] = e[k]
    <3>1. x \in Seq(Entry) /\ e \in Seq(Entry)
      BY <1>5, <2>1
    <3>2. /\ Len(x \o e) = Len(x) + Len(e)
          /\ \A k \in 1..Len(e) : (x \o e)[Len(x) + k] = e[k]
      BY <3>1, ConcatFacts
    <3> QED BY <2>1, <3>2
  <2>3. 1 \in 1..Len(e) /\ Len(x) + 1 = t.index
    BY <1>3, <1>5, <2>1
  <2>4. Len(y) = t.index - 1 + Len(e) /\ y[t.index] = e[1]
    BY <1>5, <2>2, <2>3
  <2> QED BY <2>1, <2>4 DEF e
<1> HIDE DEF vs, y
<1>7. s \in Nat /\ s = Len(d)
  BY DEF Stored, Floor
<1>8. \A k \in 1..Len(vs) : vs[k].op = "truncate" <=> k = n + 1
  <2>1. \A k \in 1..Len(vs) : k \in 1..n \/ k = n + 1 \/ k = n + 2
    BY <1>1, <1>2
  <2> QED BY <1>1, <1>2, <2>1
<1>9. z \in Nat /\ Floor(d, vs, z)
  <2>1. n + 1 \in 1..Len(vs)
    BY <1>1, <1>2
  <2>2. z \in Nat /\ z <= Len(d) /\ z < t.index /\ (z = Len(d) \/ z = t.index - 1)
    BY <1>3, <1>4, <1>7
  <2> HIDE DEF z
  <2> QED BY <1>2, <1>8, <2>1, <2>2 DEF Floor
<1>10. CutsDiffer(d, vs, y)
  <2> SUFFICES ASSUME NEW k \in 2..Len(vs), vs[k].op = "truncate"
               PROVE  LET u == Replay(d, vs)[k - 1]
                      IN  /\ vs[k].index <= Len(u) /\ vs[k].index <= Len(y)
                          /\ u[vs[k].index] # y[vs[k].index]
    BY DEF CutsDiffer
  <2>1. k = n + 1 /\ vs[k] = t /\ k - 1 = n
    <3>1. k \in 1..Len(vs)
      BY <1>1, <1>2
    <3> QED BY <1>1, <1>2, <1>8, <3>1
  <2>2. Replay(d, vs)[n] = l
    <3>1. n <= Len(ws) /\ n <= Len(vs) /\ (\A j \in 1..n : vs[j] = ws[j]) /\ n \in 0..n
      BY <1>1, <1>2
    <3>2. \A j \in 0..n : Replay(d, vs)[j] = Replay(d, ws)[j]
      BY <1>1, <1>2, <3>1, ReplayPrefix
    <3> QED BY <3>1, <3>2 DEF QueueEndsInLog
  <2>3. t.index <= Len(y)
    BY <1>3, <1>6
  <2> QED BY <1>6, <2>1, <2>2, <2>3
<1> QED BY <1>0, <1>9, <1>10 DEF Stored, vs, us, y, x

\* The loop of updateLastStored counts the entries up to c, if those are the ones
\* that are still in the log.
LEMMA MatchingCount ==
  ASSUME NEW l \in Log, NEW a \in Nat, NEW entries \in Seq(Entry), NEW c \in Nat,
         c <= a + Len(entries),
         \A k \in 1..Len(entries) : TermAt(l, a + k) = entries[k] <=> a + k <= c
  PROVE  Matching(l, a + 1, entries) = IF c <= a THEN 0 ELSE c - a
<1> DEFINE m == Matching(l, a + 1, entries)
<1>1. /\ m \in 0..Len(entries)
      /\ \A k \in 1..m : TermAt(l, a + 1 + k - 1) = entries[k]
      /\ m < Len(entries) => TermAt(l, a + 1 + m) # entries[m + 1]
  <2>1. a + 1 \in Nat \ {0}
    OBVIOUS
  <2> QED BY <2>1, MatchingFacts
<1> HIDE DEF m
<1>2. Len(entries) \in Nat /\ m \in Nat
  BY <1>1
<1>3. m > 0 => a + m <= c
  <2> HAVE m > 0
  <2>1. m \in 1..m /\ a + 1 + m - 1 = a + m /\ m \in 1..Len(entries)
    BY <1>1, <1>2
  <2> QED BY <1>1, <2>1
<1>4. m < Len(entries) => ~(a + (m + 1) <= c)
  <2> HAVE m < Len(entries)
  <2>1. m + 1 \in 1..Len(entries) /\ a + 1 + m = a + (m + 1)
    BY <1>1, <1>2
  <2> QED BY <1>1, <2>1
<1>5. m = IF c <= a THEN 0 ELSE c - a
  BY <1>1, <1>2, <1>3, <1>4
<1> QED BY <1>5 DEF m

LEMMA CutsDifferTail ==
  ASSUME NEW d \in Log, NEW ws \in Seq(Write), NEW l, CutsDiffer(d, ws, l), ws # << >>
  PROVE  CutsDiffer(OnDisk(d, Head(ws)), Tail(ws), l)
<1> DEFINE vs == Tail(ws)
           e == OnDisk(d, Head(ws))
<1>1. /\ vs \in Seq(Write) /\ Len(vs) = Len(ws) - 1 /\ Len(ws) \in Nat \ {0}
      /\ \A k \in 1..Len(ws) - 1 : vs[k] = ws[k + 1]
  OBVIOUS
<1>2. \A n \in 0..Len(ws) - 1 : Replay(e, vs)[n] = Replay(d, ws)[n + 1]
  BY ReplayTail
<1> HIDE DEF vs, e
<1>3. CutsDiffer(e, vs, l)
  <2> SUFFICES ASSUME NEW k \in 2..Len(vs), vs[k].op = "truncate"
               PROVE  LET x == Replay(e, vs)[k - 1]
                      IN  /\ vs[k].index <= Len(x) /\ vs[k].index <= Len(l)
                          /\ x[vs[k].index] # l[vs[k].index]
    BY DEF CutsDiffer
  <2>1. /\ vs[k] = ws[k + 1] /\ k + 1 \in 2..Len(ws) /\ k - 1 \in 0..Len(ws) - 1
        /\ k + 1 - 1 = k /\ k - 1 + 1 = k
    BY <1>1
  <2>2. Replay(e, vs)[k - 1] = Replay(d, ws)[k + 1 - 1]
    BY <1>2, <2>1
  <2> QED BY <2>1, <2>2 DEF CutsDiffer
<1> QED BY <1>3 DEF vs, e

\* The truncation is done.
LEMMA StoredCutDone ==
  ASSUME NEW d \in Log, NEW ws \in Seq(Write), NEW l, OneCut(ws), NEW s, Stored(d, ws, l, s),
         ws # << >>, Head(ws).op = "truncate"
  PROVE  Stored(OnDisk(d, Head(ws)), Tail(ws), l, s)
<1> DEFINE vs == Tail(ws)
           w == Head(ws)
           e == OnDisk(d, w)
<1>1. /\ vs \in Seq(Write) /\ Len(vs) = Len(ws) - 1 /\ Len(ws) \in Nat \ {0}
      /\ w \in Write /\ w = ws[1] /\ \A k \in 1..Len(ws) - 1 : vs[k] = ws[k + 1]
  OBVIOUS
<1>2. CutsDiffer(e, vs, l)
  BY CutsDifferTail DEF Stored
<1>3. /\ w.index \in WriteIndex /\ Len(d) \in Nat /\ Len(e) \in Nat
      /\ Len(e) = IF w.index - 1 <= Len(d) THEN w.index - 1 ELSE Len(d)
  BY <1>1, OnDiskFacts
<1> HIDE DEF vs, e, w
<1>4. \A k \in 1..Len(ws) : ws[k].op = "truncate" <=> k = 1
  <2>1. 1 \in 1..Len(ws) /\ ws[1].op = "truncate"
    BY <1>1 DEF w
  <2> QED BY <2>1 DEF OneCut
<1>5. \A k \in 1..Len(vs) : vs[k].op # "truncate"
  <2>1. \A k \in 1..Len(vs) : k + 1 \in 1..Len(ws) /\ k + 1 # 1 /\ vs[k] = ws[k + 1]
    BY <1>1
  <2> QED BY <1>4, <2>1
<1>6. s \in Nat /\ s <= Len(d) /\ s < w.index /\ (s = Len(d) \/ s = w.index - 1)
  <2>1. 1 \in 1..Len(ws) /\ ws[1].op = "truncate" /\ w = ws[1]
    BY <1>1, <1>4
  <2> QED BY <1>4, <2>1 DEF Stored, Floor
<1>7. s = Len(e)
  BY <1>3, <1>6 DEF WriteIndex
<1>8. Floor(e, vs, s)
  BY <1>3, <1>5, <1>7 DEF Floor
<1> QED BY <1>2, <1>6, <1>8 DEF Stored, vs, e, w

\* A write is done: last_stored goes up by what is still in the log.
LEMMA StoredAppendDone ==
  ASSUME NEW d \in Log, NEW ws \in Seq(Write), NEW l \in Log, Queue(d, ws, l), OneCut(ws),
         NEW s, Stored(d, ws, l, s), ws # << >>, Head(ws).op # "truncate",
         NEW h \in [Entry -> Log], Matched(l, h), QueueMatched(d, ws, h)
  PROVE  Stored(OnDisk(d, Head(ws)), Tail(ws), l,
                s + Matching(l, Head(ws).index, Head(ws).entries))
<1> DEFINE vs == Tail(ws)
           w == Head(ws)
           e == OnDisk(d, w)
           r == Replay(d, ws)
           n == Len(ws)
           a == Len(d)
           es == w.entries
           m == Matching(l, w.index, es)
<1>1. /\ vs \in Seq(Write) /\ Len(vs) = n - 1 /\ n \in Nat \ {0}
      /\ w \in Write /\ w = ws[1] /\ \A k \in 1..n - 1 : vs[k] = ws[k + 1]
  OBVIOUS
<1>2. CutsDiffer(e, vs, l)
  BY CutsDifferTail DEF Stored
<1>3. /\ e \in Log /\ es \in Seq(Entry) /\ Len(es) \in Nat /\ a \in Nat
      /\ Len(e) = a + Len(es) /\ \A k \in 1..Len(es) : e[a + k] = es[k]
  BY <1>1, OnDiskFacts DEF Log
<1>4. r[0] = d /\ r[1] = e /\ r[n] = l
  <2>1. 1 \in 1..n /\ 1 - 1 = 0
    BY <1>1
  <2> QED BY <1>1, <2>1, ReplayStep DEF Queue, QueueEndsInLog
<1>5. w.index = a + 1
  <2>1. 1 \in 1..Len(ws) /\ ws[1].op # "truncate" /\ 1 - 1 = 0
    BY <1>1
  <2>2. ws[1].index = Len(Replay(d, ws)[1 - 1]) + 1
    BY <2>1 DEF Queue, AppendsAtEnd
  <2> QED BY <1>1, <1>4, <2>1, <2>2
<1>6. Matched(e, h)
  <2>1. 1 \in 0..Len(ws)
    BY <1>1
  <2> QED BY <1>4, <2>1 DEF QueueMatched
<1>7. \A k \in 1..n : ws[k].index \in Nat \ {0}
  BY WriteFacts
<1>8. Len(l) \in Nat /\ \A k \in 1..Len(l) : l[k] \in Entry
  BY LogLen
<1> HIDE DEF vs, w, e, n, a, es
<1>9. \A k \in 1..Len(es) : es[k] # 0
  <2>1. \A k \in 1..Len(es) : es[k] \in Entry
    BY <1>3
  <2>2. 0 \notin Entry
    BY DEF Entry
  <2> QED BY <2>1, <2>2
<1>10. /\ s \in Nat /\ s <= a
       /\ \A k \in 1..n : ws[k].op = "truncate" => s < ws[k].index
       /\ s = a \/ \E k \in 1..n : ws[k].op = "truncate" /\ s = ws[k].index - 1
  BY DEF Stored, Floor, n, a
<1>11. ASSUME NEW c \in Nat, c <= Len(e), NEW b \in 1..n,
              \A k \in 1 + 1..b : ws[k].op = "truncate" => c < ws[k].index
       PROVE  SameUpTo(r[b], e, c)
  <2>1. 1 \in 0..Len(ws) /\ b \in 1..Len(ws) /\ c <= Len(Replay(d, ws)[1])
    BY <1>1, <1>4, <1>11 DEF n
  <2>2. SameUpTo(Replay(d, ws)[b], Replay(d, ws)[1], c)
    BY <1>11, <2>1, ReplayFloor
  <2> QED BY <1>4, <2>2
<1>12. ASSUME NEW c \in Nat, c <= a + Len(es),
              \A j \in a + 1..Len(e) : TermAt(l, j) = e[j] <=> j <= c
       PROVE  m = IF c <= a THEN 0 ELSE c - a
  <2>1. ASSUME NEW k \in 1..Len(es) PROVE TermAt(l, a + k) = es[k] <=> a + k <= c
    <3>1. a + k \in a + 1..Len(e) /\ e[a + k] = es[k]
      BY <1>3
    <3> QED BY <1>12, <3>1
  <2> QED BY <1>3, <1>5, <1>12, <2>1, MatchingCount
<1>13. ASSUME NEW c \in Nat, SameUpTo(l, e, c), NEW j \in a + 1..Len(e), j <= c
       PROVE  TermAt(l, j) = e[j]
  <2>1. j \in 1..Len(l) /\ j \in 1..c
    BY <1>3, <1>8, <1>13 DEF SameUpTo
  <2> QED BY <1>13, <2>1 DEF SameUpTo, TermAt
<1> HIDE DEF r, m
<1>14. CASE \A k \in 1..n : ws[k].op # "truncate"
  <2>1. s = a
    BY <1>10, <1>14
  <2>2. Len(e) \in Nat /\ n \in 1..n /\ \A k \in 1 + 1..n : k \in 1..n
    BY <1>1, <1>3
  <2>3. SameUpTo(l, e, Len(e))
    BY <1>4, <1>11, <1>14, <2>2
  <2>4. \A j \in a + 1..Len(e) : TermAt(l, j) = e[j] <=> j <= Len(e)
    BY <1>3, <1>13, <2>2, <2>3
  <2>5. m = IF Len(e) <= a THEN 0 ELSE Len(e) - a
    <3>1. Len(e) <= a + Len(es)
      BY <1>3
    <3> QED BY <1>12, <2>2, <2>4, <3>1
  <2>6. s + m = Len(e)
    BY <1>3, <2>1, <2>5
  <2>7. \A k \in 1..Len(vs) : vs[k].op # "truncate"
    <3>1. \A k \in 1..Len(vs) : k + 1 \in 1..n /\ vs[k] = ws[k + 1]
      BY <1>1
    <3> QED BY <1>14, <3>1
  <2>8. s + m \in Nat /\ Floor(e, vs, s + m)
    BY <2>2, <2>6, <2>7 DEF Floor
  <2> QED BY <1>2, <2>8 DEF Stored, vs, w, e, m, es
<1>15. CASE \E k \in 1..n : ws[k].op = "truncate"
  <2>1. PICK k \in 1..n : ws[k].op = "truncate"
    BY <1>15
  <2> DEFINE t == ws[k].index
             x == r[k - 1]
             c == IF t - 1 <= Len(e) THEN t - 1 ELSE Len(e)
  <2>2. k # 1 /\ k \in 2..n /\ k - 1 \in 1..n
    BY <1>1, <2>1 DEF w
  <2>3. \A j \in 1..n : ws[j].op = "truncate" => j = k
    BY <2>1 DEF OneCut, n
  <2>4. t \in Nat \ {0} /\ s < t /\ (s = a \/ s = t - 1)
    BY <1>7, <1>10, <2>1, <2>3
  <2>5. t <= Len(x) /\ t <= Len(l) /\ x[t] # l[t]
    BY <2>1, <2>2 DEF Stored, CutsDiffer, n, r
  <2>6. Len(e) \in Nat
    BY <1>3
  <2> HIDE DEF t, x
  <2>7. c \in Nat /\ c <= Len(e) /\ c < t /\ (c < Len(e) => c = t - 1)
    BY <2>4, <2>6
  <2> HIDE DEF c
  <2>8. SameUpTo(l, e, c)
    <3>1. \A j \in 1 + 1..n : ws[j].op = "truncate" => c < ws[j].index
      <4>1. \A j \in 1 + 1..n : j \in 1..n
        BY <1>1
      <4> QED BY <2>3, <2>7, <4>1 DEF t
    <3>2. n \in 1..n
      BY <1>1
    <3> QED BY <1>4, <1>11, <2>7, <3>1, <3>2
  <2>9. SameUpTo(x, e, Len(e))
    <3>1. \A j \in 1 + 1..k - 1 : j \in 1..n /\ j # k
      BY <1>1, <2>1
    <3>2. \A j \in 1 + 1..k - 1 : ws[j].op = "truncate" => Len(e) < ws[j].index
      BY <2>3, <3>1
    <3>3. Len(e) <= Len(e)
      BY <2>6
    <3> QED BY <1>11, <2>2, <2>6, <3>2, <3>3 DEF x
  <2>10. ASSUME NEW j \in a + 1..Len(e), TermAt(l, j) = e[j] PROVE j <= c
    <3> SUFFICES ASSUME ~(j <= c) PROVE FALSE
      OBVIOUS
    <3>1. c = t - 1 /\ t <= j /\ j \in Nat \ {0} /\ j <= Len(e) /\ t \in 1..j /\ t \in 1..Len(e)
      BY <1>3, <2>4, <2>6, <2>7
    <3>2. j \in 1..Len(l) /\ l[j] = e[j]
      <4>1. j - a \in 1..Len(es) /\ a + (j - a) = j
        BY <1>3
      <4>2. e[j] # 0
        BY <1>3, <1>9, <4>1
      <4> QED BY <2>10, <4>2 DEF TermAt
    <3>3. SameUpTo(l, e, j)
      BY <1>3, <1>6, <3>1, <3>2, MatchedSame
    <3>4. l[t] = e[t] /\ x[t] = e[t]
      BY <2>9, <3>1, <3>3 DEF SameUpTo
    <3> QED BY <2>5, <3>4
  <2>11. m = IF c <= a THEN 0 ELSE c - a
    <3>1. \A j \in a + 1..Len(e) : TermAt(l, j) = e[j] <=> j <= c
      BY <1>13, <2>7, <2>8, <2>10
    <3>2. c <= a + Len(es)
      BY <1>3, <2>7
    <3> QED BY <1>12, <2>7, <3>1, <3>2
  <2>12. s + m = c
    BY <1>3, <1>10, <2>4, <2>6, <2>7, <2>11
  <2>13. /\ k - 1 \in 1..Len(vs) /\ vs[k - 1] = ws[k]
         /\ \A j \in 1..Len(vs) : vs[j].op = "truncate" => j = k - 1
    <3>1. k - 1 \in 1..Len(vs) /\ k - 1 + 1 = k
      BY <1>1, <2>2
    <3>2. \A j \in 1..Len(vs) : j \in 1..n - 1 /\ j + 1 \in 1..n /\ vs[j] = ws[j + 1]
      BY <1>1
    <3>3. \A j \in 1..Len(vs) : vs[j].op = "truncate" => j + 1 = k
      BY <2>3, <3>2
    <3>4. \A j \in 1..Len(vs) : j + 1 = k => j = k - 1
      BY <2>2
    <3> QED BY <3>1, <3>2, <3>3, <3>4
  <2>14. Floor(e, vs, c)
    <3>1. c = Len(e) \/ c = vs[k - 1].index - 1
      BY <2>6, <2>7, <2>13 DEF t
    <3> QED BY <2>1, <2>7, <2>13, <3>1 DEF Floor, t
  <2> QED BY <1>2, <2>7, <2>12, <2>14 DEF Stored, vs, w, e, m, es
<1> QED BY <1>14, <1>15

\* What is left of the queue after a failure are all its truncations.
LEMMA TruncatesElements ==
  ASSUME NEW ws \in Seq(Write)
  PROVE  LET t == Truncates(ws)[Len(ws)]
         IN  /\ \A k \in 1..Len(t) : \E j \in 1..Len(ws) : ws[j].op = "truncate" /\ t[k] = ws[j]
             /\ \A j \in 1..Len(ws) : ws[j].op = "truncate" => \E k \in 1..Len(t) : t[k] = ws[j]
<1> DEFINE t == Truncates(ws)
           Has(x, b) ==
             /\ \A k \in 1..Len(x) : \E j \in 1..b : ws[j].op = "truncate" /\ x[k] = ws[j]
             /\ \A j \in 1..b : ws[j].op = "truncate" => \E k \in 1..Len(x) : x[k] = ws[j]
           S == {b \in Nat : Has(t[b], b)}
<1>0. t = [b \in 0..Len(ws) |->
             IF b = 0 THEN << >>
             ELSE IF ws[b].op = "truncate" THEN Append(t[b - 1], ws[b])
                                           ELSE t[b - 1]]
  BY TruncatesDef
<1>1. /\ t[0] = << >>
      /\ \A b \in 1..Len(ws) :
           t[b] = IF ws[b].op = "truncate" THEN Append(t[b - 1], ws[b]) ELSE t[b - 1]
  <2> HIDE DEF t
  <2>1. \A b \in 0..Len(ws) : t[b] = IF b = 0 THEN << >>
                                     ELSE IF ws[b].op = "truncate" THEN Append(t[b - 1], ws[b])
                                                                   ELSE t[b - 1]
    BY <1>0, Zenon
  <2> QED BY <2>1
<1>2. \A b \in 0..Len(ws) : t[b] \in Seq(Write)
  BY TruncatesType
<1> HIDE DEF t
<1>3. 0 \in S
  <2>1. Has(t[0], 0)
    BY <1>1
  <2> HIDE DEF Has
  <2> QED BY <2>1
<1>4. ASSUME NEW b \in 0..Len(ws) - 1, b \in S PROVE b + 1 \in S
  <2> DEFINE x == t[b]
             y == t[b + 1]
             w == ws[b + 1]
  <2>1. b + 1 \in 1..Len(ws) /\ b + 1 - 1 = b /\ b + 1 \in Nat /\ b \in 0..Len(ws)
    OBVIOUS
  <2>2. y = (IF w.op = "truncate" THEN Append(x, w) ELSE x) /\ x \in Seq(Write)
    BY <1>1, <1>2, <2>1
  <2>3. Has(x, b)
    BY <1>4
  <2>4. \A j \in 1..b + 1 : j \in 1..b \/ j = b + 1
    BY <2>1
  <2>5. \A j \in 1..b : j \in 1..b + 1
    BY <2>1
  <2> HIDE DEF x, y
  <2>6. Has(y, b + 1)
    <3>1. CASE w.op # "truncate"
      BY <2>2, <2>3, <2>4, <2>5, <3>1
    <3>2. CASE w.op = "truncate"
      <4>1. /\ Len(x) \in Nat /\ Len(y) = Len(x) + 1 /\ y[Len(x) + 1] = w
            /\ \A k \in 1..Len(x) : y[k] = x[k]
        BY <2>1, <2>2, <3>2
      <4>2. \A k \in 1..Len(y) : k \in 1..Len(x) \/ k = Len(x) + 1
        BY <4>1
      <4>3. Len(x) + 1 \in 1..Len(y) /\ \A k \in 1..Len(x) : k \in 1..Len(y)
        BY <4>1
      <4>4. b + 1 \in 1..b + 1
        BY <2>1
      <4>5. ASSUME NEW k \in 1..Len(y)
            PROVE  \E j \in 1..b + 1 : ws[j].op = "truncate" /\ y[k] = ws[j]
        <5>1. CASE k = Len(x) + 1
          BY <3>2, <4>1, <4>4, <5>1
        <5>2. CASE k \in 1..Len(x)
          <6>1. y[k] = x[k]
            BY <4>1, <5>2
          <6>2. PICK j \in 1..b : ws[j].op = "truncate" /\ x[k] = ws[j]
            BY <2>3, <5>2
          <6> QED BY <2>5, <6>1, <6>2
        <5> QED BY <4>2, <5>1, <5>2
      <4>6. ASSUME NEW j \in 1..b + 1, ws[j].op = "truncate"
            PROVE  \E k \in 1..Len(y) : y[k] = ws[j]
        <5>1. CASE j = b + 1
          BY <4>1, <4>3, <5>1
        <5>2. CASE j \in 1..b
          BY <2>3, <4>1, <4>3, <4>6, <5>2
        <5> QED BY <2>4, <5>1, <5>2
      <4> QED BY <4>5, <4>6
    <3> QED BY <3>1, <3>2
  <2> HIDE DEF Has
  <2> QED BY <2>1, <2>6 DEF y
<1>5. 0..Len(ws) \subseteq S
  <2> HIDE DEF S
  <2>1. Len(ws) \in Nat
    OBVIOUS
  <2> QED BY <1>3, <1>4, <2>1, InductionUpTo
<1>6. Has(t[Len(ws)], Len(ws))
  <2>1. Len(ws) \in 0..Len(ws)
    OBVIOUS
  <2> HIDE DEF Has
  <2> QED BY <1>5, <2>1
<1> QED BY <1>6 DEF t

LEMMA StoredFail ==
  ASSUME NEW d \in Log, NEW ws \in Seq(Write), NEW l, NEW s, Stored(d, ws, l, s), NEW x,
         OneCut(Truncates(ws)[Len(ws)])
  PROVE  Stored(d, Truncates(ws)[Len(ws)], x, s)
<1> DEFINE t == Truncates(ws)[Len(ws)]
<1>1. t \in Seq(Write) /\ Len(t) \in Nat /\ \A k \in 1..Len(t) : t[k].op = "truncate"
  <2>1. Len(ws) \in 0..Len(ws)
    OBVIOUS
  <2>2. t \in Seq(Write) /\ \A k \in 1..Len(t) : t[k].op = "truncate"
    BY <2>1, TruncatesType
  <2> HIDE DEF t
  <2> QED BY <2>2
<1>2. /\ \A k \in 1..Len(t) : \E j \in 1..Len(ws) : ws[j].op = "truncate" /\ t[k] = ws[j]
      /\ \A j \in 1..Len(ws) : ws[j].op = "truncate" => \E k \in 1..Len(t) : t[k] = ws[j]
  BY TruncatesElements
<1>3. OneCut(t)
  OBVIOUS
<1> HIDE DEF t
<1>4. s \in Nat /\ Floor(d, t, s)
  BY <1>1, <1>2 DEF Stored, Floor
<1>5. CutsDiffer(d, t, x)
  <2>1. ASSUME NEW k \in 2..Len(t) PROVE FALSE
    <3>1. 1 \in 1..Len(t) /\ k \in 1..Len(t) /\ k # 1
      BY <1>1
    <3> QED BY <1>1, <1>3, <3>1 DEF OneCut
  <2> QED BY <2>1 DEF CutsDiffer
<1> QED BY <1>4, <1>5 DEF Stored, t

(* The invariant of the specification *)

StoredInv == \A i \in Server : Stored(disk[i], writes[i], log[i], lastStored[i])

LEMMA StoredOne ==
  ASSUME StoredInv, NEW i \in Server,
         \A k \in Server \ {i} : /\ log'[k] = log[k] /\ writes'[k] = writes[k]
                                 /\ disk'[k] = disk[k] /\ lastStored'[k] = lastStored[k],
         Stored(disk'[i], writes'[i], log'[i], lastStored'[i])
  PROVE  StoredInv'
  BY DEF StoredInv

LEMMA StoredSame ==
  ASSUME StoredInv, UNCHANGED <<log, disk, writes, lastStored>>
  PROVE  StoredInv'
  BY DEF StoredInv

LEMMA Append1Stored ==
  ASSUME TypeInv, StoredInv, NEW i \in Server, NEW prog, NEW due, Append1(i, prog, due),
         currentTerm[i] > 0
  PROVE  StoredInv'
<1> DEFINE l == Append(log[i], currentTerm[i])
           w == [op |-> "leader", index |-> Len(l), entries |-> <<currentTerm[i]>>]
<1>1. /\ log' = [log EXCEPT ![i] = l] /\ lastStored' = lastStored
      /\ writes' = [writes EXCEPT ![i] = Append(@, w)] /\ disk' = disk
  BY DEF Append1
<1>2. /\ log[i] \in Log /\ Len(log[i]) \in Nat \ {0} /\ disk[i] \in Log
      /\ writes[i] \in Seq(Write)
  BY LogFacts
<1>3. currentTerm[i] \in Entry
  BY ConfFacts DEF TypeInv, TypeOK, QueuesOK, Entry
<1>4. Len(l) = Len(log[i]) + 1 /\ l = log[i] \o <<currentTerm[i]>>
  BY <1>2, <1>3, AppendProperties, AppendIsConcat, SMTT(60) DEF Log
<1>5. w \in Write
  <2>1. <<currentTerm[i]>> \in Log
    BY <1>3 DEF Log
  <2>2. Len(l) \in WriteIndex
    BY <1>2, <1>4 DEF WriteIndex
  <2> HIDE DEF l
  <2> QED BY <2>1, <2>2 DEF Write, LeaderWrite
<1>6. w.op # "truncate" /\ w.entries = <<currentTerm[i]>>
  OBVIOUS
<1> HIDE DEF w, l
<1>7. Stored(disk[i], Append(writes[i], w), log[i] \o w.entries, lastStored[i])
  <2>1. Stored(disk[i], writes[i], log[i], lastStored[i])
    BY DEF StoredInv
  <2> QED BY <1>2, <1>5, <1>6, <2>1, StoredAppend
<1>8. /\ log'[i] = log[i] \o w.entries /\ writes'[i] = Append(writes[i], w)
      /\ disk'[i] = disk[i] /\ lastStored'[i] = lastStored[i]
  BY <1>1, <1>4, <1>6 DEF TypeInv, TypeOK, QueuesOK
<1>9. \A k \in Server \ {i} : /\ log'[k] = log[k] /\ writes'[k] = writes[k]
                              /\ disk'[k] = disk[k] /\ lastStored'[k] = lastStored[k]
  BY <1>1 DEF TypeInv, TypeOK, QueuesOK
<1> QED BY <1>7, <1>8, <1>9, StoredOne

LEMMA recvAppendEntriesStored ==
  ASSUME TypeInv, Queues, StoredInv, OneTruncation', conf' = conf,
         NEW m \in msgs, recvAppendEntries(m)
  PROVE  StoredInv'
<1> DEFINE i == m.to
<1>1. m \in AppendEntries
  BY recvAppendEntriesCases DEF TypeInv, QueuesOK, AppendEntriesResult
<1>2. i \in Server
  BY <1>1 DEF AppendEntries
<1>3. CASE UNCHANGED <<log, disk, writes, lastStored>>
  BY <1>3, StoredSame
<1>4. CASE /\ ~Conflicts(i, m) /\ Matches(i, m) /\ NewEntries(i, m) # << >>
           /\ log' = [log EXCEPT ![i] = Kept(i, m) \o NewEntries(i, m)]
           /\ lastStored' = [lastStored EXCEPT ![i] = StoredThen(i, m)]
           /\ writes' = [writes EXCEPT ![i] = @ \o Truncation(i, m) \o <<WriteOf(i, m)>>]
           /\ UNCHANGED disk
  <2> DEFINE w == WriteOf(i, m)
             ws == writes[i]
             l == log[i]
             index == FirstNew(i, m)
  <2>1. /\ index \in WriteIndex
        /\ InConflict(i, m) <=> index <= Len(l)
        /\ index <= Len(l) => l[index] # NewEntries(i, m)[1]
    BY <1>1, <1>4, NewEntriesFacts
  <2>2. w \in Write
    BY <1>1, <1>4, AppendFollowerFacts
  <2>3. w.op = "follower" /\ w.entries = NewEntries(i, m)
    BY DEF WriteOf
  <2> HIDE DEF i
  <2>4. /\ l \in Log /\ Len(l) \in Nat /\ disk[i] \in Log /\ ws \in Seq(Write)
        /\ lastStored[i] \in Nat
    BY <1>2, LogFacts DEF TypeInv, TypeOK
  <2>5. Stored(disk[i], ws, l, lastStored[i]) /\ QueueEndsInLog(disk[i], ws, l)
    BY <1>2 DEF Queues, Queue, StoredInv
  <2>6. /\ log'[i] = Kept(i, m) \o w.entries /\ disk'[i] = disk[i]
        /\ lastStored'[i] = StoredThen(i, m)
        /\ writes'[i] = ws \o Truncation(i, m) \o <<w>>
    BY <1>2, <1>4, <2>3 DEF TypeInv, TypeOK, QueuesOK
  <2>7. Stored(disk[i], ws \o Truncation(i, m) \o <<w>>, Kept(i, m) \o w.entries,
               StoredThen(i, m))
    <3>1. CASE InConflict(i, m)
      <4> DEFINE t == [op |-> "truncate", index |-> index]
      <4>1. Truncation(i, m) = <<t>> /\ Kept(i, m) = Truncate(l, index)
        BY <3>1 DEF Truncation, Kept
      <4>2. t \in Write /\ t.op = "truncate" /\ t.index = index
        BY <2>1 DEF Write, TruncateWrite
      <4>3. StoredThen(i, m) = IF lastStored[i] <= index - 1 THEN lastStored[i] ELSE index - 1
        <5>1. index - 1 \in Int /\ lastStored[i] \in Int
          BY <2>1, <2>4 DEF WriteIndex
        <5>2. StoredThen(i, m) = Min({lastStored[i], index - 1})
          BY <3>1 DEF StoredThen
        <5> HIDE DEF index
        <5> QED BY <5>1, <5>2, MinOfTwo
      <4> HIDE DEF t, w, index, l, ws
      <4>4. \A k \in 1..Len(ws) : ws[k].op # "truncate"
        <5> DEFINE us == ws \o <<t>> \o <<w>>
                   n == Len(ws)
        <5>1. OneCut(us)
          BY <1>2, <2>6, <4>1 DEF OneTruncation
        <5>2. us = Append(Append(ws, t), w)
          BY <2>2, <2>4, <4>2
        <5> DEFINE vs == Append(ws, t)
        <5>3. /\ vs \in Seq(Write) /\ Len(vs) = n + 1 /\ n \in Nat /\ vs[n + 1] = t
              /\ \A k \in 1..n : vs[k] = ws[k]
          BY <2>4, <4>2
        <5> HIDE DEF us, vs
        <5>4. us = Append(vs, w)
          BY <5>2 DEF vs
        <5>5. Len(us) = n + 2 /\ us[n + 1] = t /\ \A k \in 1..n : us[k] = ws[k]
          BY <2>2, <5>3, <5>4
        <5> HIDE DEF n
        <5>6. \A k \in 1..n : k \in 1..Len(us) /\ n + 1 \in 1..Len(us) /\ k # n + 1
          BY <5>3, <5>5
        <5>7. \A k \in 1..n : ws[k].op # "truncate"
          BY <4>2, <5>1, <5>5, <5>6 DEF OneCut
        <5> QED BY <5>7 DEF n
      <4>5. t.index <= Len(l) /\ w.entries # << >> /\ w.entries[1] # l[t.index]
        BY <1>4, <2>1, <2>3, <3>1, <4>2
      <4>6. w.op # "truncate"
        BY <2>3
      <4>7. Stored(disk[i], ws \o <<t>> \o <<w>>, Truncate(l, t.index) \o w.entries,
                   IF lastStored[i] <= t.index - 1 THEN lastStored[i] ELSE t.index - 1)
        BY <2>2, <2>4, <2>5, <4>2, <4>4, <4>5, <4>6, StoredReplace
      <4> QED BY <4>1, <4>2, <4>3, <4>7
    <3>2. CASE ~InConflict(i, m)
      <4>1. Truncation(i, m) = << >> /\ Kept(i, m) = l /\ StoredThen(i, m) = lastStored[i]
        BY <3>2 DEF Truncation, Kept, StoredThen
      <4>2. ws \o << >> \o <<w>> = Append(ws, w)
        BY <2>4
      <4>3. w.op # "truncate"
        BY <2>3
      <4> HIDE DEF w, index, l, ws
      <4>4. Stored(disk[i], Append(ws, w), l \o w.entries, lastStored[i])
        BY <2>2, <2>4, <2>5, <4>3, StoredAppend
      <4> QED BY <4>1, <4>2, <4>4
    <3> QED BY <3>1, <3>2
  <2>8. \A k \in Server \ {i} : /\ log'[k] = log[k] /\ writes'[k] = writes[k]
                                /\ disk'[k] = disk[k] /\ lastStored'[k] = lastStored[k]
    BY <1>4 DEF TypeInv, TypeOK, QueuesOK, i
  <2> QED BY <1>2, <2>6, <2>7, <2>8, StoredOne
<1> QED BY <1>3, <1>4, recvAppendEntriesCases DEF logVars, diskVars, ApplyUpTo

LEMMA WriteCompletesStored ==
  ASSUME TypeInv, Queues, MatchInv, StoredInv, OneTruncation, NEW i \in Server, WriteCompletes(i)
  PROVE  StoredInv'
<1> DEFINE ws == writes[i]
           w == Head(ws)
<1>1. /\ ws # << >>
      /\ disk' = [disk EXCEPT ![i] = OnDisk(disk[i], w)]
      /\ writes' = [writes EXCEPT ![i] = Tail(@)]
      /\ log' = log
  BY DEF WriteCompletes, TruncateCompletes, appendLeaderCb, appendFollowerCb, logVars
<1>2. /\ disk'[i] = OnDisk(disk[i], w) /\ writes'[i] = Tail(ws) /\ log'[i] = log[i]
      /\ \A k \in Server \ {i} : writes'[k] = writes[k] /\ disk'[k] = disk[k] /\ log'[k] = log[k]
  BY <1>1 DEF TypeInv, TypeOK, QueuesOK
<1>3. /\ disk[i] \in Log /\ log[i] \in Log /\ ws \in Seq(Write)
      /\ Stored(disk[i], ws, log[i], lastStored[i]) /\ Queue(disk[i], ws, log[i])
      /\ OneCut(ws)
  BY LogFacts DEF Queues, StoredInv, OneTruncation
<1>4. CASE w.op = "truncate"
  <2>1. lastStored' = lastStored
    BY <1>4 DEF WriteCompletes, TruncateCompletes, appendLeaderCb, appendFollowerCb, logVars
  <2>2. Stored(OnDisk(disk[i], w), Tail(ws), log[i], lastStored[i])
    BY <1>1, <1>3, <1>4, StoredCutDone
  <2> QED BY <1>2, <2>1, <2>2, StoredOne
<1>5. CASE w.op # "truncate"
  <2> DEFINE s == lastStored[i] + Matching(log[i], w.index, w.entries)
  <2>1. lastStored' = [lastStored EXCEPT ![i] = s]
    BY <1>5 DEF WriteCompletes, TruncateCompletes, appendLeaderCb, appendFollowerCb,
                updateLastStored
  <2>2. PICK h : h \in [Entry -> Log] /\ Matched(log[i], h) /\ QueueMatched(disk[i], ws, h)
    BY LogIsMatched DEF MatchInv, Past, History
  <2>3. Stored(OnDisk(disk[i], w), Tail(ws), log[i], s)
    BY <1>1, <1>3, <1>5, <2>2, StoredAppendDone
  <2>4. lastStored'[i] = s /\ \A k \in Server \ {i} : lastStored'[k] = lastStored[k]
    BY <2>1 DEF TypeInv, TypeOK
  <2> QED BY <1>2, <2>3, <2>4, StoredOne
<1> QED BY <1>4, <1>5

LEMMA WriteFailsStored ==
  ASSUME TypeInv, StoredInv, OneTruncation', NEW i \in Server, WriteFails(i)
  PROVE  StoredInv'
<1> DEFINE t == Truncates(writes[i])[Len(writes[i])]
<1>1. /\ log' = [log EXCEPT ![i] = Truncate(@, FirstFailed(i))]
      /\ writes' = [writes EXCEPT ![i] = t]
      /\ disk' = disk /\ lastStored' = lastStored
  BY DEF WriteFails, Failed, FirstFailed
<1>2. /\ writes'[i] = t /\ disk'[i] = disk[i]
      /\ \A k \in Server \ {i} : log'[k] = log[k] /\ writes'[k] = writes[k]
                                 /\ disk'[k] = disk[k]
  BY <1>1 DEF TypeInv, TypeOK, QueuesOK
<1>3. OneCut(t)
  BY <1>2 DEF OneTruncation
<1>4. Stored(disk[i], t, log'[i], lastStored[i])
  <2>1. /\ Stored(disk[i], writes[i], log[i], lastStored[i])
        /\ disk[i] \in Log /\ writes[i] \in Seq(Write)
    BY LogFacts DEF StoredInv
  <2> QED BY <1>3, <2>1, StoredFail
<1> QED BY <1>1, <1>2, <1>4, StoredOne

LEMMA raft_startStored ==
  ASSUME TypeInv, StoredInv, NEW i \in Server, raft_start(i)
  PROVE  StoredInv'
<1>1. /\ log' = [log EXCEPT ![i] = disk[i]] /\ writes' = [writes EXCEPT ![i] = << >>]
      /\ lastStored' = [lastStored EXCEPT ![i] = Len(disk[i])] /\ disk' = disk
  BY DEF raft_start
<1>2. /\ log'[i] = disk[i] /\ disk'[i] = disk[i] /\ writes'[i] = << >>
      /\ lastStored'[i] = Len(disk[i])
      /\ \A k \in Server \ {i} : /\ log'[k] = log[k] /\ writes'[k] = writes[k]
                                 /\ disk'[k] = disk[k] /\ lastStored'[k] = lastStored[k]
  BY <1>1 DEF TypeInv, TypeOK, QueuesOK
<1>3. Stored(disk[i], << >>, disk[i], Len(disk[i]))
  BY LogFacts, StoredEmpty
<1> QED BY <1>2, <1>3, StoredOne

LEMMA InitStored == Init => StoredInv
<1> SUFFICES ASSUME Init, NEW i \in Server
             PROVE  Stored(disk[i], writes[i], log[i], lastStored[i])
  BY DEF StoredInv
<1>1. disk[i] \in Log
  BY InitType, LogFacts
<1>2. log[i] = disk[i] /\ writes[i] = << >> /\ lastStored[i] = Len(disk[i])
  BY DEF Init
<1> QED BY <1>1, <1>2, StoredEmpty

LEMMA NextStored ==
  /\ TypeInv /\ Queues /\ MatchInv /\ StoredInv
  /\ OneTruncation /\ OneTruncation' /\ [Next]_vars
  => StoredInv'
<1> SUFFICES ASSUME TypeInv, Queues, MatchInv, StoredInv, OneTruncation, OneTruncation',
                    [Next]_vars
             PROVE  StoredInv'
  OBVIOUS
<1>1. CASE UNCHANGED <<log, disk, writes, lastStored>>
  BY <1>1, StoredSame
<1>2. CASE Next
  <2>0. conf' = conf
    BY <1>2 DEF Next
  <2>1. ASSUME NEW i \in Up, NEW j \in Up, recvRequestVote(j, i) PROVE StoredInv'
    BY <1>1, <2>1 DEF recvRequestVote, logVars, diskVars
  <2>2. ASSUME NEW i \in Up, NEW j \in Server, replicationHeartbeat(i, j) PROVE StoredInv'
    BY <1>1, <2>2 DEF replicationHeartbeat, logVars, diskVars
  <2>3. ASSUME NEW i \in Up, tick(i) \/ electionStart(i) \/ checkContactQuorum(i)
        PROVE  StoredInv'
    BY <1>1, <2>3 DEF tick, electionStart, checkContactQuorum, logVars, diskVars
  <2>4. ASSUME NEW i \in Up, convertToLeader(i) \/ raft_apply(i) PROVE StoredInv'
    <3>1. i \in Server /\ currentTerm[i] > 0
      BY DEF Up, TypeInv, Roles
    <3>2. CASE convertToLeader(i)
      <4>1. Append1(i, progressBuildArray(i, Len(log[i])), Server)
        BY <3>2 DEF convertToLeader
      <4> QED BY <3>1, <4>1, Append1Stored
    <3>3. CASE raft_apply(i)
      <4>1. PICK due : Append1(i, progress[i], due)
        BY <3>3 DEF raft_apply
      <4> QED BY <3>1, <4>1, Append1Stored
    <3> QED BY <2>4, <3>2, <3>3
  <2>5. ASSUME NEW i \in Up, WriteCompletes(i) \/ WriteFails(i) \/ raft_start(i)
        PROVE  StoredInv'
    BY <2>5, WriteCompletesStored, WriteFailsStored, raft_startStored DEF Up
  <2>6. ASSUME NEW m \in msgs, recvAppendEntries(m) PROVE StoredInv'
    BY <2>0, <2>6, recvAppendEntriesStored
  <2>7. ASSUME NEW m \in msgs, recvAppendEntriesResult(m) PROVE StoredInv'
    BY <1>1, <2>7 DEF recvAppendEntriesResult, logVars, diskVars
  <2>8. ASSUME NEW m \in msgs, SendFails(m) \/ Lose(m) PROVE StoredInv'
    BY <1>1, <2>8 DEF SendFails, Lose, logVars, diskVars
  <2> QED BY <1>2, <2>1, <2>2, <2>3, <2>4, <2>5, <2>6, <2>7, <2>8 DEF Next
<1> QED BY <1>1, <1>2 DEF vars

\* The first entries of two logs, as a prefix.
LEMMA SameIsPrefix ==
  ASSUME NEW l \in Log, NEW d \in Log, NEW s \in Nat, SameUpTo(l, d, s)
  PROVE  IsPrefix(SubSeq(l, 1, s), d)
<1> DEFINE x == SubSeq(l, 1, s)
<1>1. s <= Len(l) /\ s <= Len(d) /\ \A k \in 1..s : l[k] = d[k]
  BY DEF SameUpTo
<1>2. l \in Seq(Entry) /\ d \in Seq(Entry) /\ Len(l) \in Nat /\ Len(d) \in Nat
  BY LogLen
<1>3. s \in Int /\ 1 \in Nat \ {0} /\ s - 1 + 1 = s /\ \A k \in 1..s : 1 + k - 1 = k
  OBVIOUS
<1>4. x \in Seq(Entry) /\ Len(x) = s /\ \A k \in 1..s : x[k] = l[k]
  <2>1. /\ x \in Seq(Entry) /\ Len(x) = (IF 1 <= s THEN s - 1 + 1 ELSE 0)
        /\ \A k \in 1..s - 1 + 1 : x[k] = l[1 + k - 1]
    BY <1>1, <1>2, <1>3, SubSeqFacts
  <2> HIDE DEF x
  <2> QED BY <1>3, <2>1
<1> HIDE DEF x
<1> DEFINE a == SubSeq(x, 1, s)
           b == SubSeq(d, 1, s)
<1>5. s <= Len(x)
  BY <1>4
<1>6. /\ a \in Seq(Entry) /\ Len(a) = (IF 1 <= s THEN s - 1 + 1 ELSE 0)
      /\ \A k \in 1..s - 1 + 1 : a[k] = x[1 + k - 1]
  BY <1>3, <1>4, <1>5, SubSeqFacts
<1>7. /\ b \in Seq(Entry) /\ Len(b) = (IF 1 <= s THEN s - 1 + 1 ELSE 0)
      /\ \A k \in 1..s - 1 + 1 : b[k] = d[1 + k - 1]
  BY <1>1, <1>2, <1>3, SubSeqFacts
<1> HIDE DEF a, b
<1>8. Len(a) = s /\ Len(b) = s /\ \A k \in 1..s : a[k] = b[k]
  BY <1>1, <1>3, <1>4, <1>6, <1>7
<1>9. a = b
  BY <1>6, <1>7, <1>8, SeqEqual
<1>10. IsPrefix(x, d)
  BY <1>1, <1>4, <1>9 DEF IsPrefix, a, b
<1> QED BY <1>10 DEF x

LEMMA StoredInvSound == TypeInv /\ Queues /\ StoredInv => LastStoredSound
<1> SUFFICES ASSUME TypeInv, Queues, StoredInv, NEW i \in Server
             PROVE  /\ lastStored[i] <= Len(log[i])
                    /\ IsPrefix(SubSeq(log[i], 1, lastStored[i]), disk[i])
  BY DEF LastStoredSound
<1> DEFINE l == log[i]
           d == disk[i]
           s == lastStored[i]
<1>1. /\ l \in Log /\ d \in Log /\ writes[i] \in Seq(Write) /\ s \in Nat
      /\ QueueEndsInLog(d, writes[i], l) /\ Stored(d, writes[i], l, s)
  BY LogFacts DEF Queues, Queue, StoredInv, Stored
<1> HIDE DEF l, d, s
<1>2. SameUpTo(l, d, s)
  BY <1>1, StoredSound
<1>3. s <= Len(l)
  BY <1>2 DEF SameUpTo
<1>4. IsPrefix(SubSeq(l, 1, s), d)
  BY <1>1, <1>2, SameIsPrefix
<1> QED BY <1>3, <1>4 DEF l, d, s

\* What last_stored claims is on disk: truncations, completions of writes that
\* were submitted before them and failures keep the log in memory up to
\* last_stored and the log on disk equal, as long as no server truncates its log
\* again before an earlier truncation is done.
THEOREM LastStoredSafe == Spec /\ []OneTruncation => []LastStoredSound
<1>1. Init => StoredInv
  BY InitStored
<1>2. /\ TypeInv /\ Queues /\ MatchInv /\ StoredInv
      /\ OneTruncation /\ OneTruncation' /\ [Next]_vars
      => StoredInv'
  BY NextStored
<1>3. TypeInv /\ Queues /\ StoredInv => LastStoredSound
  BY StoredInvSound
<1> QED BY <1>1, <1>2, <1>3, TypeInvariant, QueuesInvariant, MatchInvariant, PTL DEF Spec

==============================================================================
