---------------------------- MODULE RaftSafetyProofs ----------------------------
(***************************************************************************)
(* State machine safety of RaftReplication: servers apply one sequence of   *)
(* entries, no message makes a server shut down, and what a leader counts   *)
(* is on disk.                                                              *)
(*                                                                          *)
(* Two things are assumed of the behaviours, one for each way in which the  *)
(* code can go wrong: no server has two truncations in flight to its disk,  *)
(* and a message of an earlier leader that starts at the first entry is     *)
(* lost (its refusal would be taken for a success).                         *)
(*                                                                          *)
(* As in RaftLogMatchingProofs the past is not in the variables.  h has the *)
(* log of the leader of each term, and a says how many entries of that log  *)
(* each server had on disk while it was in that term.                       *)
(***************************************************************************)
EXTENDS RaftLogMatchingProofs

\* Of the messages that the receiver refuses because they are of an earlier term,
\* those that start at the first entry do not arrive: the answer to one has
\* rejected = 0 (prev_log_index), and reads as a success.
StaleFirstLost ==
  \A m \in msgs :
    m.type = "AppendEntries" /\ m.prev = 0 /\ m.term < currentTerm[m.to] =>
      ~recvAppendEntries(m)

-----------------------------------------------------------------------------
(* The terms of the entries *)

LastTerm(l) == TermAt(l, Len(l))

Below(l, t) == \A k \in 1..Len(l) : l[k] <= t

\* The log of a leader has only entries of the terms up to its own.
Ordered(h) == \A t \in Entry : Below(h[t], t) /\ (h[t] # << >> => h[t][1] = 1)

\* So has a server, and a leader has an entry of its own term at the end.
TermsOf(i) ==
  /\ log[i][1] = 1
  /\ Below(log[i], currentTerm[i]) /\ Below(disk[i], currentTerm[i])
  /\ \A k \in 1..Len(writes[i]) :
       writes[i][k].op # "truncate" => Below(writes[i][k].entries, currentTerm[i])
  /\ state[i] = "leader" => LastTerm(log[i]) = currentTerm[i]

Terms(h) == Ordered(h) /\ \A i \in Server : TermsOf(i)

\* The entries in l are those of the log x that follow index prev.
PartOf(l, prev, x) ==
  prev + Len(l) <= Len(x) /\ \A k \in 1..Len(l) : l[k] = x[prev + k]

\* A message goes up to an entry of the term of its sender.
FromLeader(m, h) ==
  LET end == m.prev + Len(m.entries)
  IN  /\ m.term \in Entry
      /\ end >= 1 /\ PartOf(m.entries, m.prev, h[m.term])
      /\ h[m.term][end] = m.term
      /\ m.prevTerm = TermAt(h[m.term], m.prev)

Sending(h) == \A m \in msgs : m.type = "AppendEntries" => FromLeader(m, h)

\* What a follower writes comes from a leader, and as long as that is the leader
\* of its term the follower has an entry of that term at the end of its log.
WriteFromLeader(w, h, term, last) ==
  /\ w.term \in Entry /\ w.term <= term /\ w.entries # << >>
  /\ PartOf(w.entries, w.index - 1, h[w.term])
  /\ w.term = term => last = term

WritesOf(i, h) ==
  \A k \in 1..Len(writes[i]) :
    writes[i][k].op = "follower" =>
      WriteFromLeader(writes[i][k], h, currentTerm[i], LastTerm(log[i]))

Writing(h) == \A i \in Server : WritesOf(i, h)

-----------------------------------------------------------------------------
(* What the servers have confirmed *)

\* A majority has left term t with fewer than n entries of its leader: entry n
\* will never be committed by that leader.
Abandoned(a, t, n) == Quorum({j \in Server : currentTerm[j] > t /\ a[j][t] < n})

\* A majority had, in term t, the entry n that its leader added.
Committed(h, a, t, n) ==
  /\ t \in Entry /\ n \in 1..Len(h[t]) /\ h[t][n] = t
  /\ Quorum({j \in Server : a[j][t] >= n})

\* Server j has the first n entries of the leader of term t on disk.
Holds(h, j, t, n) == n <= lastStored[j] /\ SameUpTo(log[j], h[t], n)

\* While it is in a term, a server confirms all it has on disk once its log ends
\* with an entry of the term.  What it has confirmed it keeps, in later terms
\* unless it cannot be committed any more.
Confirming(h, a) ==
  /\ a \in [Server -> [Entry -> Nat]]
  /\ \A j \in Server, t \in Entry :
       /\ a[j][t] <= Len(h[t])
       /\ a[j][t] > 0 => t <= currentTerm[j]
       /\ t = currentTerm[j] =>
            /\ Holds(h, j, t, a[j][t])
            /\ LastTerm(log[j]) = t => lastStored[j] <= a[j][t]
       /\ t < currentTerm[j] =>
            \A n \in 1..a[j][t] : h[t][n] = t => Holds(h, j, t, n) \/ Abandoned(a, t, n)

\* The leader counts only what was confirmed.
Counting(a) ==
  /\ \A m \in msgs :
       m.type = "AppendEntriesResult" =>
         m.term \in Entry /\ (m.rejected = 0 => m.last <= a[m.from][m.term])
  /\ \A i, j \in Server :
       state[i] = "leader" => progress[i][j].match <= a[j][currentTerm[i]]

\* Leader completeness: the leader of a term has the entries of the earlier
\* leaders, but for those that will never be committed.
Complete(h, a) ==
  \A t, u \in Entry :
    t < u /\ h[u] # << >> =>
      \A n \in 1..Len(h[t]) :
        h[t][n] = t => SameUpTo(h[u], h[t], n) \/ Abandoned(a, t, n)

\* What the candidate i has on disk is at least as recent as entry n of term t.
Covers(i, t, n) ==
  LET last == TermAt(log[i], lastStored[i])
  IN  last > t \/ (last = t /\ lastStored[i] >= n)

\* What voter j confirmed of the terms before u is not more recent than that.
CoversVoter(h, a, i, j, u) ==
  \A t \in Entry : t < u =>
    \A n \in 1..a[j][t] : h[t][n] = t => Covers(i, t, n) \/ Abandoned(a, t, n)

\* Whoever voted for a candidate is in its term, and had confirmed nothing that
\* is more recent than what the candidate has.
Covered(h, a) ==
  \A i \in Server : \A j \in votes[i] :
    currentTerm[j] >= currentTerm[i] /\ CoversVoter(h, a, i, j, currentTerm[i])

-----------------------------------------------------------------------------
(* What is committed *)

\* Index c was committed by a leader of a term up to u.
CommittedBy(h, a, c, u) ==
  c <= 1 \/ \E t \in Entry : \E n \in Nat : t <= u /\ c <= n /\ Committed(h, a, t, n)

\* The first c entries of l were committed by leaders of terms up to u.
CommittedLog(h, a, l, c, u) ==
  c <= 1 \/ \E t \in Entry : \E n \in Nat :
              t <= u /\ c <= n /\ Committed(h, a, t, n) /\ SameUpTo(l, h[t], c)

\* Where commit indexes come from; a commit index may be beyond the end of the
\* log when the writes of a leader have failed.
Committing(h, a) ==
  /\ \A i \in Server : CommittedBy(h, a, commitIndex[i], currentTerm[i])
  /\ \A m \in msgs : m.type = "AppendEntries" => CommittedBy(h, a, m.commit, m.term)
  /\ \A i \in Server : \A k \in 1..Len(writes[i]) :
       writes[i][k].op = "follower" =>
         CommittedBy(h, a, writes[i][k].commit, writes[i][k].term)
  /\ \A i \in Server : \A c \in 1..Len(log[i]) :
       c <= commitIndex[i] => CommittedLog(h, a, log[i], c, currentTerm[i])

Applying(h, a) ==
  /\ \A i \in Server :
       /\ Len(applied[i]) = commitIndex[i] /\ applied[i][1] = 1
       /\ CommittedLog(h, a, applied[i], Len(applied[i]), Conf.maxTerm)
       /\ Len(applied[i]) <= Len(chosen)
  /\ Len(chosen) >= 1 /\ chosen[1] = 1
  /\ CommittedLog(h, a, chosen, Len(chosen), Conf.maxTerm)

SafetyParts(h, a) ==
  /\ Past(h) /\ Terms(h) /\ Sending(h) /\ Writing(h)
  /\ Confirming(h, a) /\ Counting(a) /\ Complete(h, a) /\ Covered(h, a)
  /\ Committing(h, a) /\ Applying(h, a)

\* The inductive invariant.
SafetyInv == \E h, a : SafetyParts(h, a)

-----------------------------------------------------------------------------
(* Facts about one state *)

LEMMA PastFacts ==
  ASSUME NEW h, Past(h), NEW t \in Entry
  PROVE  /\ h \in [Entry -> Log] /\ h[t] \in Log /\ Len(h[t]) \in Nat /\ Matched(h[t], h)
         /\ \A k \in 1..Len(h[t]) : h[t][k] \in Entry
         /\ h[t] # << >> => Len(h[t]) >= 1
<1>1. h \in [Entry -> Log] /\ h[t] \in Log /\ Matched(h[t], h)
  BY DEF Past, History
<1>2. h[t] \in Seq(Entry) /\ Len(h[t]) \in Nat /\ \A k \in 1..Len(h[t]) : h[t][k] \in Entry
  BY <1>1, LogLen
<1>3. h[t] # << >> => Len(h[t]) # 0
  BY <1>2, EmptySeq
<1> QED BY <1>1, <1>2, <1>3

LEMMA LastTermFacts ==
  ASSUME NEW l \in Log
  PROVE  /\ Len(l) >= 1 => LastTerm(l) = l[Len(l)] /\ LastTerm(l) \in Entry
         /\ LastTerm(l) # 0 => Len(l) >= 1 /\ LastTerm(l) = l[Len(l)]
<1>1. Len(l) \in Nat /\ \A k \in 1..Len(l) : l[k] \in Entry
  BY LogLen
<1> QED BY <1>1 DEF LastTerm, TermAt

LEMMA EntryFacts ==
  ASSUME NEW t \in Entry
  PROVE  t \in Nat /\ t >= 1 /\ t \in Int
  BY DEF Entry

\* The entries of a log are in the order of their terms.
LEMMA Sorted ==
  ASSUME NEW h \in [Entry -> Log], \A t \in Entry : Below(h[t], t),
         NEW l \in Log, Matched(l, h), NEW k \in 1..Len(l), NEW j \in 1..k
  PROVE  l[j] <= l[k]
<1>1. Len(l) \in Nat /\ l[k] \in Entry
  BY LogLen
<1>2. SameUpTo(l, h[l[k]], k)
  BY DEF Matched
<1>3. k <= Len(h[l[k]]) /\ l[j] = h[l[k]][j]
  BY <1>1, <1>2 DEF SameUpTo
<1>4. h[l[k]] \in Log
  BY <1>1
<1>5. Len(h[l[k]]) \in Nat
  BY <1>4, LogLen
<1>6. j \in 1..Len(h[l[k]])
  BY <1>1, <1>3, <1>5
<1> QED BY <1>1, <1>3, <1>6 DEF Below

\* A log that ends with an entry of a term is the beginning of the log of the
\* leader of that term.
LEMMA EndsInTerm ==
  ASSUME NEW h \in [Entry -> Log], NEW l \in Log, Matched(l, h), NEW t \in Entry,
         LastTerm(l) = t
  PROVE  SameUpTo(l, h[t], Len(l))
<1>1. t # 0
  BY EntryFacts
<1>2. Len(l) \in 1..Len(l) /\ t = l[Len(l)]
  BY <1>1, LastTermFacts, LogLen
<1> QED BY <1>2 DEF Matched

LEMMA StoredFacts ==
  ASSUME TypeInv, Queues, StoredInv, NEW i \in Server
  PROVE  /\ lastStored[i] \in 1..Len(log[i]) /\ lastStored[i] \in Nat
         /\ SameUpTo(log[i], disk[i], lastStored[i])
         /\ SameUpTo(disk[i], log[i], lastStored[i])
<1>1. /\ log[i] \in Log /\ disk[i] \in Log /\ writes[i] \in Seq(Write)
      /\ Len(disk[i]) \in Nat \ {0} /\ Len(log[i]) \in Nat
  BY LogFacts
<1>2. Stored(disk[i], writes[i], log[i], lastStored[i]) /\ QueueEndsInLog(disk[i], writes[i], log[i])
  BY DEF StoredInv, Queues, Queue
<1>3. SameUpTo(log[i], disk[i], lastStored[i])
  BY <1>1, <1>2, StoredSound
<1>4. lastStored[i] \in Nat /\ lastStored[i] <= Len(log[i])
  BY <1>2, <1>3 DEF Stored, SameUpTo
<1>5. lastStored[i] >= 1
  <2>1. Floor(disk[i], writes[i], lastStored[i])
    BY <1>2 DEF Stored
  <2>2. \A k \in 1..Len(writes[i]) : writes[i][k].index \in WriteIndex
    <3> SUFFICES ASSUME NEW k \in 1..Len(writes[i]) PROVE writes[i][k].index \in WriteIndex
      OBVIOUS
    <3>1. writes[i][k] \in Write
      BY <1>1
    <3> QED BY <3>1, WriteFacts
  <2>3. CASE lastStored[i] = Len(disk[i])
    BY <1>1, <2>3
  <2>4. ASSUME NEW k \in 1..Len(writes[i]), lastStored[i] = writes[i][k].index - 1
        PROVE  lastStored[i] >= 1
    BY <2>2, <2>4 DEF WriteIndex
  <2> QED BY <2>1, <2>3, <2>4 DEF Floor
<1> QED BY <1>1, <1>3, <1>4, <1>5 DEF SameUpTo

\* What is committed cannot be abandoned: two majorities share a server.
LEMMA CommittedStays ==
  ASSUME TypeInv, NEW h, NEW a, Confirming(h, a), NEW t, NEW n \in Nat, Committed(h, a, t, n)
  PROVE  ~Abandoned(a, t, n)
<1> SUFFICES ASSUME Abandoned(a, t, n) PROVE FALSE
  OBVIOUS
<1> DEFINE S == {j \in Server : currentTerm[j] > t /\ a[j][t] < n}
           T == {j \in Server : a[j][t] >= n}
<1>1. Quorum(S) /\ Quorum(T) /\ S \in SUBSET Server /\ T \in SUBSET Server /\ t \in Entry
  BY DEF Abandoned, Committed
<1>2. \A j \in S \cap T : j \in Server /\ a[j][t] < n /\ a[j][t] >= n
  OBVIOUS
<1> HIDE DEF S, T
<1>3. PICK j \in S \cap T : TRUE
  BY <1>1, QuorumsMeet
<1>4. j \in Server /\ a[j][t] < n /\ a[j][t] >= n
  BY <1>2, <1>3
<1>5. a[j][t] \in Nat
  BY <1>1, <1>4 DEF Confirming
<1> QED BY <1>4, <1>5

\* Later leaders have what is committed.
LEMMA CommittedInLater ==
  ASSUME TypeInv, NEW h, NEW a, Past(h), Confirming(h, a), Complete(h, a),
         NEW t \in Entry, NEW n \in Nat, Committed(h, a, t, n),
         NEW u \in Entry, t <= u, h[u] # << >>
  PROVE  SameUpTo(h[u], h[t], n)
<1>1. n \in 1..Len(h[t]) /\ h[t][n] = t /\ Len(h[t]) \in Nat
  BY PastFacts DEF Committed
<1>2. CASE t = u
  BY <1>1, <1>2 DEF SameUpTo
<1>3. CASE t < u
  <2>1. ~Abandoned(a, t, n)
    BY CommittedStays
  <2> QED BY <1>1, <1>3, <2>1 DEF Complete
<1>4. t = u \/ t < u
  BY EntryFacts
<1> QED BY <1>2, <1>3, <1>4

\* Two committed logs are the same as far as both go.
LEMMA CommittedSame ==
  ASSUME TypeInv, NEW h, NEW a, Past(h), Confirming(h, a), Complete(h, a),
         NEW x \in Log, NEW y \in Log, NEW c \in Nat, NEW d \in Nat, c <= d,
         c <= Len(x), d <= Len(y), NEW v, NEW w,
         CommittedLog(h, a, x, c, v), CommittedLog(h, a, y, d, w),
         x[1] = y[1]
  PROVE  SameUpTo(x, y, c)
<1>0. Len(x) \in Nat /\ Len(y) \in Nat
  BY LogLen
<1>1. CASE c <= 1
  BY <1>0, <1>1 DEF SameUpTo
<1>2. CASE ~(c <= 1)
  <2>1. PICK t \in Entry, n \in Nat : c <= n /\ Committed(h, a, t, n) /\ SameUpTo(x, h[t], c)
    BY <1>2 DEF CommittedLog
  <2>2. PICK u \in Entry, m \in Nat : d <= m /\ Committed(h, a, u, m) /\ SameUpTo(y, h[u], d)
    BY <1>2 DEF CommittedLog
  <2>3. h[t] \in Log /\ h[u] \in Log /\ h[t] # << >> /\ h[u] # << >>
    <3>1. n \in 1..Len(h[t]) /\ m \in 1..Len(h[u])
      BY <2>1, <2>2 DEF Committed
    <3> QED BY <3>1, PastFacts
  <2>4. SameUpTo(h[t], h[u], c)
    <3>1. CASE t <= u
      <4>1. SameUpTo(h[u], h[t], n)
        BY <2>1, <2>3, <3>1, CommittedInLater
      <4> QED BY <2>1, <2>3, <4>1, SameLess
    <3>2. CASE u <= t
      <4>1. SameUpTo(h[t], h[u], m)
        BY <2>2, <2>3, <3>2, CommittedInLater
      <4>2. c <= m
        BY <2>2
      <4> QED BY <2>2, <2>3, <4>1, <4>2, SameLess
    <3> QED BY <3>1, <3>2, EntryFacts
  <2>5. SameUpTo(h[u], y, c)
    BY <2>2, <2>3, SameLess
  <2> QED BY <2>1, <2>4, <2>5, SameTrans
<1> QED BY <1>1, <1>2

\* What a server has confirmed of an entry that can still be committed it has.
LEMMA Held ==
  ASSUME TypeInv, NEW h, NEW a, Past(h), Confirming(h, a), NEW j \in Server, NEW t \in Entry,
         NEW n \in 1..a[j][t], h[t][n] = t, ~Abandoned(a, t, n)
  PROVE  t <= currentTerm[j] /\ Holds(h, j, t, n)
<1>1. a[j][t] \in Nat /\ a[j][t] > 0 /\ n \in Nat /\ n <= a[j][t]
  BY DEF Confirming
<1>2. t <= currentTerm[j] /\ currentTerm[j] \in Nat /\ t \in Nat
  BY <1>1, TermFacts, EntryFacts DEF Confirming
<1>3. CASE t = currentTerm[j]
  <2>1. a[j][t] <= lastStored[j] /\ SameUpTo(log[j], h[t], a[j][t]) /\ lastStored[j] \in Nat
    BY <1>3, LogFacts DEF Confirming, Holds
  <2>2. log[j] \in Log /\ h[t] \in Log
    BY LogFacts, PastFacts
  <2>3. SameUpTo(log[j], h[t], n)
    BY <1>1, <2>1, <2>2, SameLess
  <2> QED BY <1>1, <1>2, <2>1, <2>3 DEF Holds
<1>4. CASE t < currentTerm[j]
  BY <1>2, <1>4 DEF Confirming
<1> QED BY <1>2, <1>3, <1>4

\* When a term had a leader, a majority has reached it.
LEMMA ReachedByMajority ==
  ASSUME TypeInv, NEW h, Past(h), NEW u \in Entry, h[u] # << >>
  PROVE  Quorum({j \in Server : currentTerm[j] >= u})
<1> DEFINE S == {j \in Server : currentTerm[j] >= u}
<1>1. PICK v : VotesCast(v) /\ Wins(h, v)
  BY DEF Past, Led
<1>2. Won(v, u)
  BY <1>1 DEF Wins
<1>3. S \in SUBSET Server
  OBVIOUS
<1>4. CASE \A s \in Server : Over(s, u)
  <2>1. S = Server
    BY <1>4 DEF Over
  <2>2. Quorum(Server)
    <3>1. Cardinality(Server) \in Nat /\ Cardinality(Server) > 1
      BY ReplicationAssumption, FS_CardinalityType
    <3> QED BY <3>1 DEF Quorum
  <2> HIDE DEF S
  <2>3. Quorum(S)
    BY <2>1, <2>2
  <2> QED BY <2>3 DEF S
<1>5. ASSUME NEW l \in Server, Quorum(Voters(v, u, l)) PROVE Quorum(S)
  <2>1. Voters(v, u, l) \subseteq S
    <3> SUFFICES ASSUME NEW s \in Server, v[u][s] = l PROVE currentTerm[s] >= u
      BY DEF Voters
    <3>1. l # None
      BY ReplicationAssumption
    <3>2. ~(u > currentTerm[s])
      BY <1>1, <3>1 DEF VotesCast
    <3> QED BY <3>2, TermFacts, EntryFacts
  <2> HIDE DEF S
  <2> QED BY <1>3, <1>5, <2>1, QuorumMonotone
<1> QED BY <1>2, <1>4, <1>5 DEF Won

-----------------------------------------------------------------------------
(* Facts about a step.  Terms never go back, and a server confirms what it has
   stored as soon as its log ends with an entry of its term. *)

TermsGrow == \A j \in Server : currentTerm[j] <= currentTerm'[j]

Confirms(a) ==
  [j \in Server |-> [t \in Entry |->
     IF t = currentTerm[j] /\ LastTerm(log[j]) = t /\ lastStored[j] > a[j][t]
       THEN lastStored[j] ELSE a[j][t]]]

LEMMA ConfirmsFacts ==
  ASSUME TypeInv, TypeInv', conf' = conf, NEW h, NEW a, Confirming(h, a),
         NEW b, b = Confirms(a)'
  PROVE  /\ b \in [Server -> [Entry -> Nat]]
         /\ \A j \in Server, t \in Entry :
              /\ a[j][t] \in Nat /\ b[j][t] \in Nat /\ a[j][t] <= b[j][t]
              /\ t # currentTerm'[j] => b[j][t] = a[j][t]
              /\ \/ b[j][t] = a[j][t]
                 \/ t = currentTerm'[j] /\ LastTerm(log'[j]) = t /\ b[j][t] = lastStored'[j]
              /\ t = currentTerm'[j] /\ LastTerm(log'[j]) = t => lastStored'[j] <= b[j][t]
<1>1. a \in [Server -> [Entry -> Nat]] /\ lastStored' \in [Server -> Nat] /\ Entry' = Entry
  BY SetsKept DEF Confirming, TypeInv, TypeOK
<1>2. b = [j \in Server |-> [t \in Entry |->
             IF t = currentTerm'[j] /\ LastTerm(log'[j]) = t /\ lastStored'[j] > a[j][t]
               THEN lastStored'[j] ELSE a[j][t]]]
  BY <1>1 DEF Confirms, LastTerm, TermAt
<1>3. ASSUME NEW j \in Server, NEW t \in Entry
      PROVE  /\ b[j][t] = IF t = currentTerm'[j] /\ LastTerm(log'[j]) = t /\ lastStored'[j] > a[j][t]
                            THEN lastStored'[j] ELSE a[j][t]
             /\ a[j][t] \in Nat /\ lastStored'[j] \in Nat
  BY <1>1, <1>2
<1>4. b \in [Server -> [Entry -> Nat]]
  BY <1>1, <1>2
<1> QED BY <1>3, <1>4

\* What is abandoned stays so.
LEMMA AbandonedStays ==
  ASSUME TypeInv, TypeInv', conf' = conf, TermsGrow, NEW h, NEW a, Confirming(h, a),
         NEW b, b = Confirms(a)', NEW t \in Entry, NEW n \in Nat, Abandoned(a, t, n)
  PROVE  Abandoned(b, t, n)'
<1> DEFINE S == {j \in Server : currentTerm[j] > t /\ a[j][t] < n}
           T == {j \in Server : currentTerm'[j] > t /\ b[j][t] < n}
<1>1. Quorum(S)
  BY DEF Abandoned
<1>2. S \subseteq T /\ T \in SUBSET Server
  <2> SUFFICES ASSUME NEW j \in Server, currentTerm[j] > t, a[j][t] < n
               PROVE  currentTerm'[j] > t /\ b[j][t] < n
    OBVIOUS
  <2>1. currentTerm[j] \in Nat /\ currentTerm'[j] \in Nat /\ t \in Nat
    BY TermFacts, TermFactsNext, EntryFacts
  <2>2. currentTerm'[j] > t
    BY <2>1 DEF TermsGrow
  <2>3. b[j][t] = a[j][t]
    BY <2>1, <2>2, ConfirmsFacts
  <2> QED BY <2>2, <2>3
<1> HIDE DEF S, T
<1>3. Quorum(T)
  BY <1>1, <1>2, QuorumMonotone
<1> QED BY <1>3 DEF Abandoned, Quorum, T

\* What is committed stays so.
LEMMA CommittedGrows ==
  ASSUME TypeInv, TypeInv', conf' = conf, NEW h, NEW a, Past(h), Confirming(h, a),
         NEW b, b = Confirms(a)', NEW g \in [Entry -> Log], GrowsTo(h, g),
         NEW t, NEW n \in Nat, Committed(h, a, t, n)
  PROVE  Committed(g, b, t, n) /\ Committed(g, b, t, n)'
<1> DEFINE S == {j \in Server : a[j][t] >= n}
           T == {j \in Server : b[j][t] >= n}
<1>1. Quorum(S) /\ t \in Entry /\ n \in 1..Len(h[t]) /\ h[t][n] = t
  BY DEF Committed
<1>2. S \subseteq T /\ T \in SUBSET Server
  <2> SUFFICES ASSUME NEW j \in Server, a[j][t] >= n PROVE b[j][t] >= n
    OBVIOUS
  <2>1. a[j][t] \in Nat /\ a[j][t] <= b[j][t] /\ b[j][t] \in Nat
    BY <1>1, ConfirmsFacts
  <2> QED BY <2>1
<1>3. n \in 1..Len(g[t]) /\ g[t][n] = t
  <2>1. SameUpTo(g[t], h[t], Len(h[t])) /\ Len(h[t]) \in Nat /\ g[t] \in Log
    BY <1>1, PastFacts DEF GrowsTo
  <2>2. Len(g[t]) \in Nat
    BY <2>1, LogLen
  <2> QED BY <1>1, <2>1, <2>2 DEF SameUpTo
<1> HIDE DEF S, T
<1>4. Quorum(T)
  BY <1>1, <1>2, QuorumMonotone
<1>5. Quorum(T) /\ Entry' = Entry
  BY <1>4, SetsKept
<1> QED BY <1>1, <1>3, <1>5 DEF Committed, Quorum, T

LEMMA StateFacts ==
  TypeInv /\ Queues /\ StoredInv =>
    \A h : Past(h) =>
      /\ h \in [Entry -> Log]
      /\ \A i \in Server : /\ log[i] \in Log /\ Len(log[i]) \in Nat /\ Matched(log[i], h)
                           /\ lastStored[i] \in 1..Len(log[i])
                           /\ SameUpTo(log[i], disk[i], lastStored[i])
<1> SUFFICES ASSUME TypeInv, Queues, StoredInv, NEW h, Past(h), NEW i \in Server
             PROVE  /\ h \in [Entry -> Log]
                    /\ log[i] \in Log /\ Len(log[i]) \in Nat /\ Matched(log[i], h)
                    /\ lastStored[i] \in 1..Len(log[i])
                    /\ SameUpTo(log[i], disk[i], lastStored[i])
  BY DEF Past, History
<1>1. History(h) /\ h \in [Entry -> Log]
  BY DEF Past, History
<1> QED BY <1>1, LogFacts, StoredFacts, LogIsMatched

\* The same, after a step.
LEMMA StateFactsNext ==
  ASSUME TypeInv', Queues', StoredInv', conf' = conf, NEW g, Past(g)'
  PROVE  /\ g \in [Entry -> Log]
         /\ \A i \in Server : /\ log'[i] \in Log /\ Len(log'[i]) \in Nat /\ Matched(log'[i], g)
                              /\ lastStored'[i] \in 1..Len(log'[i])
                              /\ SameUpTo(log'[i], disk'[i], lastStored'[i])
<1> DEFINE F == TypeInv /\ Queues /\ StoredInv =>
                  \A h : Past(h) =>
                    /\ h \in [Entry -> Log]
                    /\ \A i \in Server :
                         /\ log[i] \in Log /\ Len(log[i]) \in Nat /\ Matched(log[i], h)
                         /\ lastStored[i] \in 1..Len(log[i])
                         /\ SameUpTo(log[i], disk[i], lastStored[i])
<1>1. F
  BY StateFacts
<1>2. F'
  BY StateFacts, PTL
<1>3. /\ g \in [Entry' -> Log']
      /\ \A i \in Server : /\ log'[i] \in Log' /\ Len(log'[i]) \in Nat /\ Matched(log'[i], g)
                           /\ lastStored'[i] \in 1..Len(log'[i])
                           /\ SameUpTo(log'[i], disk'[i], lastStored'[i])
  BY <1>2 DEF Matched, SameUpTo
<1> QED BY <1>3, SetsKept

\* The server still has, after the step, what it has confirmed: all of it while
\* it stays in its term, otherwise what can still be committed.
Keeps(h, a, j) ==
  \A t \in Entry : \A n \in Nat :
    /\ Holds(h, j, t, n) /\ n <= a[j][t]
    /\ \/ t = currentTerm[j] /\ t = currentTerm'[j]
       \/ t <= currentTerm[j] /\ n >= 1 /\ h[t][n] = t /\ ~Abandoned(a, t, n)
    => n <= lastStored'[j] /\ SameUpTo(log'[j], h[t], n)

LEMMA ConfirmingStep ==
  ASSUME TypeInv, TypeInv', Queues', StoredInv', conf' = conf, TermsGrow,
         NEW h, NEW a, Past(h), Confirming(h, a), NEW b, b = Confirms(a)',
         NEW g, Past(g)', GrowsTo(h, g), \A j \in Server : Keeps(h, a, j)
  PROVE  Confirming(g, b)'
<1>0. /\ b \in [Server -> [Entry -> Nat]] /\ Entry' = Entry /\ g \in [Entry -> Log]
      /\ h \in [Entry -> Log]
  BY ConfirmsFacts, SetsKept, StateFactsNext DEF Past, History
<1> SUFFICES ASSUME NEW j \in Server, NEW t \in Entry
             PROVE  /\ b[j][t] <= Len(g[t])
                    /\ b[j][t] > 0 => t <= currentTerm'[j]
                    /\ t = currentTerm'[j] =>
                         /\ b[j][t] <= lastStored'[j] /\ SameUpTo(log'[j], g[t], b[j][t])
                         /\ LastTerm(log'[j]) = t => lastStored'[j] <= b[j][t]
                    /\ t < currentTerm'[j] =>
                         \A n \in 1..b[j][t] : g[t][n] = t =>
                           \/ n <= lastStored'[j] /\ SameUpTo(log'[j], g[t], n)
                           \/ Abandoned(b, t, n)'
  BY <1>0 DEF Confirming, Holds, SameUpTo, LastTerm, TermAt
<1>1. /\ a[j][t] \in Nat /\ b[j][t] \in Nat /\ a[j][t] <= b[j][t]
      /\ t # currentTerm'[j] => b[j][t] = a[j][t]
      /\ \/ b[j][t] = a[j][t]
         \/ t = currentTerm'[j] /\ LastTerm(log'[j]) = t /\ b[j][t] = lastStored'[j]
      /\ t = currentTerm'[j] /\ LastTerm(log'[j]) = t => lastStored'[j] <= b[j][t]
  BY ConfirmsFacts
<1>2. /\ currentTerm[j] \in Nat /\ currentTerm'[j] \in Nat /\ t \in Nat
      /\ currentTerm[j] <= currentTerm'[j]
  BY TermFacts, TermFactsNext, EntryFacts DEF TermsGrow
<1>3. /\ log'[j] \in Log /\ Matched(log'[j], g) /\ Len(log'[j]) \in Nat
      /\ lastStored'[j] \in 1..Len(log'[j])
      /\ h[t] \in Log /\ g[t] \in Log /\ Len(h[t]) \in Nat /\ Len(g[t]) \in Nat
      /\ SameUpTo(g[t], h[t], Len(h[t])) /\ log[j] \in Log
  BY <1>0, StateFactsNext, LogLen, LogFacts DEF GrowsTo
<1>4. a[j][t] <= Len(h[t]) /\ (a[j][t] > 0 => t <= currentTerm[j])
      /\ Len(h[t]) <= Len(g[t])
  BY <1>3 DEF Confirming, SameUpTo
<1>5. \A n \in Nat : n <= Len(h[t]) /\ SameUpTo(log'[j], h[t], n) => SameUpTo(log'[j], g[t], n)
  BY <1>3 DEF SameUpTo
<1>6. CASE b[j][t] # a[j][t]
  <2>1. t = currentTerm'[j] /\ LastTerm(log'[j]) = t /\ b[j][t] = lastStored'[j]
    BY <1>1, <1>6
  <2>2. SameUpTo(log'[j], g[t], Len(log'[j]))
    BY <1>0, <1>3, <2>1, EndsInTerm
  <2>3. SameUpTo(log'[j], g[t], lastStored'[j])
    BY <1>3, <2>2, SameLess
  <2> QED BY <1>1, <1>2, <1>3, <2>1, <2>3 DEF SameUpTo
<1>7. CASE b[j][t] = a[j][t]
  <2>1. b[j][t] <= Len(g[t]) /\ (b[j][t] > 0 => t <= currentTerm'[j])
    BY <1>1, <1>2, <1>3, <1>4, <1>7
  <2>2. ASSUME t = currentTerm'[j]
        PROVE  b[j][t] <= lastStored'[j] /\ SameUpTo(log'[j], g[t], b[j][t])
    <3>1. CASE currentTerm[j] = t
      <4>1. Holds(h, j, t, a[j][t])
        BY <3>1 DEF Confirming
      <4>2. a[j][t] <= lastStored'[j] /\ SameUpTo(log'[j], h[t], a[j][t])
        BY <1>1, <2>2, <3>1, <4>1 DEF Keeps
      <4> QED BY <1>1, <1>4, <1>5, <1>7, <4>2
    <3>2. CASE currentTerm[j] < t
      <4>1. b[j][t] = 0
        BY <1>1, <1>2, <1>4, <1>7, <3>2
      <4> QED BY <1>3, <4>1 DEF SameUpTo
    <3> QED BY <1>2, <2>2, <3>1, <3>2
  <2>3. ASSUME t < currentTerm'[j], NEW n \in 1..b[j][t], g[t][n] = t
        PROVE  \/ n <= lastStored'[j] /\ SameUpTo(log'[j], g[t], n)
               \/ Abandoned(b, t, n)'
    <3>1. /\ n \in 1..a[j][t] /\ n \in Nat /\ n >= 1 /\ n <= a[j][t] /\ n <= Len(h[t])
          /\ h[t][n] = t
      BY <1>1, <1>3, <1>4, <1>7, <2>3 DEF SameUpTo
    <3>2. CASE Abandoned(a, t, n)
      BY <3>1, <3>2, AbandonedStays
    <3>3. CASE ~Abandoned(a, t, n)
      <4>1. t <= currentTerm[j] /\ Holds(h, j, t, n)
        BY <3>1, <3>3, Held
      <4>2. n <= lastStored'[j] /\ SameUpTo(log'[j], h[t], n)
        BY <3>1, <3>3, <4>1 DEF Keeps
      <4> QED BY <1>5, <3>1, <4>2
    <3> QED BY <3>2, <3>3
  <2> QED BY <1>1, <2>1, <2>2, <2>3
<1> QED BY <1>6, <1>7

-----------------------------------------------------------------------------
(* Each part of the invariant, from what a step does *)

\* A step, with the logs of the leaders and what was confirmed before it (h, a)
\* and after it (g, b).
Step(h, a, g, b) ==
  /\ TypeInv /\ TypeInv' /\ Queues /\ Queues' /\ StoredInv /\ StoredInv'
  /\ conf' = conf /\ TermsGrow /\ SafetyParts(h, a)
  /\ Past(g)' /\ GrowsTo(h, g) /\ b = Confirms(a)'

LEMMA StepSets ==
  ASSUME NEW h, NEW a, NEW g, NEW b, Step(h, a, g, b)
  PROVE  /\ h \in [Entry -> Log] /\ g \in [Entry -> Log] /\ Entry' = Entry /\ Log' = Log
         /\ b \in [Server -> [Entry -> Nat]] /\ a \in [Server -> [Entry -> Nat]]
         /\ Ordered(h)
<1>1. /\ TypeInv /\ TypeInv' /\ Queues' /\ StoredInv' /\ conf' = conf /\ Past(h) /\ Past(g)'
      /\ Confirming(h, a) /\ b = Confirms(a)' /\ Terms(h)
  BY DEF Step, SafetyParts
<1>2. a \in [Server -> [Entry -> Nat]]
  BY <1>1 DEF Confirming
<1>3. g \in [Entry -> Log]
  BY <1>1, StateFactsNext
<1>4. b \in [Server -> [Entry -> Nat]]
  BY <1>1, ConfirmsFacts
<1> QED BY <1>1, <1>2, <1>3, <1>4, SetsKept DEF Past, History, Terms

LEMMA StepTerm ==
  ASSUME NEW h, NEW a, NEW g, NEW b, Step(h, a, g, b), NEW t \in Entry
  PROVE  /\ t \in Nat /\ h[t] \in Log /\ g[t] \in Log /\ Len(h[t]) \in Nat /\ Len(g[t]) \in Nat
         /\ Matched(h[t], h) /\ SameUpTo(g[t], h[t], Len(h[t])) /\ Len(h[t]) <= Len(g[t])
         /\ Below(h[t], t)
<1>1. Past(h) /\ GrowsTo(h, g) /\ Terms(h)
  BY DEF Step, SafetyParts
<1>2. g[t] \in Log
  BY StepSets
<1>3. SameUpTo(g[t], h[t], Len(h[t]))
  BY <1>1 DEF GrowsTo
<1>4. h[t] \in Log /\ Len(h[t]) \in Nat /\ Matched(h[t], h)
  BY <1>1, PastFacts
<1> QED BY <1>1, <1>2, <1>3, <1>4, LogLen, EntryFacts DEF SameUpTo, Terms, Ordered

LEMMA StepServer ==
  ASSUME NEW h, NEW a, NEW g, NEW b, Step(h, a, g, b), NEW j \in Server
  PROVE  /\ log[j] \in Log /\ Len(log[j]) \in Nat /\ Matched(log[j], h)
         /\ lastStored[j] \in 1..Len(log[j]) /\ lastStored[j] \in Nat
         /\ SameUpTo(log[j], disk[j], lastStored[j])
         /\ log'[j] \in Log /\ Len(log'[j]) \in Nat /\ Matched(log'[j], g)
         /\ lastStored'[j] \in 1..Len(log'[j]) /\ lastStored'[j] \in Nat
         /\ SameUpTo(log'[j], disk'[j], lastStored'[j])
         /\ disk[j] \in Log /\ writes[j] \in Seq(Write) /\ Len(disk[j]) \in Nat
<1>1. /\ TypeInv /\ TypeInv' /\ Queues /\ StoredInv /\ Queues' /\ StoredInv' /\ conf' = conf
      /\ Past(h) /\ Past(g)'
  BY DEF Step, SafetyParts
<1>2. /\ log[j] \in Log /\ Len(log[j]) \in Nat /\ Matched(log[j], h)
      /\ lastStored[j] \in 1..Len(log[j])
      /\ SameUpTo(log[j], disk[j], lastStored[j])
  BY <1>1, StateFacts
<1>3. /\ log'[j] \in Log /\ Len(log'[j]) \in Nat /\ Matched(log'[j], g)
      /\ lastStored'[j] \in 1..Len(log'[j])
      /\ SameUpTo(log'[j], disk'[j], lastStored'[j])
  BY <1>1, StateFactsNext
<1>4. disk[j] \in Log /\ writes[j] \in Seq(Write) /\ Len(disk[j]) \in Nat
  BY <1>1, LogFacts
<1> QED BY <1>2, <1>3, <1>4

LEMMA StepTerms ==
  ASSUME NEW h, NEW a, NEW g, NEW b, Step(h, a, g, b), NEW j \in Server
  PROVE  /\ currentTerm[j] \in Entry /\ currentTerm'[j] \in Entry
         /\ currentTerm[j] \in Nat /\ currentTerm'[j] \in Nat
         /\ currentTerm[j] <= currentTerm'[j]
         /\ commitIndex[j] \in Nat /\ commitIndex[j] >= 1 /\ commitIndex'[j] \in Nat
         /\ TermsOf(j) /\ WritesOf(j, h)
<1>1. TypeInv /\ TypeInv' /\ conf' = conf /\ TermsGrow /\ Terms(h) /\ Writing(h)
  BY DEF Step, SafetyParts
<1>2. commitIndex[j] \in Nat /\ commitIndex[j] >= 1 /\ commitIndex'[j] \in Nat
  BY <1>1 DEF TypeInv, TypeOK, NonEmpty
<1> QED BY <1>1, <1>2, TermFacts, TermFactsNext DEF TermsGrow, Terms, Writing

LEMMA StepConfirms ==
  ASSUME NEW h, NEW a, NEW g, NEW b, Step(h, a, g, b), NEW j \in Server, NEW t \in Entry
  PROVE  /\ a[j][t] \in Nat /\ b[j][t] \in Nat /\ a[j][t] <= b[j][t] /\ a[j][t] <= Len(h[t])
         /\ t # currentTerm'[j] => b[j][t] = a[j][t]
         /\ t = currentTerm'[j] /\ LastTerm(log'[j]) = t => lastStored'[j] <= b[j][t]
<1>1. TypeInv /\ TypeInv' /\ conf' = conf /\ Confirming(h, a) /\ b = Confirms(a)'
  BY DEF Step, SafetyParts
<1>2. a[j][t] <= Len(h[t])
  BY <1>1 DEF Confirming
<1> QED BY <1>1, <1>2, ConfirmsFacts

\* What a server has on disk of its log stays there.
Stays(j) == lastStored[j] <= lastStored'[j] /\ SameUpTo(log'[j], log[j], lastStored[j])

LEMMA StaysKeeps ==
  ASSUME NEW h, NEW a, NEW g, NEW b, Step(h, a, g, b), NEW j \in Server, Stays(j)
  PROVE  Keeps(h, a, j)
<1> SUFFICES ASSUME NEW t \in Entry, NEW n \in Nat, Holds(h, j, t, n)
             PROVE  n <= lastStored'[j] /\ SameUpTo(log'[j], h[t], n)
  BY DEF Keeps
<1>1. /\ log[j] \in Log /\ log'[j] \in Log /\ lastStored[j] \in Nat /\ lastStored'[j] \in Nat
  BY StepServer
<1>2. n <= lastStored[j] /\ SameUpTo(log[j], h[t], n) /\ n <= lastStored'[j]
  BY <1>1 DEF Holds, Stays
<1>3. SameUpTo(log'[j], log[j], n)
  BY <1>1, <1>2, SameLess DEF Stays
<1> QED BY <1>2, <1>3, SameTrans

LEMMA StepConfirming ==
  ASSUME NEW h, NEW a, NEW g, NEW b, Step(h, a, g, b),
         \A j \in Server : Stays(j) \/ Keeps(h, a, j)
  PROVE  Confirming(g, b)'
<1>1. \A j \in Server : Keeps(h, a, j)
  BY StaysKeeps
<1>2. /\ TypeInv /\ TypeInv' /\ Queues' /\ StoredInv' /\ conf' = conf /\ TermsGrow /\ Past(h)
      /\ Confirming(h, a) /\ b = Confirms(a)' /\ Past(g)' /\ GrowsTo(h, g)
  BY DEF Step, SafetyParts
<1> QED BY <1>1, <1>2, ConfirmingStep

LEMMA StepAbandoned ==
  ASSUME NEW h, NEW a, NEW g, NEW b, Step(h, a, g, b), NEW t \in Entry, NEW n \in Nat,
         Abandoned(a, t, n)
  PROVE  Abandoned(b, t, n)'
<1>1. TypeInv /\ TypeInv' /\ conf' = conf /\ TermsGrow /\ Confirming(h, a) /\ b = Confirms(a)'
  BY DEF Step, SafetyParts
<1> QED BY <1>1, AbandonedStays

\* An entry of the past is as it was.
LEMMA StepEntry ==
  ASSUME NEW h, NEW a, NEW g, NEW b, Step(h, a, g, b), NEW t \in Entry, NEW n \in 1..Len(h[t])
  PROVE  g[t][n] = h[t][n] /\ n \in Nat /\ n \in 1..Len(g[t])
<1>1. SameUpTo(g[t], h[t], Len(h[t])) /\ Len(h[t]) \in Nat /\ Len(g[t]) \in Nat
  BY StepTerm
<1> QED BY <1>1 DEF SameUpTo

LEMMA CompleteQuiet ==
  ASSUME NEW h, NEW a, NEW b, Step(h, a, h, b)
  PROVE  Complete(h, b)'
<1>1. Entry' = Entry /\ Complete(h, a)
  BY StepSets DEF Step, SafetyParts
<1> SUFFICES ASSUME NEW t \in Entry, NEW u \in Entry, t < u, h[u] # << >>,
                    NEW n \in 1..Len(h[t]), h[t][n] = t
             PROVE  SameUpTo(h[u], h[t], n) \/ Abandoned(b, t, n)'
  BY <1>1 DEF Complete, SameUpTo
<1>2. SameUpTo(h[u], h[t], n) \/ Abandoned(a, t, n)
  BY <1>1 DEF Complete
<1>3. n \in Nat
  BY StepTerm
<1> QED BY <1>2, <1>3, StepAbandoned

-----------------------------------------------------------------------------
(* Elections *)

\* Leader completeness of a candidate that has won: a voter had the entry, or a
\* majority of voters will never have it.
LEMMA WinnerComplete ==
  ASSUME TypeInv, Queues, StoredInv, NEW h, NEW a, SafetyParts(h, a),
         NEW i \in Server, Quorum(votes[i]),
         NEW t \in Entry, t < currentTerm[i], NEW n \in 1..Len(h[t]), h[t][n] = t
  PROVE  SameUpTo(log[i], h[t], n) \/ Abandoned(a, t, n)
<1>0. Past(h) /\ Confirming(h, a) /\ Complete(h, a) /\ Covered(h, a) /\ Ordered(h)
      /\ h \in [Entry -> Log]
  BY DEF SafetyParts, Terms, Past, History
<1>1. /\ log[i] \in Log /\ Len(log[i]) \in Nat /\ Matched(log[i], h)
      /\ lastStored[i] \in 1..Len(log[i]) /\ lastStored[i] \in Nat
      /\ h[t] \in Log /\ Len(h[t]) \in Nat /\ n \in Nat /\ n >= 1
  BY <1>0, StateFacts, PastFacts
<1>2. votes[i] \subseteq Server /\ t \in Nat /\ currentTerm[i] \in Nat
  BY TermFacts, EntryFacts
<1>3. CASE \A j \in votes[i] : a[j][t] < n
  <2> DEFINE S == {j \in Server : currentTerm[j] > t /\ a[j][t] < n}
  <2>1. votes[i] \subseteq S /\ S \in SUBSET Server
    <3> SUFFICES ASSUME NEW j \in votes[i] PROVE currentTerm[j] > t /\ a[j][t] < n
      BY <1>2
    <3>1. currentTerm[j] >= currentTerm[i]
      BY <1>0 DEF Covered
    <3>2. currentTerm[j] \in Nat
      BY <1>2, TermFacts
    <3> QED BY <1>2, <1>3, <3>1, <3>2
  <2> HIDE DEF S
  <2>2. Quorum(S)
    BY <2>1, QuorumMonotone
  <2> QED BY <2>2 DEF S, Abandoned
<1>4. ASSUME NEW j \in votes[i], ~(a[j][t] < n)
      PROVE  SameUpTo(log[i], h[t], n) \/ Abandoned(a, t, n)
  <2>1. a[j][t] \in Nat /\ n \in 1..a[j][t]
    BY <1>0, <1>1, <1>2, <1>4 DEF Confirming
  <2>2. Covers(i, t, n) \/ Abandoned(a, t, n)
    BY <1>0, <2>1 DEF Covered, CoversVoter
  <2> DEFINE s == lastStored[i]
             u == log[i][s]
  <2>3. /\ s \in 1..Len(log[i]) /\ u \in Entry /\ u \in Nat /\ TermAt(log[i], s) = u
        /\ SameUpTo(log[i], h[u], s)
    BY <1>1, LogLen, EntryFacts DEF TermAt, Matched
  <2>4. CASE u = t /\ s >= n
    BY <1>1, <2>3, <2>4, SameLess
  <2>5. CASE u > t
    <3>1. h[u] \in Log /\ Len(h[u]) \in Nat /\ Matched(h[u], h)
      BY <1>0, <2>3, PastFacts
    <3>2. s <= Len(h[u]) /\ h[u][s] = u /\ h[u] # << >>
      BY <1>1, <2>3, <3>1 DEF SameUpTo
    <3>3. SameUpTo(h[u], h[t], n) \/ Abandoned(a, t, n)
      BY <1>0, <2>3, <2>5, <3>2 DEF Complete
    <3>4. ASSUME SameUpTo(h[u], h[t], n) PROVE n <= s
      <4> SUFFICES ASSUME s < n PROVE FALSE
        BY <1>1
      <4>1. n \in 1..Len(h[u]) /\ h[u][n] = t /\ s \in 1..n
        BY <1>1, <3>1, <3>4 DEF SameUpTo
      <4>2. h[u][s] <= h[u][n]
        BY <1>0, <3>1, <4>1, Sorted DEF Ordered
      <4> QED BY <1>2, <2>3, <2>5, <3>2, <4>1, <4>2
    <3>5. ASSUME SameUpTo(h[u], h[t], n) PROVE SameUpTo(log[i], h[t], n)
      <4>1. SameUpTo(log[i], h[u], n)
        BY <1>1, <2>3, <3>1, <3>4, <3>5, SameLess
      <4> QED BY <1>1, <3>5, <4>1, SameTrans
    <3> QED BY <3>3, <3>5
  <2> QED BY <2>2, <2>3, <2>4, <2>5 DEF Covers
<1> QED BY <1>3, <1>4

\* A leader adds an entry of its term to its log, which has what it must have.
LEMMA CompleteGrows ==
  ASSUME NEW h, NEW a, NEW g, NEW b, Step(h, a, g, b), NEW i \in Server,
         g = [h EXCEPT ![currentTerm[i]] = Append(log[i], currentTerm[i])],
         \A t \in Entry : t < currentTerm[i] =>
           \A n \in 1..Len(h[t]) :
             h[t][n] = t => SameUpTo(log[i], h[t], n) \/ Abandoned(a, t, n)
  PROVE  Complete(g, b)'
<1> DEFINE T == currentTerm[i]
<1>0. Entry' = Entry /\ Complete(h, a) /\ TypeInv /\ Past(h) /\ h \in [Entry -> Log] /\ T \in Entry
      /\ T \in Nat
  BY StepSets, StepTerms DEF Step, SafetyParts
<1>1. g[T] = Append(log[i], T) /\ \A t \in Entry : t # T => g[t] = h[t]
  BY <1>0
<1> HIDE DEF T
<1> SUFFICES ASSUME NEW t \in Entry, NEW u \in Entry, t < u, g[u] # << >>,
                    NEW n \in 1..Len(g[t]), g[t][n] = t
             PROVE  SameUpTo(g[u], g[t], n) \/ Abandoned(b, t, n)'
  BY <1>0 DEF Complete, SameUpTo
<1>2. /\ t \in Nat /\ u \in Nat /\ h[t] \in Log /\ g[t] \in Log /\ h[u] \in Log /\ g[u] \in Log
      /\ Len(h[t]) \in Nat /\ Len(g[t]) \in Nat /\ n \in Nat /\ n >= 1
      /\ SameUpTo(g[t], h[t], Len(h[t]))
  <2>1. /\ t \in Nat /\ h[t] \in Log /\ g[t] \in Log /\ Len(h[t]) \in Nat /\ Len(g[t]) \in Nat
        /\ SameUpTo(g[t], h[t], Len(h[t]))
    BY StepTerm
  <2>2. u \in Nat /\ h[u] \in Log /\ g[u] \in Log
    BY StepTerm
  <2> QED BY <2>1, <2>2
<1>3. log[i] \in Log /\ Len(log[i]) \in Nat
  BY StepServer
<1>4. CASE u = T
  <2>1. g[t] = h[t] /\ g[u] = Append(log[i], T)
    BY <1>1, <1>2, <1>4
  <2>2. SameUpTo(log[i], h[t], n) \/ Abandoned(a, t, n)
    BY <1>4, <2>1 DEF T
  <2>3. SameUpTo(log[i], h[t], n) => SameUpTo(g[u], h[t], n)
    <3>1. log[i] \in Seq(Entry)
      BY <1>3 DEF Log
    <3>2. Len(g[u]) = Len(log[i]) + 1 /\ \A k \in 1..Len(log[i]) : g[u][k] = log[i][k]
      BY <1>0, <2>1, <3>1
    <3> QED BY <1>2, <1>3, <3>2 DEF SameUpTo
  <2> QED BY <1>2, <2>1, <2>2, <2>3, StepAbandoned
<1>5. CASE u # T
  <2>0. h[u] # << >> /\ g[u] = h[u]
    BY <1>1, <1>5
  <2>1. CASE n <= Len(h[t])
    <3>1. n \in 1..Len(h[t]) /\ h[t][n] = t
      BY <1>2, <2>1 DEF SameUpTo
    <3>2. SameUpTo(h[u], h[t], n) \/ Abandoned(a, t, n)
      BY <1>0, <2>0, <3>1 DEF Complete
    <3>3. SameUpTo(h[u], h[t], n) => SameUpTo(g[u], g[t], n)
      <4>1. SameUpTo(h[t], g[t], n)
        BY <1>2, <2>1, SameLess
      <4> QED BY <1>2, <2>0, <4>1, SameTrans
    <3> QED BY <1>2, <3>2, <3>3, StepAbandoned
  <2>2. CASE n > Len(h[t])
    <3> DEFINE S == {j \in Server : currentTerm[j] >= u}
               R == {j \in Server : currentTerm[j] > t /\ a[j][t] < n}
    <3>1. Quorum(S)
      BY <1>0, <2>0, ReachedByMajority
    <3>2. S \subseteq R /\ R \in SUBSET Server
      <4> SUFFICES ASSUME NEW j \in Server, currentTerm[j] >= u
                   PROVE  currentTerm[j] > t /\ a[j][t] < n
        OBVIOUS
      <4>1. currentTerm[j] \in Nat /\ a[j][t] \in Nat /\ a[j][t] <= Len(h[t])
        BY StepTerms, StepConfirms
      <4> QED BY <1>2, <2>2, <4>1
    <3> HIDE DEF S, R
    <3>3. Quorum(R)
      BY <3>1, <3>2, QuorumMonotone
    <3>4. Abandoned(a, t, n)
      BY <3>3 DEF R, Abandoned
    <3> QED BY <1>2, <3>4, StepAbandoned
  <2> QED BY <1>2, <2>1, <2>2
<1> QED BY <1>4, <1>5

\* What the candidate has on disk is as recent as before, or more.
LEMMA CoversStays ==
  ASSUME NEW h, NEW a, NEW g, NEW b, Step(h, a, g, b), Ordered(g), NEW i \in Server, Stays(i),
         NEW t \in Entry, NEW n \in Nat, Covers(i, t, n)
  PROVE  Covers(i, t, n)'
<1> DEFINE s == lastStored[i]
           r == lastStored'[i]
<1>1. /\ log[i] \in Log /\ log'[i] \in Log /\ Len(log'[i]) \in Nat /\ Len(log[i]) \in Nat
      /\ s \in 1..Len(log[i]) /\ r \in 1..Len(log'[i]) /\ s \in Nat /\ r \in Nat
      /\ Matched(log'[i], g)
  BY StepServer
<1>2. s <= r /\ SameUpTo(log'[i], log[i], s)
  BY DEF Stays
<1>3. s \in 1..r /\ log'[i][s] = log[i][s]
  BY <1>1, <1>2 DEF SameUpTo
<1>4. log'[i][s] <= log'[i][r]
  BY <1>1, <1>3, Sorted, StepSets DEF Ordered
<1>5. log'[i][s] \in Nat /\ log'[i][r] \in Nat /\ t \in Nat
  <2>1. s \in 1..Len(log'[i])
    BY <1>1, <1>2
  <2>2. log'[i][s] \in Entry /\ log'[i][r] \in Entry
    BY <1>1, <2>1, LogLen
  <2> QED BY <2>2, EntryFacts
<1>6. TermAt(log[i], s) = log[i][s] /\ TermAt(log'[i], r) = log'[i][r]
  BY <1>1 DEF TermAt
<1> QED BY <1>1, <1>2, <1>3, <1>4, <1>5, <1>6 DEF Covers, TermAt

LEMMA StepCovered ==
  ASSUME NEW h, NEW a, NEW g, NEW b, Step(h, a, g, b), Ordered(g),
         \A i \in Server : votes'[i] # {} => Stays(i),
         \A i \in Server : \A j \in votes'[i] :
           /\ currentTerm'[j] >= currentTerm'[i]
           /\ CoversVoter(h, a, i, j, currentTerm'[i])
  PROVE  Covered(g, b)'
<1>1. Entry' = Entry
  BY StepSets
<1> SUFFICES ASSUME NEW i \in Server, NEW j \in votes'[i],
                    NEW t \in Entry, t < currentTerm'[i], NEW n \in 1..b[j][t], g[t][n] = t
             PROVE  Covers(i, t, n)' \/ Abandoned(b, t, n)'
  BY <1>1 DEF Covered, CoversVoter
<1>2. j \in Server
  BY DEF Step, TypeInv, TypeOK
<1>3. t \in Nat /\ currentTerm'[i] \in Nat /\ currentTerm'[j] \in Nat
      /\ currentTerm'[j] >= currentTerm'[i]
  BY <1>2, StepTerms, EntryFacts
<1>4. b[j][t] = a[j][t] /\ a[j][t] \in Nat /\ a[j][t] <= Len(h[t])
  BY <1>2, <1>3, StepConfirms
<1>5. Len(h[t]) \in Nat
  BY StepTerm
<1>6. n \in 1..Len(h[t]) /\ n \in 1..a[j][t] /\ n \in Nat
  BY <1>4, <1>5
<1>7. h[t][n] = t
  BY <1>6, StepEntry
<1>8. Covers(i, t, n) \/ Abandoned(a, t, n)
  BY <1>6, <1>7 DEF CoversVoter
<1> QED BY <1>6, <1>8, CoversStays, StepAbandoned

\* Candidates that only lose votes.
LEMMA CoveredStays ==
  ASSUME NEW h, NEW a, NEW g, NEW b, Step(h, a, g, b), Ordered(g),
         \A i \in Server :
           \/ votes'[i] = {}
           \/ votes'[i] \subseteq votes[i] /\ currentTerm'[i] = currentTerm[i] /\ Stays(i)
  PROVE  Covered(g, b)'
<1>1. \A i \in Server : votes'[i] # {} => Stays(i)
  OBVIOUS
<1>2. ASSUME NEW i \in Server, NEW j \in votes'[i]
      PROVE  currentTerm'[j] >= currentTerm'[i] /\ CoversVoter(h, a, i, j, currentTerm'[i])
  <2>1. j \in votes[i] /\ currentTerm'[i] = currentTerm[i]
    BY <1>2
  <2>2. currentTerm[j] >= currentTerm[i] /\ CoversVoter(h, a, i, j, currentTerm[i])
    BY <2>1 DEF Step, SafetyParts, Covered
  <2>3. j \in Server
    BY <2>1 DEF Step, TypeInv, TypeOK
  <2>4. /\ currentTerm'[j] \in Nat /\ currentTerm[j] \in Nat /\ currentTerm[j] <= currentTerm'[j]
        /\ currentTerm[i] \in Nat
    BY <2>3, StepTerms
  <2> QED BY <2>1, <2>2, <2>4
<1> QED BY <1>1, <1>2, StepCovered

-----------------------------------------------------------------------------
(* Messages, writes and what is counted *)

LEMMA BelowLater ==
  ASSUME NEW l \in Log, NEW t \in Nat, NEW u \in Nat, t <= u, Below(l, t)
  PROVE  Below(l, u)
<1> SUFFICES ASSUME NEW k \in 1..Len(l) PROVE l[k] <= u
  BY DEF Below
<1>1. l[k] \in Nat
  BY LogLen, EntryFacts
<1> QED BY <1>1 DEF Below

\* A server whose log and disk stay, and whose queue may get shorter.
LEMMA TermsStay ==
  ASSUME NEW h, NEW a, NEW g, NEW b, Step(h, a, g, b), NEW i \in Server,
         log'[i] = log[i], disk'[i] = disk[i],
         writes'[i] = writes[i],
         state'[i] = "leader" => state[i] = "leader" /\ currentTerm'[i] = currentTerm[i]
  PROVE  TermsOf(i)'
<1>1. /\ currentTerm[i] \in Nat /\ currentTerm'[i] \in Nat /\ currentTerm[i] <= currentTerm'[i]
      /\ TermsOf(i)
  BY StepTerms
<1>2. log[i] \in Log /\ disk[i] \in Log /\ writes[i] \in Seq(Write)
  BY StepServer
<1>3. Below(log[i], currentTerm'[i]) /\ Below(disk[i], currentTerm'[i])
  BY <1>1, <1>2, BelowLater DEF TermsOf
<1>4. ASSUME NEW k \in 1..Len(writes[i]), writes[i][k].op # "truncate"
      PROVE  Below(writes[i][k].entries, currentTerm'[i])
  <2>1. writes[i][k] \in Write
    BY <1>2
  <2>2. writes[i][k].entries \in Log
    BY <1>4, <2>1, WriteFacts
  <2> QED BY <1>1, <1>4, <2>2, BelowLater DEF TermsOf
<1> QED BY <1>1, <1>3, <1>4 DEF TermsOf, Below, LastTerm, TermAt

LEMMA StepTermsAll ==
  ASSUME NEW h, NEW a, NEW g, NEW b, Step(h, a, g, b), Ordered(g), \A i \in Server : TermsOf(i)'
  PROVE  Terms(g)'
<1>1. Entry' = Entry
  BY StepSets
<1> QED BY <1>1 DEF Terms, Ordered, Below

LEMMA FromLeaderGrows ==
  ASSUME NEW h, NEW a, NEW g, NEW b, Step(h, a, g, b), NEW m \in AppendEntries, FromLeader(m, h)
  PROVE  FromLeader(m, g)
<1> DEFINE t == m.term
           end == m.prev + Len(m.entries)
<1>1. /\ t \in Entry /\ end >= 1 /\ PartOf(m.entries, m.prev, h[t]) /\ h[t][end] = t
      /\ m.prevTerm = TermAt(h[t], m.prev)
  BY DEF FromLeader
<1>2. m.prev \in Nat /\ m.entries \in Log
  BY DEF AppendEntries
<1>3. Len(m.entries) \in Nat
  BY <1>2, LogLen
<1>4. Len(h[t]) \in Nat /\ Len(g[t]) \in Nat /\ Len(h[t]) <= Len(g[t])
  BY <1>1, StepTerm
<1>5. \A n \in 1..Len(h[t]) : g[t][n] = h[t][n]
  BY <1>1, StepEntry
<1>6. end \in 1..Len(h[t]) /\ end \in Nat
  BY <1>1, <1>2, <1>3, <1>4 DEF PartOf
<1>7. PartOf(m.entries, m.prev, g[t])
  <2>1. end <= Len(h[t]) /\ \A k \in 1..Len(m.entries) : m.entries[k] = h[t][m.prev + k]
    BY <1>1 DEF PartOf
  <2>2. \A k \in 1..Len(m.entries) : m.prev + k \in 1..Len(h[t])
    BY <1>2, <1>3, <1>4, <2>1
  <2> QED BY <1>4, <1>5, <1>6, <2>1, <2>2, SMTT(60) DEF PartOf
<1>8. m.prevTerm = TermAt(g[t], m.prev)
  <2>1. m.prev <= Len(h[t])
    BY <1>2, <1>3, <1>4, <1>6
  <2> QED BY <1>1, <1>2, <1>4, <1>5, <2>1 DEF TermAt
<1> QED BY <1>1, <1>5, <1>6, <1>7, <1>8 DEF FromLeader

LEMMA StepSending ==
  ASSUME NEW h, NEW a, NEW g, NEW b, Step(h, a, g, b),
         \A m \in msgs' : m.type = "AppendEntries" => m \in msgs \/ FromLeader(m, g)
  PROVE  Sending(g)'
<1>1. Entry' = Entry
  BY StepSets
<1>2. ASSUME NEW m \in msgs', m.type = "AppendEntries" PROVE FromLeader(m, g)
  <2>1. CASE m \in msgs
    <3>1. m \in AppendEntries
      BY <1>2, <2>1 DEF Step, TypeInv, QueuesOK, AppendEntriesResult
    <3>2. FromLeader(m, h)
      BY <1>2, <2>1 DEF Step, SafetyParts, Sending
    <3> QED BY <3>1, <3>2, FromLeaderGrows
  <2> QED BY <1>2, <2>1
<1> QED BY <1>1, <1>2 DEF Sending, FromLeader, PartOf, TermAt

\* What a leader sends, up to the entry of its term at the end of its log.
LEMMA LeaderSends ==
  ASSUME TypeInv, NEW g \in [Entry -> Log], NEW i \in Server, NEW j, NEW c,
         NEW l, l = g[currentTerm[i]], LastTerm(l) = currentTerm[i],
         NEW p \in ProgressType, p.next <= Len(l) + 1
  PROVE  FromLeader(sendAppendEntries(i, j, l, c, p), g)
<1> DEFINE m == sendAppendEntries(i, j, l, c, p)
           T == currentTerm[i]
<1>1. T \in Entry /\ T \in Nat /\ T >= 1 /\ l \in Log
  BY TermFacts, EntryFacts
<1>2. l \in Seq(Entry) /\ Len(l) \in Nat /\ Len(l) >= 1 /\ l[Len(l)] = T
  BY <1>1, LogLen, LastTermFacts
<1>3. p.next \in Nat \ {0}
  BY DEF ProgressType
<1>4. /\ m.term = T /\ m.prev = p.next - 1 /\ m.prevTerm = TermAt(l, p.next - 1)
      /\ m.entries = SubSeq(l, p.next, Len(l))
  BY DEF sendAppendEntries
<1>5. /\ Len(m.entries) = IF p.next <= Len(l) THEN Len(l) - p.next + 1 ELSE 0
      /\ \A k \in 1..Len(l) - p.next + 1 : m.entries[k] = l[p.next + k - 1]
  BY <1>2, <1>3, <1>4, SubSeqFacts, SMTT(60)
<1>6. m.prev + Len(m.entries) = Len(l)
  BY <1>2, <1>3, <1>4, <1>5
<1>7. PartOf(m.entries, m.prev, l)
  <2>1. \A k \in 1..Len(m.entries) : m.entries[k] = l[p.next - 1 + k]
    <3> SUFFICES ASSUME NEW k \in 1..Len(m.entries) PROVE m.entries[k] = l[p.next - 1 + k]
      OBVIOUS
    <3>1. k \in 1..Len(l) - p.next + 1
      BY <1>2, <1>3, <1>5
    <3>2. m.entries[k] = l[p.next + k - 1] /\ p.next + k - 1 = p.next - 1 + k
      BY <1>3, <1>5, <3>1
    <3> QED BY <3>2
  <2> HIDE DEF m
  <2>2. m.prev + Len(m.entries) <= Len(l)
    BY <1>2, <1>6
  <2>3. \A k \in 1..Len(m.entries) : m.entries[k] = l[m.prev + k]
    BY <1>4, <2>1
  <2> QED BY <2>2, <2>3 DEF PartOf
<1>8. ASSUME NEW x, x = m PROVE FromLeader(x, g)
  <2> HIDE DEF m
  <2>1. g[x.term] = l /\ x.prev + Len(x.entries) = Len(l)
    BY <1>4, <1>6, <1>8
  <2> QED BY <1>1, <1>2, <1>4, <1>7, <1>8, <2>1 DEF FromLeader
<1> QED BY <1>8

LEMMA StepWriting ==
  ASSUME NEW h, NEW a, NEW g, NEW b, Step(h, a, g, b), \A i \in Server : WritesOf(i, g)'
  PROVE  Writing(g)'
  BY DEF Writing

\* A server whose log stays, or ends with an entry of its term.
LEMMA WriteStays ==
  ASSUME NEW h, NEW a, NEW g, NEW b, Step(h, a, g, b), NEW i \in Server,
         log'[i] = log[i] \/ LastTerm(log'[i]) = currentTerm'[i],
         NEW w \in Write, w.op = "follower",
         WriteFromLeader(w, h, currentTerm[i], LastTerm(log[i]))
  PROVE  WriteFromLeader(w, g, currentTerm'[i], LastTerm(log'[i]))
<1>1. /\ currentTerm[i] \in Nat /\ currentTerm'[i] \in Nat /\ currentTerm[i] <= currentTerm'[i]
  BY StepTerms
<1>2. /\ w.term \in Entry /\ w.term <= currentTerm[i] /\ w.entries # << >>
      /\ PartOf(w.entries, w.index - 1, h[w.term])
      /\ w.term = currentTerm[i] => LastTerm(log[i]) = currentTerm[i]
  BY DEF WriteFromLeader
<1>3. w.term \in Nat /\ Len(h[w.term]) \in Nat /\ Len(g[w.term]) \in Nat
      /\ Len(h[w.term]) <= Len(g[w.term])
  BY <1>2, StepTerm
<1>4. w.index \in Nat \ {0} /\ w.entries \in Log
  BY WriteFacts
<1>5. Len(w.entries) \in Nat
  BY <1>4, LogLen
<1>6. PartOf(w.entries, w.index - 1, g[w.term])
  <2>1. \A k \in 1..Len(w.entries) : w.index - 1 + k \in 1..Len(h[w.term])
    BY <1>2, <1>3, <1>4, <1>5 DEF PartOf
  <2>2. \A n \in 1..Len(h[w.term]) : g[w.term][n] = h[w.term][n]
    BY <1>2, StepEntry
  <2>3. w.index - 1 + Len(w.entries) <= Len(g[w.term])
    <3>1. w.index - 1 + Len(w.entries) <= Len(h[w.term])
      BY <1>2 DEF PartOf
    <3>2. PICK x, n, y, z : /\ x = w.index /\ n = Len(w.entries)
                            /\ y = Len(h[w.term]) /\ z = Len(g[w.term])
      OBVIOUS
    <3>3. x \in Nat /\ n \in Nat /\ y \in Nat /\ z \in Nat /\ y <= z /\ x - 1 + n <= y
      BY <1>3, <1>4, <1>5, <3>1, <3>2
    <3>4. x - 1 + n <= z
      BY <3>3
    <3> QED BY <3>2, <3>4
  <2> QED BY <1>2, <2>1, <2>2, <2>3 DEF PartOf
<1>7. w.term <= currentTerm'[i]
  BY <1>1, <1>2, <1>3
<1>8. w.term = currentTerm'[i] => LastTerm(log'[i]) = currentTerm'[i]
  BY <1>1, <1>2, <1>3
<1> QED BY <1>2, <1>6, <1>7, <1>8 DEF WriteFromLeader

LEMMA WritesStay ==
  ASSUME NEW h, NEW a, NEW g, NEW b, Step(h, a, g, b), NEW i \in Server,
         log'[i] = log[i] \/ LastTerm(log'[i]) = currentTerm'[i],
         \A k \in 1..Len(writes'[i]) :
           writes'[i][k].op = "follower" =>
             \/ \E n \in 1..Len(writes[i]) : writes'[i][k] = writes[i][n]
             \/ WriteFromLeader(writes'[i][k], g, currentTerm'[i], LastTerm(log'[i]))
  PROVE  WritesOf(i, g)'
<1>0. Entry' = Entry
  BY StepSets
<1> SUFFICES ASSUME NEW k \in 1..Len(writes'[i]), writes'[i][k].op = "follower"
             PROVE  WriteFromLeader(writes'[i][k], g, currentTerm'[i], LastTerm(log'[i]))
  BY <1>0 DEF WritesOf, WriteFromLeader, PartOf, LastTerm, TermAt
<1>1. ASSUME NEW n \in 1..Len(writes[i]), writes'[i][k] = writes[i][n]
      PROVE  WriteFromLeader(writes'[i][k], g, currentTerm'[i], LastTerm(log'[i]))
  <2>1. WritesOf(i, h) /\ writes[i] \in Seq(Write)
    BY StepTerms, StepServer
  <2>2. /\ writes[i][n] \in Write /\ writes[i][n].op = "follower"
        /\ WriteFromLeader(writes[i][n], h, currentTerm[i], LastTerm(log[i]))
    BY <1>1, <2>1 DEF WritesOf
  <2>3. WriteFromLeader(writes[i][n], g, currentTerm'[i], LastTerm(log'[i]))
    BY <2>2, WriteStays
  <2> QED BY <1>1, <2>3
<1> QED BY <1>1

LEMMA StepCounting ==
  ASSUME NEW h, NEW a, NEW g, NEW b, Step(h, a, g, b),
         \A m \in msgs' : m.type = "AppendEntriesResult" =>
           m \in msgs \/ (m.term \in Entry /\ (m.rejected = 0 => m.last <= b[m.from][m.term])),
         \A i, j \in Server : state'[i] = "leader" =>
           progress'[i][j].match <= b[j][currentTerm'[i]]
  PROVE  Counting(b)'
<1>1. Entry' = Entry
  BY StepSets
<1>2. ASSUME NEW m \in msgs', m.type = "AppendEntriesResult", m \in msgs
      PROVE  m.term \in Entry /\ (m.rejected = 0 => m.last <= b[m.from][m.term])
  <2>1. m.term \in Entry /\ (m.rejected = 0 => m.last <= a[m.from][m.term])
    BY <1>2 DEF Step, SafetyParts, Counting
  <2>2. m \in AppendEntriesResult
    BY <1>2 DEF Step, TypeInv, QueuesOK, AppendEntries
  <2>3. m.last \in Nat /\ m.from \in Server
    BY <2>2 DEF AppendEntriesResult
  <2>4. /\ a[m.from][m.term] \in Nat /\ b[m.from][m.term] \in Nat
        /\ a[m.from][m.term] <= b[m.from][m.term]
    BY <2>1, <2>3, StepConfirms
  <2> QED BY <2>1, <2>3, <2>4
<1> QED BY <1>1, <1>2 DEF Counting

\* A leader whose counts stay.
LEMMA CountsStay ==
  ASSUME NEW h, NEW a, NEW g, NEW b, Step(h, a, g, b), NEW i \in Server, NEW j \in Server,
         state[i] = "leader", currentTerm'[i] = currentTerm[i],
         NEW n \in Nat, n <= progress[i][j].match
  PROVE  n <= b[j][currentTerm'[i]]
<1>1. progress[i][j].match <= a[j][currentTerm[i]]
  BY DEF Step, SafetyParts, Counting
<1>2. progress[i][j].match \in Nat
  BY DEF Step, TypeInv, TypeOK
<1>3. currentTerm[i] \in Entry
  BY StepTerms
<1>4. LET t == currentTerm[i] IN a[j][t] \in Nat /\ b[j][t] \in Nat /\ a[j][t] <= b[j][t]
  BY <1>3, StepConfirms
<1> QED BY <1>1, <1>2, <1>4

-----------------------------------------------------------------------------
(* Commit indexes, and what is applied *)

LEMMA StepCommitted ==
  ASSUME NEW h, NEW a, NEW g, NEW b, Step(h, a, g, b), NEW t, NEW n \in Nat, Committed(h, a, t, n)
  PROVE  Committed(g, b, t, n)
<1>1. /\ TypeInv /\ TypeInv' /\ conf' = conf /\ Past(h) /\ Confirming(h, a) /\ b = Confirms(a)'
      /\ GrowsTo(h, g) /\ g \in [Entry -> Log]
  BY StepSets DEF Step, SafetyParts
<1> QED BY <1>1, CommittedGrows

LEMMA CommittedByStep ==
  ASSUME NEW h, NEW a, NEW g, NEW b, Step(h, a, g, b), NEW c, NEW u \in Int, NEW v \in Int, u <= v,
         CommittedBy(h, a, c, u)
  PROVE  CommittedBy(g, b, c, v)
<1>1. CASE c <= 1
  BY <1>1 DEF CommittedBy
<1>2. ASSUME NEW t \in Entry, NEW n \in Nat, t <= u, c <= n, Committed(h, a, t, n)
      PROVE  CommittedBy(g, b, c, v)
  <2>1. Committed(g, b, t, n)
    BY <1>2, StepCommitted
  <2>2. t <= v
    BY <1>2, EntryFacts
  <2> QED BY <1>2, <2>1, <2>2 DEF CommittedBy
<1> QED BY <1>1, <1>2 DEF CommittedBy

\* x begins as l did.
LEMMA CommittedLogStep ==
  ASSUME NEW h, NEW a, NEW g, NEW b, Step(h, a, g, b), NEW l, NEW c \in Nat,
         NEW u \in Int, NEW v \in Int, u <= v, CommittedLog(h, a, l, c, u),
         NEW x, SameUpTo(x, l, c)
  PROVE  CommittedLog(g, b, x, c, v)
<1>1. CASE c <= 1
  BY <1>1 DEF CommittedLog
<1>2. ASSUME NEW t \in Entry, NEW n \in Nat, t <= u, c <= n, Committed(h, a, t, n),
             SameUpTo(l, h[t], c)
      PROVE  CommittedLog(g, b, x, c, v)
  <2>1. Committed(g, b, t, n)
    BY <1>2, StepCommitted
  <2>2. t <= v
    BY <1>2, EntryFacts
  <2>3. /\ h[t] \in Log /\ g[t] \in Log /\ Len(h[t]) \in Nat
        /\ SameUpTo(g[t], h[t], Len(h[t]))
    BY StepTerm
  <2>4. SameUpTo(x, h[t], c) /\ c <= Len(h[t])
    BY <1>2, SameTrans DEF SameUpTo
  <2>5. SameUpTo(h[t], g[t], c)
    BY <2>3, <2>4, SameLess
  <2>6. SameUpTo(x, g[t], c)
    BY <2>4, <2>5, SameTrans
  <2> QED BY <1>2, <2>1, <2>2, <2>6 DEF CommittedLog
<1> QED BY <1>1, <1>2 DEF CommittedLog

LEMMA CommittedLess ==
  ASSUME NEW h \in [Entry -> Log], NEW a, NEW l \in Log, NEW c \in Nat, NEW d \in Nat, d <= c,
         NEW u, CommittedLog(h, a, l, c, u)
  PROVE  CommittedLog(h, a, l, d, u)
<1>1. CASE d <= 1
  BY <1>1 DEF CommittedLog
<1>2. ASSUME NEW t \in Entry, NEW n \in Nat, t <= u, c <= n, Committed(h, a, t, n),
             SameUpTo(l, h[t], c)
      PROVE  CommittedLog(h, a, l, d, u)
  <2>1. SameUpTo(l, h[t], d)
    BY <1>2, SameLess
  <2>2. d <= n
    BY <1>2
  <2> QED BY <1>2, <2>1, <2>2 DEF CommittedLog
<1> QED BY <1>1, <1>2 DEF CommittedLog

\* The commit index of a server after the step, and what it says of its log.
CommitsOf(i, g, b) ==
  /\ CommittedBy(g, b, commitIndex'[i], currentTerm'[i])
  /\ \A c \in 1..Len(log'[i]) :
       c <= commitIndex'[i] => CommittedLog(g, b, log'[i], c, currentTerm'[i])

LEMMA CommitsStay ==
  ASSUME NEW h, NEW a, NEW g, NEW b, Step(h, a, g, b), NEW i \in Server,
         commitIndex'[i] = commitIndex[i], SameUpTo(log'[i], log[i], Len(log'[i]))
  PROVE  CommitsOf(i, g, b)
<1>1. /\ currentTerm[i] \in Nat /\ currentTerm'[i] \in Nat /\ currentTerm[i] <= currentTerm'[i]
  BY StepTerms
<1>2. /\ log[i] \in Log /\ log'[i] \in Log /\ Len(log'[i]) \in Nat /\ Len(log[i]) \in Nat
  BY StepServer
<1>3. CommittedBy(g, b, commitIndex[i], currentTerm'[i])
  BY <1>1, CommittedByStep DEF Step, SafetyParts, Committing
<1>4. ASSUME NEW c \in 1..Len(log'[i]), c <= commitIndex[i]
      PROVE  CommittedLog(g, b, log'[i], c, currentTerm'[i])
  <2>1. c \in 1..Len(log[i]) /\ c \in Nat /\ SameUpTo(log'[i], log[i], c)
    BY <1>2 DEF SameUpTo
  <2>2. CommittedLog(h, a, log[i], c, currentTerm[i])
    BY <1>4, <2>1 DEF Step, SafetyParts, Committing
  <2> QED BY <1>1, <2>1, <2>2, CommittedLogStep
<1> QED BY <1>3, <1>4 DEF CommitsOf

LEMMA CommittingNext ==
  ASSUME conf' = conf, NEW g, NEW b, \A i \in Server : CommitsOf(i, g, b),
         \A m \in msgs' : m.type = "AppendEntries" => CommittedBy(g, b, m.commit, m.term),
         \A i \in Server : \A k \in 1..Len(writes'[i]) :
           writes'[i][k].op = "follower" =>
             CommittedBy(g, b, writes'[i][k].commit, writes'[i][k].term)
  PROVE  Committing(g, b)'
<1>1. Entry' = Entry
  BY SetsKept
<1>2. \A t, n : Committed(g, b, t, n) <=> Committed(g, b, t, n)'
  BY <1>1 DEF Committed, Quorum
<1>3. (\A i \in Server : CommittedBy(g, b, commitIndex[i], currentTerm[i]))'
  <2>1. \A i \in Server : CommittedBy(g, b, commitIndex'[i], currentTerm'[i])
    BY DEF CommitsOf
  <2> QED BY <1>1, <1>2, <2>1 DEF CommittedBy
<1>4. (\A m \in msgs : m.type = "AppendEntries" => CommittedBy(g, b, m.commit, m.term))'
  BY <1>1, <1>2 DEF CommittedBy
<1>5. (\A i \in Server : \A k \in 1..Len(writes[i]) :
         writes[i][k].op = "follower" =>
           CommittedBy(g, b, writes[i][k].commit, writes[i][k].term))'
  BY <1>1, <1>2 DEF CommittedBy
<1>6. (\A i \in Server : \A c \in 1..Len(log[i]) :
         c <= commitIndex[i] => CommittedLog(g, b, log[i], c, currentTerm[i]))'
  <2>1. \A i \in Server : \A c \in 1..Len(log'[i]) :
          c <= commitIndex'[i] => CommittedLog(g, b, log'[i], c, currentTerm'[i])
    BY DEF CommitsOf
  <2> QED BY <1>1, <1>2, <2>1 DEF CommittedLog, SameUpTo
<1> QED BY <1>3, <1>4, <1>5, <1>6 DEF Committing

LEMMA StepCommitting ==
  ASSUME NEW h, NEW a, NEW g, NEW b, Step(h, a, g, b),
         \A i \in Server : CommitsOf(i, g, b),
         \A m \in msgs' : m.type = "AppendEntries" =>
           m \in msgs \/ CommittedBy(g, b, m.commit, m.term),
         \A i \in Server : \A k \in 1..Len(writes'[i]) :
           writes'[i][k].op = "follower" =>
             \/ \E n \in 1..Len(writes[i]) : writes'[i][k] = writes[i][n]
             \/ CommittedBy(g, b, writes'[i][k].commit, writes'[i][k].term)
  PROVE  Committing(g, b)'
<1>1. ASSUME NEW m \in msgs', m.type = "AppendEntries"
      PROVE  CommittedBy(g, b, m.commit, m.term)
  <2>1. CASE m \in msgs
    <3>1. CommittedBy(h, a, m.commit, m.term) /\ FromLeader(m, h)
      BY <1>1, <2>1 DEF Step, SafetyParts, Committing, Sending
    <3>2. m.term \in Int /\ m.term <= m.term
      BY <3>1, EntryFacts DEF FromLeader
    <3> QED BY <3>1, <3>2, CommittedByStep
  <2> QED BY <1>1, <2>1
<1>2. ASSUME NEW i \in Server, NEW k \in 1..Len(writes'[i]), writes'[i][k].op = "follower"
      PROVE  CommittedBy(g, b, writes'[i][k].commit, writes'[i][k].term)
  <2>1. ASSUME NEW n \in 1..Len(writes[i]), writes'[i][k] = writes[i][n]
        PROVE  CommittedBy(g, b, writes'[i][k].commit, writes'[i][k].term)
    <3>1. CommittedBy(h, a, writes[i][n].commit, writes[i][n].term) /\ WritesOf(i, h)
      BY <1>2, <2>1 DEF Step, SafetyParts, Committing, Writing
    <3>2. writes[i][n].term \in Int /\ writes[i][n].term <= writes[i][n].term
      <4>1. writes[i][n].term \in Entry
        BY <1>2, <2>1, <3>1 DEF WritesOf, WriteFromLeader
      <4> QED BY <4>1, EntryFacts
    <3>3. CommittedBy(g, b, writes[i][n].commit, writes[i][n].term)
      BY <3>1, <3>2, CommittedByStep
    <3> QED BY <2>1, <3>3
  <2> QED BY <1>2, <2>1
<1>3. conf' = conf
  BY DEF Step
<1> QED BY <1>1, <1>2, <1>3, CommittingNext

\* A log that begins as that of the leader of term u has what was committed up
\* to that term.
LEMMA CommittedPrefix ==
  ASSUME TypeInv, NEW h, NEW a, Past(h), Confirming(h, a), Complete(h, a),
         NEW l \in Log, NEW u \in Entry, NEW k \in Nat, SameUpTo(l, h[u], k), h[u] # << >>,
         NEW c \in Nat, k <= c, CommittedBy(h, a, c, u)
  PROVE  CommittedLog(h, a, l, k, u)
<1>1. CASE c <= 1
  BY <1>1 DEF CommittedLog
<1>2. ASSUME NEW t \in Entry, NEW n \in Nat, t <= u, c <= n, Committed(h, a, t, n)
      PROVE  CommittedLog(h, a, l, k, u)
  <2>1. SameUpTo(h[u], h[t], n)
    BY <1>2, CommittedInLater
  <2>2. h[u] \in Log /\ h[t] \in Log
    BY PastFacts
  <2>3. k <= n
    BY <1>2
  <2>4. SameUpTo(h[u], h[t], k)
    BY <2>1, <2>2, <2>3, SameLess
  <2>5. SameUpTo(l, h[t], k)
    BY <2>4, SameTrans
  <2> QED BY <1>2, <2>3, <2>5 DEF CommittedLog
<1> QED BY <1>1, <1>2 DEF CommittedBy

\* What a follower commits: up to what the leader had committed, and only what it
\* has stored of that leader's log.
LEMMA FollowerCommits ==
  ASSUME NEW h, NEW a, NEW b, Step(h, a, h, b), NEW i \in Server, log'[i] = log[i],
         NEW lc \in Nat, NEW stored \in Nat, NEW u \in Entry, u <= currentTerm'[i],
         h[u] # << >>, SameUpTo(log[i], h[u], stored), CommittedBy(h, a, lc, u),
         NEW c, c = FollowerCommit(i, lc, stored)
  PROVE  \/ c = commitIndex[i]
         \/ /\ c \in Nat /\ c > commitIndex[i] /\ c <= Len(log[i])
            /\ CommittedLog(h, b, log[i], c, currentTerm'[i])
<1>1. CASE ~(lc > commitIndex[i] /\ stored >= commitIndex[i])
  BY <1>1 DEF FollowerCommit
<1>2. CASE lc > commitIndex[i] /\ stored >= commitIndex[i]
  <2>1. commitIndex[i] \in Nat /\ currentTerm'[i] \in Nat /\ u \in Nat
    BY StepTerms, EntryFacts
  <2>2. c = Min({lc, stored})
    BY <1>2 DEF FollowerCommit
  <2>3. c \in {lc, stored} /\ c <= lc /\ c <= stored
    BY <2>2, MinOfTwo
  <2>4. c \in Nat /\ c >= commitIndex[i]
    BY <1>2, <2>1, <2>3
  <2>5. log[i] \in Log /\ Len(log[i]) \in Nat /\ h[u] \in Log
    BY StepServer, StepTerm
  <2>6. SameUpTo(log[i], h[u], c) /\ c <= Len(log[i])
    BY <2>3, <2>4, <2>5, SameLess DEF SameUpTo
  <2>7. CommittedLog(h, a, log[i], c, u)
    BY <2>3, <2>4, <2>5, <2>6, CommittedPrefix DEF Step, SafetyParts
  <2>8. SameUpTo(log[i], log[i], c)
    BY <2>6 DEF SameUpTo
  <2>9. CommittedLog(h, b, log[i], c, currentTerm'[i])
    BY <2>1, <2>4, <2>7, <2>8, CommittedLogStep
  <2> QED BY <2>1, <2>4, <2>6, <2>9
<1> QED BY <1>1, <1>2

\* What a leader commits: an entry of its term that a majority has confirmed.
LEMMA LeaderCommits ==
  ASSUME NEW h, NEW a, NEW b, Step(h, a, h, b), NEW i \in Server, state[i] = "leader",
         currentTerm'[i] = currentTerm[i], NEW prog,
         \A j \in Server : prog[j].match \in Nat /\ prog[j].match <= b[j][currentTerm[i]],
         NEW index \in Nat, index <= Len(log[i]),
         NEW c, c = LeaderCommit(i, log[i], prog, index)
  PROVE  \/ c = commitIndex[i]
         \/ /\ c \in Nat /\ c > commitIndex[i] /\ c <= Len(log[i])
            /\ CommittedLog(h, b, log[i], c, currentTerm'[i])
<1> DEFINE T == currentTerm[i]
           S == {j \in Server : prog[j].match >= index}
           R == {j \in Server : b[j][T] >= index}
<1>1. SUFFICES ASSUME c # commitIndex[i]
               PROVE  /\ c \in Nat /\ c > commitIndex[i] /\ c <= Len(log[i])
                      /\ CommittedLog(h, b, log[i], c, T)
  OBVIOUS
<1>2. c = index /\ index > commitIndex[i] /\ TermAt(log[i], index) = T /\ Quorum(S)
  BY <1>1 DEF LeaderCommit, Quorum
<1>3. commitIndex[i] \in Nat /\ commitIndex[i] >= 1 /\ T \in Entry /\ T \in Nat
  BY StepTerms
<1>4. Len(log[i]) \in Nat /\ log[i] = h[T]
  BY StepServer DEF Step, SafetyParts, Past, History
<1>5. index \in 1..Len(h[T]) /\ h[T][index] = T
  BY <1>2, <1>3, <1>4 DEF TermAt
<1>6. S \subseteq R /\ R \in SUBSET Server
  <2> SUFFICES ASSUME NEW j \in Server, prog[j].match >= index PROVE b[j][T] >= index
    OBVIOUS
  <2>1. b[j][T] \in Nat /\ prog[j].match \in Nat /\ prog[j].match <= b[j][T]
    BY <1>3, StepConfirms
  <2> QED BY <2>1
<1>7. Quorum(R)
  <2> HIDE DEF S, R
  <2> QED BY <1>2, <1>6, QuorumMonotone
<1>8. Committed(h, b, T, index)
  BY <1>3, <1>5, <1>7 DEF Committed
<1>9. SameUpTo(log[i], h[T], index)
  BY <1>4, <1>5 DEF SameUpTo
<1> HIDE DEF T
<1>10. CommittedLog(h, b, log[i], index, T)
  BY <1>3, <1>8, <1>9 DEF CommittedLog
<1> QED BY <1>2, <1>10

\* The entries applied by a server after the step.
AppliesOf(i, g, b) ==
  /\ Len(applied'[i]) = commitIndex'[i] /\ applied'[i][1] = 1
  /\ CommittedLog(g, b, applied'[i], Len(applied'[i]), Conf.maxTerm)
  /\ Len(applied'[i]) <= Len(chosen')

LEMMA ApplyingNext ==
  ASSUME conf' = conf, NEW g, NEW b, \A i \in Server : AppliesOf(i, g, b),
         Len(chosen') >= 1, chosen'[1] = 1,
         CommittedLog(g, b, chosen', Len(chosen'), Conf.maxTerm)
  PROVE  Applying(g, b)'
<1>1. Entry' = Entry /\ Conf' = Conf
  BY SetsKept
<1>2. \A t, n : Committed(g, b, t, n) <=> Committed(g, b, t, n)'
  BY <1>1 DEF Committed, Quorum
<1>3. (\A i \in Server : Len(applied[i]) = commitIndex[i] /\ applied[i][1] = 1
                         /\ Len(applied[i]) <= Len(chosen))'
  BY DEF AppliesOf
<1>4. (\A i \in Server : CommittedLog(g, b, applied[i], Len(applied[i]), Conf.maxTerm))'
  <2>1. \A i \in Server : CommittedLog(g, b, applied'[i], Len(applied'[i]), Conf.maxTerm)
    BY DEF AppliesOf
  <2> QED BY <1>1, <1>2, <2>1 DEF CommittedLog, SameUpTo
<1>5. CommittedLog(g, b, chosen, Len(chosen), Conf.maxTerm)'
  BY <1>1, <1>2 DEF CommittedLog, SameUpTo
<1> QED BY <1>3, <1>4, <1>5 DEF Applying

LEMMA AppliedFacts ==
  ASSUME NEW h, NEW a, NEW g, NEW b, Step(h, a, g, b), NEW i \in Server
  PROVE  /\ applied[i] \in Log /\ Len(applied[i]) \in Nat /\ chosen \in Log /\ Len(chosen) \in Nat
         /\ Len(applied[i]) = commitIndex[i] /\ applied[i][1] = 1
         /\ CommittedLog(h, a, applied[i], Len(applied[i]), Conf.maxTerm)
         /\ Len(applied[i]) <= Len(chosen) /\ Len(chosen) >= 1 /\ chosen[1] = 1
         /\ CommittedLog(h, a, chosen, Len(chosen), Conf.maxTerm)
         /\ Conf.maxTerm \in Int
<1>1. applied[i] \in Log /\ chosen \in Log /\ conf \in DOMAIN Configurations
  BY DEF Step, TypeInv, TypeOK, QueuesOK
<1>2. Conf.maxTerm \in Nat
  BY <1>1, ConfFacts
<1> QED BY <1>1, <1>2, LogLen DEF Step, SafetyParts, Applying

\* A server that applies nothing, or starts again with the first entry.
LEMMA AppliesStay ==
  ASSUME NEW h, NEW a, NEW g, NEW b, Step(h, a, g, b), NEW i \in Server,
         \/ applied'[i] = applied[i] /\ commitIndex'[i] = commitIndex[i]
         \/ Len(applied'[i]) = 1 /\ commitIndex'[i] = 1 /\ applied'[i][1] = 1,
         Len(chosen') \in Nat, Len(chosen') >= Len(chosen)
  PROVE  AppliesOf(i, g, b)
<1>1. /\ Len(applied[i]) \in Nat /\ Len(chosen) \in Nat
      /\ Len(applied[i]) = commitIndex[i] /\ applied[i][1] = 1
      /\ CommittedLog(h, a, applied[i], Len(applied[i]), Conf.maxTerm)
      /\ Len(applied[i]) <= Len(chosen) /\ Len(chosen) >= 1 /\ Conf.maxTerm \in Int
  BY AppliedFacts
<1>2. CASE applied'[i] = applied[i] /\ commitIndex'[i] = commitIndex[i]
  <2>1. SameUpTo(applied[i], applied[i], Len(applied[i]))
    BY <1>1 DEF SameUpTo
  <2>2. CommittedLog(g, b, applied[i], Len(applied[i]), Conf.maxTerm)
    BY <1>1, <2>1, CommittedLogStep
  <2> QED BY <1>1, <1>2, <2>2 DEF AppliesOf
<1>3. CASE Len(applied'[i]) = 1 /\ commitIndex'[i] = 1 /\ applied'[i][1] = 1
  BY <1>1, <1>3 DEF AppliesOf, CommittedLog
<1> QED BY <1>2, <1>3

LEMMA ChosenStays ==
  ASSUME NEW h, NEW a, NEW g, NEW b, Step(h, a, g, b), chosen' = chosen
  PROVE  /\ Len(chosen') \in Nat /\ Len(chosen') >= Len(chosen) /\ Len(chosen') >= 1
         /\ chosen'[1] = 1 /\ CommittedLog(g, b, chosen', Len(chosen'), Conf.maxTerm)
<1>1. PICK i \in Server : TRUE
  BY ReplicationAssumption, FS_EmptySet
<1>2. /\ Len(chosen) \in Nat /\ Len(chosen) >= 1 /\ chosen[1] = 1
      /\ CommittedLog(h, a, chosen, Len(chosen), Conf.maxTerm) /\ Conf.maxTerm \in Int
  BY AppliedFacts
<1>3. SameUpTo(chosen, chosen, Len(chosen))
  BY <1>2 DEF SameUpTo
<1>4. CommittedLog(g, b, chosen, Len(chosen), Conf.maxTerm)
  BY <1>2, <1>3, CommittedLogStep
<1> QED BY <1>2, <1>4

LEMMA StepApplying ==
  ASSUME NEW h, NEW a, NEW g, NEW b, Step(h, a, g, b), chosen' = chosen,
         \A i \in Server :
           \/ applied'[i] = applied[i] /\ commitIndex'[i] = commitIndex[i]
           \/ Len(applied'[i]) = 1 /\ commitIndex'[i] = 1 /\ applied'[i][1] = 1
  PROVE  Applying(g, b)'
<1>1. /\ Len(chosen') \in Nat /\ Len(chosen') >= Len(chosen) /\ Len(chosen') >= 1
      /\ chosen'[1] = 1 /\ CommittedLog(g, b, chosen', Len(chosen'), Conf.maxTerm)
  BY ChosenStays
<1>2. \A i \in Server : AppliesOf(i, g, b)
  BY <1>1, AppliesStay
<1>3. conf' = conf
  BY DEF Step
<1> QED BY <1>1, <1>2, <1>3, ApplyingNext

\* What is applied of a log agrees with what is committed of it.
LEMMA AppliedSame ==
  ASSUME NEW h, NEW a, NEW g, NEW b, Step(h, a, g, b), NEW i \in Server,
         commitIndex[i] <= Len(log[i])
  PROVE  SameUpTo(applied[i], log[i], commitIndex[i])
<1>1. /\ applied[i] \in Log /\ Len(applied[i]) = commitIndex[i] /\ applied[i][1] = 1
      /\ CommittedLog(h, a, applied[i], Len(applied[i]), Conf.maxTerm)
  BY AppliedFacts
<1>2. commitIndex[i] \in Nat /\ commitIndex[i] >= 1 /\ log[i][1] = 1
  BY StepTerms DEF TermsOf
<1>3. log[i] \in Log /\ Len(log[i]) \in Nat
  BY StepServer
<1>4. CommittedLog(h, a, log[i], commitIndex[i], currentTerm[i])
  BY <1>2, <1>3 DEF Step, SafetyParts, Committing
<1>5. TypeInv /\ Past(h) /\ Confirming(h, a) /\ Complete(h, a)
  BY DEF Step, SafetyParts
<1>6. CommittedLog(h, a, applied[i], commitIndex[i], Conf.maxTerm)
  BY <1>1
<1>7. commitIndex[i] <= commitIndex[i] /\ commitIndex[i] <= Len(applied[i])
  BY <1>1, <1>2
<1> QED BY <1>1, <1>2, <1>3, <1>4, <1>5, <1>6, <1>7, CommittedSame

\* replicationApply: the entries from last_applied on, up to the new commit index.
LEMMA AppliesMore ==
  ASSUME NEW h, NEW a, NEW b, Step(h, a, h, b), NEW i \in Server,
         NEW c \in Nat, c > commitIndex[i], c <= Len(log[i]), NEW new, new = Applied(i, log[i], c)
  PROVE  new \in Log /\ Len(new) = c /\ SameUpTo(new, log[i], c)
         /\ SameUpTo(new, applied[i], Len(applied[i]))
<1> DEFINE s == Len(applied[i])
           more == SubSeq(log[i], s + 1, c)
<1>1. applied[i] \in Log /\ s \in Nat /\ s = commitIndex[i]
  BY AppliedFacts
<1>2. log[i] \in Log /\ Len(log[i]) \in Nat
  BY StepServer
<1>3. Min({c, Len(log[i])}) = c
  <2>1. Min({c, Len(log[i])}) \in {c, Len(log[i])} /\ Min({c, Len(log[i])}) <= c
    BY <1>2, MinOfTwo
  <2> QED BY <1>2, <2>1
<1>4. new = applied[i] \o more
  BY <1>3 DEF Applied
<1>5. applied[i] \in Seq(Entry) /\ log[i] \in Seq(Entry)
  BY <1>1, <1>2 DEF Log
<1>6. /\ more \in Seq(Entry) /\ Len(more) = c - s
      /\ \A k \in 1..c - s : more[k] = log[i][s + k]
  <2>1. s + 1 \in Nat \ {0} /\ c \in Int /\ s + 1 <= c
    BY <1>1
  <2>2. /\ more \in Seq(Entry) /\ Len(more) = c - (s + 1) + 1
        /\ \A k \in 1..c - (s + 1) + 1 : more[k] = log[i][s + 1 + k - 1]
    <3>1. PICK f : f = s + 1
      OBVIOUS
    <3>2. f \in Nat \ {0} /\ c \in Int /\ f <= c /\ c <= Len(log[i]) /\ log[i] \in Seq(Entry)
      BY <1>5, <2>1, <3>1
    <3>3. /\ SubSeq(log[i], f, c) \in Seq(Entry)
          /\ Len(SubSeq(log[i], f, c)) = IF f <= c THEN c - f + 1 ELSE 0
          /\ \A k \in 1..c - f + 1 : SubSeq(log[i], f, c)[k] = log[i][f + k - 1]
      BY <3>2, SubSeqFacts
    <3>4. Len(SubSeq(log[i], f, c)) = c - f + 1
      BY <3>2, <3>3
    <3> QED BY <3>1, <3>3, <3>4
  <2>3. c - (s + 1) + 1 = c - s /\ \A k \in Int : s + 1 + k - 1 = s + k
    BY <1>1
  <2> HIDE DEF more, s
  <2>4. \A k \in 1..c - s : more[k] = log[i][s + k]
    <3> SUFFICES ASSUME NEW k \in 1..c - s PROVE more[k] = log[i][s + k]
      OBVIOUS
    <3>1. s + 1 + k - 1 = s + k /\ k \in 1..c - (s + 1) + 1
      BY <1>1, <2>3
    <3> QED BY <2>2, <3>1
  <2> QED BY <2>2, <2>3, <2>4
<1> HIDE DEF more
<1>7. /\ new \in Seq(Entry) /\ Len(new) = c
      /\ \A k \in 1..s : new[k] = applied[i][k]
      /\ \A k \in 1..c - s : new[s + k] = more[k]
  <2>1. /\ new \in Seq(Entry) /\ Len(new) = Len(applied[i]) + Len(more)
        /\ \A k \in 1..Len(applied[i]) : new[k] = applied[i][k]
    BY <1>4, <1>5, <1>6
  <2>2. \A k \in 1..Len(more) : new[Len(applied[i]) + k] = more[k]
    BY <1>4, <1>5, <1>6, ConcatFacts
  <2> QED BY <1>1, <1>6, <2>1, <2>2
<1>8. SameUpTo(applied[i], log[i], s)
  <2>1. commitIndex[i] <= Len(log[i])
    BY <1>1, <1>2
  <2> QED BY <1>1, <2>1, AppliedSame
<1>9. \A k \in 1..c : new[k] = log[i][k]
  <2> SUFFICES ASSUME NEW k \in 1..c PROVE new[k] = log[i][k]
    OBVIOUS
  <2>1. CASE k <= s
    BY <1>1, <1>7, <1>8, <2>1 DEF SameUpTo
  <2>2. CASE k > s
    <3>1. k - s \in 1..c - s /\ s + (k - s) = k
      BY <1>1, <2>2
    <3> QED BY <1>6, <1>7, <3>1
  <2> QED BY <1>1, <2>1, <2>2
<1> QED BY <1>1, <1>2, <1>7, <1>9 DEF SameUpTo, Log

\* A commit that is justified.
Justified(i, c, h, b) ==
  \/ c = commitIndex[i]
  \/ /\ c \in Nat /\ c > commitIndex[i] /\ c <= Len(log[i])
     /\ CommittedLog(h, b, log[i], c, currentTerm'[i])

LEMMA ApplyNothing ==
  ASSUME NEW h, NEW a, NEW g, NEW b, Step(h, a, g, b), NEW i \in Server
  PROVE  Applied(i, log[i], commitIndex[i]) = applied[i]
<1> DEFINE s == Len(applied[i])
           c == Min({s, Len(log[i])})
<1>1. applied[i] \in Log /\ s \in Nat /\ s = commitIndex[i]
  BY AppliedFacts
<1>2. log[i] \in Log /\ Len(log[i]) \in Nat
  BY StepServer
<1>3. c \in Nat /\ c <= s /\ c <= Len(log[i])
  <2>1. c \in {s, Len(log[i])} /\ c <= s /\ c <= Len(log[i])
    BY <1>1, <1>2, MinOfTwo
  <2> QED BY <1>1, <1>2, <2>1
<1>4. applied[i] \in Seq(Entry) /\ log[i] \in Seq(Entry)
  BY <1>1, <1>2 DEF Log
<1>5. SubSeq(log[i], s + 1, c) \in Seq(Entry) /\ Len(SubSeq(log[i], s + 1, c)) = 0
  <2>1. s + 1 \in Nat \ {0} /\ c \in Int /\ ~(s + 1 <= c) /\ c <= Len(log[i])
    BY <1>1, <1>3
  <2> HIDE DEF s, c
  <2> QED BY <1>4, <2>1, SubSeqFacts
<1>6. SubSeq(log[i], s + 1, c) = << >>
  <2> HIDE DEF s, c
  <2> QED BY <1>5, EmptySeq
<1>7. applied[i] \o << >> = applied[i]
  BY <1>4
<1> QED BY <1>1, <1>6, <1>7 DEF Applied

\* Server i applies what is justified.
LEMMA ApplyStep ==
  ASSUME NEW h, NEW a, NEW b, Step(h, a, h, b), NEW i \in Server, NEW c,
         ApplyUpTo(i, log[i], c), Justified(i, c, h, b), log' = log
  PROVE  /\ Applying(h, b)' /\ \A k \in Server : CommitsOf(k, h, b)
         /\ \A k \in Server : k # i => applied'[k] = applied[k]
         /\ \/ applied' = applied /\ chosen' = chosen
            \/ /\ Len(applied[i]) < Len(applied'[i])
               /\ SameUpTo(applied'[i], applied[i], Len(applied[i]))
               /\ applied' = [applied EXCEPT ![i] = applied'[i]]
               /\ chosen' \in {chosen, applied'[i]}
               /\ Len(chosen') >= Len(chosen) /\ Len(chosen') >= Len(applied'[i])
<1> DEFINE new == Applied(i, log[i], c)
<1>0. /\ commitIndex \in [Server -> Nat] /\ applied \in [Server -> Log] /\ conf' = conf
  BY DEF Step, TypeInv, TypeOK
<1>1. /\ commitIndex' = [commitIndex EXCEPT ![i] = c] /\ applied' = [applied EXCEPT ![i] = new]
      /\ chosen' = IF Len(new) > Len(chosen) THEN new ELSE chosen
  BY DEF ApplyUpTo
<1>2. /\ commitIndex'[i] = c /\ applied'[i] = new
      /\ \A k \in Server : k # i => commitIndex'[k] = commitIndex[k] /\ applied'[k] = applied[k]
  BY <1>0, <1>1
<1>3. ASSUME NEW k \in Server, commitIndex'[k] = commitIndex[k] PROVE CommitsOf(k, h, b)
  <2>1. Len(log[k]) \in Nat /\ log'[k] = log[k]
    BY StepServer
  <2>2. SameUpTo(log'[k], log[k], Len(log'[k]))
    BY <2>1 DEF SameUpTo
  <2> QED BY <1>3, <2>2, CommitsStay
<1>4. CASE c = commitIndex[i]
  <2>1. new = applied[i]
    BY <1>4, ApplyNothing
  <2>2. applied' = applied
    BY <1>0, <1>1, <2>1
  <2>3. chosen' = chosen
    <3>1. Len(applied[i]) <= Len(chosen) /\ Len(applied[i]) \in Nat /\ Len(chosen) \in Nat
      BY AppliedFacts
    <3> QED BY <1>1, <2>1, <3>1
  <2>4. \A k \in Server : applied'[k] = applied[k] /\ commitIndex'[k] = commitIndex[k]
    BY <1>2, <1>4, <2>2
  <2>5. Applying(h, b)'
    BY <2>3, <2>4, StepApplying
  <2> QED BY <1>3, <2>2, <2>3, <2>4, <2>5
<1>5. CASE c # commitIndex[i]
  <2>1. /\ c \in Nat /\ c > commitIndex[i] /\ c <= Len(log[i])
        /\ CommittedLog(h, b, log[i], c, currentTerm'[i])
    BY <1>5 DEF Justified
  <2>2. /\ new \in Log /\ Len(new) = c /\ SameUpTo(new, log[i], c)
        /\ SameUpTo(new, applied[i], Len(applied[i]))
    BY <2>1, AppliesMore
  <2>3. /\ log[i] \in Log /\ Len(log[i]) \in Nat /\ h \in [Entry -> Log] /\ log[i][1] = 1
        /\ commitIndex[i] \in Nat /\ commitIndex[i] >= 1 /\ currentTerm'[i] \in Entry
        /\ currentTerm'[i] \in Nat
    BY StepServer, StepSets, StepTerms DEF TermsOf
  <2>4. CommitsOf(i, h, b)
    <3>1. CommittedBy(h, b, c, currentTerm'[i])
      BY <2>1 DEF CommittedLog, CommittedBy
    <3>2. \A d \in 1..Len(log[i]) : d <= c => CommittedLog(h, b, log[i], d, currentTerm'[i])
      <4> SUFFICES ASSUME NEW d \in 1..Len(log[i]), d <= c
                   PROVE  CommittedLog(h, b, log[i], d, currentTerm'[i])
        OBVIOUS
      <4>1. d \in Nat
        BY <2>3
      <4> QED BY <2>1, <2>3, <4>1, CommittedLess
    <3> QED BY <1>2, <3>1, <3>2 DEF CommitsOf
  <2>5. \A k \in Server : CommitsOf(k, h, b)
    BY <1>2, <1>3, <2>4
  <2>6. CommittedLog(h, b, new, c, Conf.maxTerm)
    <3>1. currentTerm'[i] <= Conf.maxTerm
      BY <2>3 DEF Entry
    <3>2. Conf.maxTerm \in Int
      BY AppliedFacts
    <3>3. ASSUME NEW t \in Entry, NEW n \in Nat, t <= currentTerm'[i], c <= n,
                 Committed(h, b, t, n), SameUpTo(log[i], h[t], c)
          PROVE  CommittedLog(h, b, new, c, Conf.maxTerm)
      <4>1. SameUpTo(new, h[t], c)
        BY <2>1, <2>2, <3>3, SameTrans
      <4>2. t <= Conf.maxTerm
        BY <2>3, <3>1, <3>2, <3>3, EntryFacts
      <4> HIDE DEF new
      <4> QED BY <3>3, <4>1, <4>2 DEF CommittedLog
    <3> HIDE DEF new
    <3> QED BY <2>1, <3>3 DEF CommittedLog
  <2>7. Len(applied[i]) \in Nat /\ Len(applied[i]) = commitIndex[i] /\ Len(chosen) \in Nat
        /\ Len(chosen) >= 1 /\ chosen[1] = 1
        /\ CommittedLog(h, a, chosen, Len(chosen), Conf.maxTerm) /\ Conf.maxTerm \in Int
    BY AppliedFacts
  <2>8. new[1] = 1
    BY <2>1, <2>2, <2>3 DEF SameUpTo
  <2> HIDE DEF new
  <2>9. CommittedLog(h, b, chosen, Len(chosen), Conf.maxTerm)
    <3>1. SameUpTo(chosen, chosen, Len(chosen))
      BY <2>7 DEF SameUpTo
    <3> QED BY <2>7, <3>1, CommittedLogStep
  <2>10. /\ Len(chosen') \in Nat /\ Len(chosen') >= Len(chosen) /\ Len(chosen') >= c
         /\ chosen' \in {chosen, new}
    BY <1>1, <2>1, <2>2, <2>7
  <2>11. /\ Len(chosen') >= 1 /\ chosen'[1] = 1
         /\ CommittedLog(h, b, chosen', Len(chosen'), Conf.maxTerm)
    <3>1. CASE chosen' = chosen
      BY <2>7, <2>9, <3>1
    <3>2. CASE chosen' = new
      BY <2>1, <2>2, <2>3, <2>6, <2>8, <3>2
    <3> QED BY <2>10, <3>1, <3>2
  <2>12. \A k \in Server : AppliesOf(k, h, b)
    <3> SUFFICES ASSUME NEW k \in Server PROVE AppliesOf(k, h, b)
      OBVIOUS
    <3>1. CASE k = i
      <4>1. Len(applied'[i]) = commitIndex'[i] /\ applied'[i][1] = 1
            /\ Len(applied'[i]) <= Len(chosen')
        BY <1>2, <2>1, <2>2, <2>8, <2>10
      <4>2. CommittedLog(h, b, applied'[i], Len(applied'[i]), Conf.maxTerm)
        BY <1>2, <2>2, <2>6
      <4> QED BY <3>1, <4>1, <4>2 DEF AppliesOf
    <3>2. CASE k # i
      BY <1>2, <2>10, <3>2, AppliesStay
    <3> QED BY <3>1, <3>2
  <2>13. Applying(h, b)'
    BY <1>0, <2>11, <2>12, ApplyingNext
  <2>14. /\ Len(applied[i]) < Len(applied'[i])
         /\ SameUpTo(applied'[i], applied[i], Len(applied[i]))
         /\ applied' = [applied EXCEPT ![i] = applied'[i]]
         /\ chosen' \in {chosen, applied'[i]}
         /\ Len(chosen') >= Len(chosen) /\ Len(chosen') >= Len(applied'[i])
    BY <1>1, <1>2, <2>1, <2>2, <2>3, <2>7, <2>10
  <2> QED BY <1>2, <2>5, <2>13, <2>14
<1> QED BY <1>4, <1>5

-----------------------------------------------------------------------------
(* Each action keeps the invariant *)

\* A message that a step may send.
GoodMessage(m, g, b) ==
  \/ m.type = "AppendEntries" /\ FromLeader(m, g) /\ CommittedBy(g, b, m.commit, m.term)
  \/ /\ m.type = "AppendEntriesResult"
     /\ m.term \in Entry /\ (m.rejected = 0 => m.last <= b[m.from][m.term])

\* What the leaders count after the step.
CountsOf(i, b) ==
  state'[i] = "leader" =>
    \A j \in Server : progress'[i][j].match <= b[j][currentTerm'[i]]

LEMMA SafeStep ==
  ASSUME NEW h, NEW a, NEW g, NEW b, Step(h, a, g, b), Ordered(g),
         \A i \in Server : TermsOf(i)' /\ WritesOf(i, g)' /\ (Stays(i) \/ Keeps(h, a, i))
                           /\ CountsOf(i, b) /\ CommitsOf(i, g, b),
         \A m \in msgs' : m \in msgs \/ GoodMessage(m, g, b),
         \A i \in Server : \A k \in 1..Len(writes'[i]) :
           writes'[i][k].op = "follower" =>
             \/ \E n \in 1..Len(writes[i]) : writes'[i][k] = writes[i][n]
             \/ CommittedBy(g, b, writes'[i][k].commit, writes'[i][k].term),
         Complete(g, b)', Covered(g, b)', Applying(g, b)'
  PROVE  SafetyParts(g, b)'
<1>1. Terms(g)'
  BY StepTermsAll
<1>2. Writing(g)'
  BY StepWriting
<1>3. Confirming(g, b)'
  BY StepConfirming
<1>4. Sending(g)'
  <2>1. \A m \in msgs' : m.type = "AppendEntries" => m \in msgs \/ FromLeader(m, g)
    BY DEF GoodMessage
  <2> QED BY <2>1, StepSending
<1>5. Counting(b)'
  <2>1. \A m \in msgs' : m.type = "AppendEntriesResult" =>
          m \in msgs \/ (m.term \in Entry /\ (m.rejected = 0 => m.last <= b[m.from][m.term]))
    BY DEF GoodMessage
  <2>2. \A i, j \in Server : state'[i] = "leader" =>
          progress'[i][j].match <= b[j][currentTerm'[i]]
    BY DEF CountsOf
  <2> QED BY <2>1, <2>2, StepCounting
<1>6. Committing(g, b)'
  <2>1. \A m \in msgs' : m.type = "AppendEntries" =>
          m \in msgs \/ CommittedBy(g, b, m.commit, m.term)
    BY DEF GoodMessage
  <2> QED BY <2>1, StepCommitting
<1>7. Past(g)'
  BY DEF Step
<1> QED BY <1>1, <1>2, <1>3, <1>4, <1>5, <1>6, <1>7 DEF SafetyParts

\* Storage that stays as it is.
LEMMA StorageStays ==
  ASSUME NEW h, NEW a, NEW g, NEW b, Step(h, a, g, b), NEW i \in Server,
         log'[i] = log[i], lastStored'[i] = lastStored[i], disk'[i] = disk[i],
         writes'[i] = writes[i],
         state'[i] = "leader" => state[i] = "leader" /\ currentTerm'[i] = currentTerm[i]
  PROVE  TermsOf(i)' /\ WritesOf(i, g)' /\ Stays(i)
<1>1. TermsOf(i)'
  BY TermsStay
<1>2. WritesOf(i, g)'
  BY WritesStay
<1>3. Len(log[i]) \in Nat /\ lastStored[i] \in 1..Len(log[i]) /\ lastStored[i] \in Nat
  BY StepServer
<1>4. Stays(i)
  BY <1>3 DEF Stays, SameUpTo
<1> QED BY <1>1, <1>2, <1>4

LEMMA SameLogCommits ==
  ASSUME NEW h, NEW a, NEW g, NEW b, Step(h, a, g, b), NEW i \in Server,
         commitIndex'[i] = commitIndex[i], log'[i] = log[i]
  PROVE  CommitsOf(i, g, b)
<1>1. Len(log[i]) \in Nat
  BY StepServer
<1>2. SameUpTo(log'[i], log[i], Len(log'[i]))
  BY <1>1 DEF SameUpTo
<1> QED BY <1>2, CommitsStay

LEMMA SameCounts ==
  ASSUME NEW h, NEW a, NEW g, NEW b, Step(h, a, g, b), NEW i \in Server,
         state'[i] = "leader" =>
           /\ state[i] = "leader" /\ currentTerm'[i] = currentTerm[i]
           /\ \A j \in Server : progress'[i][j].match <= progress[i][j].match
  PROVE  CountsOf(i, b)
<1> SUFFICES ASSUME state'[i] = "leader", NEW j \in Server
             PROVE  progress'[i][j].match <= b[j][currentTerm'[i]]
  BY DEF CountsOf
<1>1. progress'[i][j].match \in Nat
  BY DEF Step, TypeInv, TypeOK
<1> QED BY <1>1, CountsStay

\* A step that changes no log and no commit index.
LEMMA QuietSafe ==
  ASSUME NEW h, NEW a, NEW b, Step(h, a, h, b), UNCHANGED <<logVars, diskVars>>,
         \A m \in msgs' : m \in msgs \/ GoodMessage(m, h, b),
         \A i \in Server : state'[i] = "leader" =>
           /\ state[i] = "leader" /\ currentTerm'[i] = currentTerm[i]
           /\ \A j \in Server : progress'[i][j].match <= progress[i][j].match,
         Covered(h, b)' \/ \A i \in Server : votes'[i] = {}
                             \/ (votes'[i] \subseteq votes[i] /\ currentTerm'[i] = currentTerm[i])
  PROVE  SafetyParts(h, b)'
<1>0. /\ log' = log /\ lastStored' = lastStored /\ commitIndex' = commitIndex
      /\ applied' = applied /\ chosen' = chosen /\ disk' = disk /\ writes' = writes
  BY DEF logVars, diskVars
<1>1. ASSUME NEW i \in Server
      PROVE  TermsOf(i)' /\ WritesOf(i, h)' /\ Stays(i) /\ CountsOf(i, b) /\ CommitsOf(i, h, b)
  BY <1>0, <1>1, StorageStays, SameCounts, SameLogCommits
<1>2. Applying(h, b)'
  BY <1>0, StepApplying
<1>3. Complete(h, b)'
  BY CompleteQuiet
<1>4. Ordered(h)
  BY StepSets
<1>5. Covered(h, b)'
  BY <1>1, <1>4, CoveredStays
<1>6. \A i \in Server : \A k \in 1..Len(writes'[i]) :
        \E n \in 1..Len(writes[i]) : writes'[i][k] = writes[i][n]
  BY <1>0
<1> QED BY <1>1, <1>2, <1>3, <1>4, <1>5, <1>6, SafeStep

LEMMA StutterSafe ==
  ASSUME NEW h, NEW a, NEW b, Step(h, a, h, b), UNCHANGED vars
  PROVE  SafetyParts(h, b)'
<1>1. /\ UNCHANGED <<logVars, diskVars>> /\ msgs' = msgs /\ state' = state
      /\ currentTerm' = currentTerm /\ progress' = progress /\ votes' = votes
  BY DEF vars, logVars, diskVars
<1>2. \A i, j \in Server : progress'[i][j].match <= progress[i][j].match
  BY <1>1 DEF Step, TypeInv, TypeOK
<1> QED BY <1>1, <1>2, QuietSafe

LEMMA tickSafe ==
  ASSUME NEW h, NEW a, NEW b, Step(h, a, h, b), NEW i \in Server, tick(i)
  PROVE  SafetyParts(h, b)'
<1>1. /\ UNCHANGED <<logVars, diskVars>> /\ msgs' = msgs /\ state' = [state EXCEPT ![i] = "candidate"]
      /\ currentTerm' = currentTerm /\ progress' = progress /\ votes' = votes
  BY DEF tick
<1>2. /\ state \in [Server -> Role]
      /\ \A k, j \in Server : progress'[k][j].match <= progress[k][j].match
  BY <1>1 DEF Step, TypeInv, TypeOK
<1>3. \A k \in Server : state'[k] = "leader" => state[k] = "leader"
  BY <1>1, <1>2
<1> QED BY <1>1, <1>2, <1>3, QuietSafe

LEMMA checkContactQuorumSafe ==
  ASSUME NEW h, NEW a, NEW b, Step(h, a, h, b), NEW i \in Server, checkContactQuorum(i)
  PROVE  SafetyParts(h, b)'
<1>1. /\ UNCHANGED <<logVars, diskVars>> /\ msgs' = msgs
      /\ state' = [state EXCEPT ![i] = "follower"]
      /\ currentTerm' = [currentTerm EXCEPT ![i] = currentTerm[i]]
      /\ votes' = [votes EXCEPT ![i] = {}]
      /\ progress' = [progress EXCEPT ![i] = NoProgress]
  BY DEF checkContactQuorum, convertToFollower
<1>2. /\ state \in [Server -> Role] /\ currentTerm \in [Server -> 0..Conf.maxTerm]
      /\ votes \in [Server -> SUBSET Server]
      /\ progress \in [Server -> [Server -> [next : Nat \ {0}, match : Nat, pipeline : BOOLEAN]]]
  BY DEF Step, TypeInv, TypeOK
<1>3. currentTerm' = currentTerm /\ \A k \in Server : votes'[k] \subseteq votes[k]
  BY <1>1, <1>2
<1>4. ASSUME NEW k \in Server, state'[k] = "leader"
      PROVE  /\ state[k] = "leader"
             /\ \A j \in Server : progress'[k][j].match <= progress[k][j].match
  <2>1. k # i
    BY <1>1, <1>2, <1>4
  <2>2. state'[k] = state[k] /\ progress'[k] = progress[k]
    BY <1>1, <1>2, <2>1
  <2>3. \A j \in Server : progress[k][j].match \in Nat
    BY <1>2
  <2> QED BY <1>4, <2>2, <2>3
<1> QED BY <1>1, <1>3, <1>4, QuietSafe

\* A server that votes has in memory what it has confirmed and may still be
\* committed: the term at the end of its log is at least that of the entry.
LEMMA LastCovers ==
  ASSUME TypeInv, Queues, StoredInv, NEW h, NEW a, SafetyParts(h, a), NEW j \in Server,
         NEW t \in Entry, NEW n \in 1..a[j][t], h[t][n] = t, ~Abandoned(a, t, n)
  PROVE  /\ n \in Nat /\ n <= lastStored[j] /\ n <= Len(log[j])
         /\ TermAt(log[j], lastStored[j]) >= t /\ TermAt(log[j], lastStored[j]) \in Nat
         /\ LastTerm(log[j]) >= t /\ LastTerm(log[j]) \in Nat
<1>1. Past(h) /\ Confirming(h, a) /\ Ordered(h) /\ h \in [Entry -> Log]
  BY DEF SafetyParts, Terms, Past, History
<1>2. Holds(h, j, t, n)
  BY <1>1, Held
<1>3. a[j][t] \in Nat
  BY <1>1 DEF Confirming
<1>4. /\ log[j] \in Log /\ Len(log[j]) \in Nat /\ Matched(log[j], h)
      /\ lastStored[j] \in 1..Len(log[j])
  BY <1>1, StateFacts
<1> DEFINE s == lastStored[j]
           e == Len(log[j])
<1>5. /\ n \in Nat /\ n >= 1 /\ n <= s /\ log[j][n] = t
      /\ s \in Nat /\ n \in 1..s /\ n \in 1..e /\ e \in 1..e
  BY <1>2, <1>3, <1>4 DEF Holds, SameUpTo
<1>6. log[j][n] <= log[j][s] /\ log[j][n] <= log[j][e]
  BY <1>1, <1>4, <1>5, Sorted DEF Ordered
<1>7. log[j][s] \in Nat /\ log[j][e] \in Nat /\ t \in Nat
  <2>1. log[j][s] \in Entry /\ log[j][e] \in Entry
    BY <1>4, <1>5, LogLen
  <2> QED BY <2>1, EntryFacts
<1> QED BY <1>4, <1>5, <1>6, <1>7 DEF LastTerm, TermAt

LEMMA electionStartSafe ==
  ASSUME NEW h, NEW a, NEW b, Step(h, a, h, b), NEW i \in Server, electionStart(i)
  PROVE  SafetyParts(h, b)'
<1>1. /\ UNCHANGED <<logVars, diskVars>> /\ msgs' = msgs /\ state' = [state EXCEPT ![i] = "candidate"]
      /\ currentTerm' = [currentTerm EXCEPT ![i] = @ + 1] /\ progress' = progress
      /\ votes' = [votes EXCEPT ![i] = {i}]
  BY DEF electionStart
<1>2. /\ state \in [Server -> Role] /\ currentTerm \in [Server -> 0..Conf.maxTerm]
      /\ votes \in [Server -> SUBSET Server]
      /\ \A k, j \in Server : progress'[k][j].match <= progress[k][j].match
  BY <1>1 DEF Step, TypeInv, TypeOK
<1>3. ASSUME NEW k \in Server, k # i
      PROVE  state'[k] = state[k] /\ currentTerm'[k] = currentTerm[k] /\ votes'[k] = votes[k]
  BY <1>1, <1>2, <1>3
<1>4. /\ state'[i] = "candidate" /\ currentTerm'[i] = currentTerm[i] + 1 /\ votes'[i] = {i}
  BY <1>1, <1>2
<1>5. \A k \in Server : Stays(k)
  <2> SUFFICES ASSUME NEW k \in Server PROVE Stays(k)
    OBVIOUS
  <2>1. Len(log[k]) \in Nat /\ lastStored[k] \in 1..Len(log[k]) /\ lastStored[k] \in Nat
    BY StepServer
  <2>2. log'[k] = log[k] /\ lastStored'[k] = lastStored[k]
    BY <1>1 DEF logVars
  <2> QED BY <2>1, <2>2 DEF Stays, SameUpTo
<1>6. ASSUME NEW k \in Server, NEW j \in votes'[k]
      PROVE  currentTerm'[j] >= currentTerm'[k] /\ CoversVoter(h, a, k, j, currentTerm'[k])
  <2>1. CASE k # i
    <3>1. j \in votes[k] /\ currentTerm'[k] = currentTerm[k] /\ j \in Server
      BY <1>2, <1>3, <1>6, <2>1
    <3>2. currentTerm[j] >= currentTerm[k] /\ CoversVoter(h, a, k, j, currentTerm[k])
      BY <3>1 DEF Step, SafetyParts, Covered
    <3>3. /\ currentTerm[j] \in Nat /\ currentTerm'[j] \in Nat /\ currentTerm[k] \in Nat
          /\ currentTerm[j] <= currentTerm'[j]
      BY <3>1, StepTerms
    <3> QED BY <3>1, <3>2, <3>3
  <2>2. CASE k = i
    <3>1. j = i
      BY <1>4, <1>6, <2>2
    <3>2. currentTerm'[i] \in Nat
      BY StepTerms
    <3>3. ASSUME NEW t \in Entry, NEW n \in 1..a[i][t], h[t][n] = t, ~Abandoned(a, t, n)
          PROVE  Covers(i, t, n)
      <4>1. /\ n \in Nat /\ n <= lastStored[i]
            /\ TermAt(log[i], lastStored[i]) >= t /\ TermAt(log[i], lastStored[i]) \in Nat
        BY <3>3, LastCovers DEF Step
      <4> QED BY <4>1, EntryFacts DEF Covers
    <3>4. CoversVoter(h, a, i, i, currentTerm'[i])
      BY <3>3 DEF CoversVoter
    <3> QED BY <2>2, <3>1, <3>2, <3>4
  <2> QED BY <2>1, <2>2
<1>7. Covered(h, b)'
  BY <1>5, <1>6, StepCovered, StepSets
<1>8. \A k \in Server : state'[k] = "leader" => state[k] = "leader" /\ currentTerm'[k] = currentTerm[k]
  BY <1>3, <1>4
<1> QED BY <1>1, <1>2, <1>7, <1>8, QuietSafe

\* electionVote: the voter looks at all it has in memory.
LEMMA recvRequestVoteSafe ==
  ASSUME NEW h, NEW a, NEW b, Step(h, a, h, b), NEW i \in Server, NEW j \in Server,
         recvRequestVote(j, i)
  PROVE  SafetyParts(h, b)'
<1> DEFINE bump == currentTerm[i] > currentTerm[j]
           granted == /\ bump \/ votedFor[j] \in {None, i}
                      /\ AtLeastAsUpToDate(i, j)
<1>1. /\ UNCHANGED <<logVars, diskVars>> /\ msgs' = msgs /\ progress' = progress
      /\ state' = [state EXCEPT ![j] = IF bump THEN "follower" ELSE @]
      /\ currentTerm' = [currentTerm EXCEPT ![j] = currentTerm[i]]
      /\ votes' = [votes EXCEPT ![i] = IF granted THEN @ \cup {j} ELSE @,
                                ![j] = IF bump THEN {} ELSE @]
      /\ i # j /\ state[i] = "candidate" /\ ~HasLeader(j) /\ currentTerm[i] >= currentTerm[j]
  BY DEF recvRequestVote
<1> HIDE DEF bump, granted
<1>2. /\ state \in [Server -> Role] /\ currentTerm \in [Server -> 0..Conf.maxTerm]
      /\ votes \in [Server -> SUBSET Server]
      /\ \A k, x \in Server : progress'[k][x].match <= progress[k][x].match
  BY <1>1 DEF Step, TypeInv, TypeOK
<1>3. ASSUME NEW k \in Server, k # j
      PROVE  state'[k] = state[k] /\ currentTerm'[k] = currentTerm[k]
  BY <1>1, <1>2, <1>3
<1>4. /\ currentTerm'[j] = currentTerm[i] /\ votes'[j] = (IF bump THEN {} ELSE votes[j])
      /\ votes'[i] = (IF granted THEN votes[i] \cup {j} ELSE votes[i])
      /\ \A k \in Server : k # i /\ k # j => votes'[k] = votes[k]
      /\ state'[j] # "leader"
  <2>1. state[j] # "leader"
    BY <1>1 DEF HasLeader
  <2> QED BY <1>1, <1>2, <2>1
<1>5. currentTerm[i] \in Nat /\ currentTerm[j] \in Nat
  BY StepTerms
<1>6. ~bump => currentTerm'[j] = currentTerm[j]
  BY <1>1, <1>4, <1>5 DEF bump
<1>7. \A k \in Server : Stays(k)
  <2> SUFFICES ASSUME NEW k \in Server PROVE Stays(k)
    OBVIOUS
  <2>1. Len(log[k]) \in Nat /\ lastStored[k] \in 1..Len(log[k]) /\ lastStored[k] \in Nat
    BY StepServer
  <2>2. log'[k] = log[k] /\ lastStored'[k] = lastStored[k]
    BY <1>1 DEF logVars
  <2> QED BY <2>1, <2>2 DEF Stays, SameUpTo
<1>8. ASSUME NEW k \in Server, NEW x \in votes'[k]
      PROVE  currentTerm'[x] >= currentTerm'[k] /\ CoversVoter(h, a, k, x, currentTerm'[k])
  <2>1. CASE x \in votes[k] /\ currentTerm'[k] = currentTerm[k]
    <3>1. x \in Server
      BY <1>2, <2>1
    <3>2. currentTerm[x] >= currentTerm[k] /\ CoversVoter(h, a, k, x, currentTerm[k])
      BY <2>1 DEF Step, SafetyParts, Covered
    <3>3. /\ currentTerm[x] \in Nat /\ currentTerm'[x] \in Nat /\ currentTerm[k] \in Nat
          /\ currentTerm[x] <= currentTerm'[x]
      BY <3>1, StepTerms
    <3> QED BY <2>1, <3>2, <3>3
  <2>2. CASE k = i /\ x = j /\ granted
    <3>1. currentTerm'[i] = currentTerm[i] /\ currentTerm'[x] = currentTerm[i]
      BY <1>1, <1>3, <1>4, <2>2
    <3>2. ASSUME NEW t \in Entry, NEW n \in 1..a[j][t], h[t][n] = t, ~Abandoned(a, t, n)
          PROVE  Covers(i, t, n)
      <4>1. /\ n \in Nat /\ n <= Len(log[j]) /\ LastTerm(log[j]) >= t /\ LastTerm(log[j]) \in Nat
        BY <3>2, LastCovers DEF Step
      <4>2. /\ AtLeastAsUpToDate(i, j) /\ lastStored[i] \in Nat /\ lastStored[i] \in 1..Len(log[i])
            /\ Len(log[j]) \in Nat /\ log[i] \in Log
        BY <2>2, StepServer DEF granted
      <4>3. TermAt(log[i], lastStored[i]) \in Nat /\ t \in Nat
        <5>1. log[i][lastStored[i]] \in Entry
          BY <4>2, LogLen
        <5> QED BY <4>2, <5>1, EntryFacts DEF TermAt
      <4>4. \/ TermAt(log[i], lastStored[i]) > LastTerm(log[j])
            \/ TermAt(log[i], lastStored[i]) = LastTerm(log[j]) /\ lastStored[i] >= Len(log[j])
        BY <4>2 DEF AtLeastAsUpToDate, LastTerm
      <4> QED BY <4>1, <4>2, <4>3, <4>4 DEF Covers
    <3>3. CoversVoter(h, a, i, j, currentTerm'[i])
      BY <3>2 DEF CoversVoter
    <3> QED BY <1>5, <2>2, <3>1, <3>3
  <2>3. CASE k = j
    BY <1>4, <1>6, <1>8, <2>1, <2>3
  <2>4. CASE k = i
    BY <1>1, <1>3, <1>4, <1>8, <2>1, <2>2, <2>4
  <2>5. CASE k # i /\ k # j
    BY <1>3, <1>4, <1>8, <2>1, <2>5
  <2> QED BY <2>3, <2>4, <2>5
<1>9. Covered(h, b)'
  BY <1>7, <1>8, StepCovered, StepSets
<1>10. \A k \in Server : state'[k] = "leader" => state[k] = "leader" /\ currentTerm'[k] = currentTerm[k]
  BY <1>3, <1>4
<1> QED BY <1>1, <1>2, <1>9, <1>10, QuietSafe

LEMMA LossSafe ==
  ASSUME NEW h, NEW a, NEW b, Step(h, a, h, b), NEW m \in msgs, SendFails(m) \/ Lose(m)
  PROVE  SafetyParts(h, b)'
<1>1. /\ UNCHANGED <<logVars, diskVars>> /\ msgs' \subseteq msgs
      /\ state' = state /\ currentTerm' = currentTerm /\ votes' = votes
  BY DEF SendFails, Lose, electionVars
<1>2. progress \in [Server -> [Server -> [next : Nat \ {0}, match : Nat, pipeline : BOOLEAN]]]
  BY DEF Step, TypeInv, TypeOK
<1>3. \A i, j \in Server : progress'[i][j].match <= progress[i][j].match
  <2>1. CASE SendFails(m)
    <3>1. progress' = [progress EXCEPT ![m.from][m.to] =
                         [@ EXCEPT !.next = progress[m.from][m.to].match + 1, !.pipeline = FALSE]]
      BY <2>1 DEF SendFails
    <3> SUFFICES ASSUME NEW i \in Server, NEW j \in Server
                 PROVE  progress'[i][j].match <= progress[i][j].match
      OBVIOUS
    <3>2. progress[i][j] \in [next : Nat \ {0}, match : Nat, pipeline : BOOLEAN]
      BY <1>2
    <3>3. progress'[i][j].match = progress[i][j].match
      BY <1>2, <3>1, <3>2
    <3> QED BY <3>2, <3>3
  <2>2. CASE Lose(m)
    BY <1>2, <2>2 DEF Lose
  <2> QED BY <2>1, <2>2
<1> QED BY <1>1, <1>3, QuietSafe

\* What a leader sends in a step in which it adds nothing to its log.
LEMMA LeaderMessage ==
  ASSUME NEW h, NEW a, NEW b, Step(h, a, h, b), NEW i \in Server, state[i] = "leader",
         currentTerm'[i] = currentTerm[i], NEW j, NEW c, CommittedBy(h, b, c, currentTerm[i]),
         NEW p \in ProgressType, p.next <= Len(log[i]) + 1
  PROVE  GoodMessage(sendAppendEntries(i, j, log[i], c, p), h, b)
<1>1. log[i] = h[currentTerm[i]] /\ TypeInv /\ h \in [Entry -> Log]
  BY DEF Step, SafetyParts, Past, History
<1>2. LastTerm(log[i]) = currentTerm[i]
  BY StepTerms DEF TermsOf
<1>3. FromLeader(sendAppendEntries(i, j, log[i], c, p), h)
  BY <1>1, <1>2, LeaderSends
<1>4. LET m == sendAppendEntries(i, j, log[i], c, p)
      IN  m.type = "AppendEntries" /\ m.commit = c /\ m.term = currentTerm[i]
  BY DEF sendAppendEntries
<1>5. ASSUME NEW m, m = sendAppendEntries(i, j, log[i], c, p) PROVE GoodMessage(m, h, b)
  BY <1>3, <1>4, <1>5 DEF GoodMessage
<1> QED BY <1>5

LEMMA replicationHeartbeatSafe ==
  ASSUME NEW h, NEW a, NEW b, Step(h, a, h, b), NEW i \in Server, NEW j \in Server,
         replicationHeartbeat(i, j)
  PROVE  SafetyParts(h, b)'
<1> DEFINE m == sendAppendEntries(i, j, log[i], commitIndex[i], progress[i][j])
<1>1. /\ state[i] = "leader" /\ i # j /\ Send(msgs, {m})
      /\ progress' = [progress EXCEPT ![i][j] = Sent(log[i], @)]
      /\ UNCHANGED <<logVars, diskVars>>
      /\ state' = state /\ currentTerm' = currentTerm /\ votes' = votes
  BY DEF replicationHeartbeat, electionVars
<1>2. /\ progress \in [Server -> [Server -> ProgressType]] /\ Bounded(log[i], progress[i][j])
  BY <1>1 DEF Step, TypeInv, TypeOK, ProgressBounded, ProgressType
<1>3. log[i] \in Log /\ progress[i][j] \in ProgressType /\ progress[i][j].next <= Len(log[i]) + 1
  BY <1>2, StepServer DEF Bounded
<1>4. Sent(log[i], progress[i][j]).match = progress[i][j].match
  BY <1>3, SentType
<1>5. \A k, x \in Server : progress'[k][x].match <= progress[k][x].match
  <2> SUFFICES ASSUME NEW k \in Server, NEW x \in Server
               PROVE  progress'[k][x].match <= progress[k][x].match
    OBVIOUS
  <2>1. progress[k][x].match \in Nat
    BY <1>2 DEF ProgressType
  <2>2. progress'[k][x].match = progress[k][x].match
    BY <1>1, <1>2, <1>4
  <2> QED BY <2>1, <2>2
<1>6. CommittedBy(h, b, commitIndex[i], currentTerm[i])
  <2>1. currentTerm[i] \in Nat /\ CommittedBy(h, a, commitIndex[i], currentTerm[i])
    BY StepTerms DEF Step, SafetyParts, Committing
  <2> QED BY <2>1, CommittedByStep
<1>7. GoodMessage(m, h, b)
  BY <1>1, <1>3, <1>6, LeaderMessage
<1>8. msgs' \subseteq msgs \cup {m}
  BY <1>1, SendSubset
<1> HIDE DEF m
<1>9. \A x \in msgs' : x \in msgs \/ GoodMessage(x, h, b)
  BY <1>7, <1>8
<1> QED BY <1>1, <1>5, <1>9, QuietSafe

\* A log with an entry of term t at the end.
LEMMA AppendFacts ==
  ASSUME NEW l \in Log, NEW t \in Entry, Below(l, t), l # << >>, l[1] = 1
  PROVE  LET x == Append(l, t)
         IN  /\ x \in Log /\ Len(x) = Len(l) + 1 /\ Len(x) \in Nat /\ x[1] = 1
             /\ SameUpTo(x, l, Len(l)) /\ Below(x, t) /\ LastTerm(x) = t
<1>1. l \in Seq(Entry) /\ Len(l) \in Nat
  BY LogLen
<1>2. Len(l) >= 1
  BY <1>1, EmptySeq
<1>3. /\ Append(l, t) \in Seq(Entry) /\ Len(Append(l, t)) = Len(l) + 1
      /\ Append(l, t)[Len(l) + 1] = t /\ \A k \in 1..Len(l) : Append(l, t)[k] = l[k]
  BY <1>1
<1>4. ASSUME NEW x, x = Append(l, t)
      PROVE  /\ x \in Log /\ Len(x) = Len(l) + 1 /\ Len(x) \in Nat /\ x[1] = 1
             /\ SameUpTo(x, l, Len(l)) /\ Below(x, t) /\ LastTerm(x) = t
  <2>1. /\ x \in Log /\ Len(x) = Len(l) + 1 /\ Len(x) \in Nat
        /\ x[Len(l) + 1] = t /\ \A k \in 1..Len(l) : x[k] = l[k]
    BY <1>1, <1>3, <1>4 DEF Log
  <2>2. x[1] = 1 /\ SameUpTo(x, l, Len(l))
    BY <1>1, <1>2, <2>1 DEF SameUpTo
  <2>3. LastTerm(x) = t
    BY <1>1, <2>1 DEF LastTerm, TermAt
  <2>4. Below(x, t)
    <3> SUFFICES ASSUME NEW k \in 1..Len(l) + 1 PROVE x[k] <= t
      BY <2>1 DEF Below
    <3>1. CASE k = Len(l) + 1
      BY <2>1, <3>1, EntryFacts
    <3>2. CASE k \in 1..Len(l)
      BY <2>1, <3>2 DEF Below
    <3> QED BY <1>1, <3>1, <3>2
  <2> QED BY <2>1, <2>2, <2>3, <2>4
<1> QED BY <1>4

\* The leader i has in its log what was committed up to its term.
LEMMA LeaderHasCommitted ==
  ASSUME NEW h, NEW a, NEW g, NEW b, Step(h, a, g, b), NEW i \in Server,
         h[currentTerm[i]] = << >> \/ h[currentTerm[i]] = log[i],
         \A t \in Entry : t < currentTerm[i] =>
           \A n \in 1..Len(h[t]) :
             h[t][n] = t => SameUpTo(log[i], h[t], n) \/ Abandoned(a, t, n),
         NEW c \in Nat, c <= commitIndex[i]
  PROVE  CommittedLog(h, a, log[i], c, currentTerm[i])
<1>1. CommittedBy(h, a, commitIndex[i], currentTerm[i])
  BY DEF Step, SafetyParts, Committing
<1>2. commitIndex[i] \in Nat /\ currentTerm[i] \in Entry
  BY StepTerms
<1>3. CASE commitIndex[i] <= 1
  BY <1>2, <1>3 DEF CommittedLog
<1>4. ASSUME NEW t \in Entry, NEW n \in Nat, t <= currentTerm[i], commitIndex[i] <= n,
             Committed(h, a, t, n)
      PROVE  CommittedLog(h, a, log[i], c, currentTerm[i])
  <2>1. n \in 1..Len(h[t]) /\ h[t][n] = t
    BY <1>4 DEF Committed
  <2>2. h[t] \in Log /\ log[i] \in Log /\ Len(h[t]) \in Nat
    BY StepTerm, StepServer
  <2>3. SameUpTo(log[i], h[t], n)
    <3>1. CASE t < currentTerm[i]
      <4>1. ~Abandoned(a, t, n)
        BY <1>4, CommittedStays DEF Step, SafetyParts
      <4> QED BY <2>1, <3>1, <4>1
    <3>2. CASE t = currentTerm[i]
      <4>1. h[t] # << >>
        BY <2>1, <2>2
      <4>2. h[t] = log[i]
        BY <3>2, <4>1
      <4> QED BY <2>1, <4>2 DEF SameUpTo
    <3> QED BY <1>2, <1>4, <3>1, <3>2, EntryFacts
  <2>4. c <= n
    BY <1>2, <1>4
  <2>5. SameUpTo(log[i], h[t], c)
    BY <2>2, <2>3, <2>4, SameLess
  <2> QED BY <1>4, <2>4, <2>5 DEF CommittedLog
<1> QED BY <1>1, <1>3, <1>4 DEF CommittedBy

LEMMA Append1Safe ==
  ASSUME NEW h, NEW a, NEW g, NEW b, Step(h, a, g, b), NEW i \in Server,
         g = [h EXCEPT ![currentTerm[i]] = Append(log[i], currentTerm[i])],
         NEW prog \in [Server -> ProgressType], NEW due, Append1(i, prog, due),
         \A j \in Server \ {i} : prog[j].next <= Len(log[i]) + 1,
         \A j \in Server : prog[j].match <= b[j][currentTerm[i]],
         currentTerm' = currentTerm, state[i] # "follower",
         \A k \in Server \ {i} : state'[k] = state[k],
         \A k \in Server : votes'[k] \subseteq votes[k],
         h[currentTerm[i]] = << >> \/ h[currentTerm[i]] = log[i],
         \A t \in Entry : t < currentTerm[i] =>
           \A n \in 1..Len(h[t]) :
             h[t][n] = t => SameUpTo(log[i], h[t], n) \/ Abandoned(a, t, n)
  PROVE  SafetyParts(g, b)'
<1> DEFINE T == currentTerm[i]
           l == Append(log[i], T)
           w == [op |-> "leader", index |-> Len(l), entries |-> <<T>>]
<1>1. /\ log' = [log EXCEPT ![i] = l] /\ writes' = [writes EXCEPT ![i] = Append(@, w)]
      /\ Send(msgs, triggerAll(i, l, commitIndex[i], prog, due))
      /\ progress' = [progress EXCEPT ![i] = Triggered(i, l, prog, due)]
      /\ lastStored' = lastStored /\ commitIndex' = commitIndex /\ applied' = applied
      /\ chosen' = chosen /\ disk' = disk
  BY DEF Append1
<1>2. /\ log \in [Server -> Log] /\ writes \in [Server -> Seq(Write)] /\ log[i] # << >>
      /\ progress \in [Server -> [Server -> ProgressType]]
  BY DEF Step, TypeInv, TypeOK, QueuesOK, NonEmpty, ProgressType
<1>3. /\ log'[i] = l /\ writes'[i] = Append(writes[i], w)
      /\ progress'[i] = Triggered(i, l, prog, due)
      /\ \A k \in Server \ {i} : log'[k] = log[k] /\ writes'[k] = writes[k]
                                 /\ progress'[k] = progress[k]
  BY <1>1, <1>2
<1>4. /\ T \in Entry /\ T \in Nat /\ TermsOf(i) /\ currentTerm'[i] = T
      /\ log[i] \in Log /\ Len(log[i]) \in Nat /\ lastStored[i] \in 1..Len(log[i])
      /\ lastStored[i] \in Nat
      /\ writes[i] \in Seq(Write) /\ disk[i] \in Log
  BY StepTerms, StepServer
<1>5. /\ l \in Log /\ Len(l) = Len(log[i]) + 1 /\ Len(l) \in Nat /\ l[1] = 1
      /\ SameUpTo(l, log[i], Len(log[i])) /\ Below(l, T) /\ LastTerm(l) = T
  BY <1>2, <1>4, AppendFacts DEF TermsOf
<1>6. /\ h \in [Entry -> Log] /\ g \in [Entry -> Log] /\ Ordered(h)
  BY StepSets
<1>7. g[T] = l /\ \A t \in Entry : t # T => g[t] = h[t]
  BY <1>4, <1>6
<1> HIDE DEF l
<1>8. Ordered(g)
  <2> SUFFICES ASSUME NEW t \in Entry PROVE Below(g[t], t) /\ (g[t] # << >> => g[t][1] = 1)
    BY DEF Ordered
  <2>1. CASE t = T
    BY <1>5, <1>7, <2>1
  <2>2. CASE t # T
    BY <1>6, <1>7, <2>2 DEF Ordered
  <2> QED BY <2>1, <2>2
<1>9. /\ Len(writes'[i]) = Len(writes[i]) + 1 /\ writes'[i][Len(writes[i]) + 1] = w
      /\ \A k \in 1..Len(writes[i]) : writes'[i][k] = writes[i][k]
      /\ Len(writes[i]) \in Nat
  BY <1>3, <1>4
<1>10. TermsOf(i)'
  <2>1. log'[i][1] = 1 /\ Below(log'[i], T) /\ LastTerm(log'[i]) = T
    BY <1>3, <1>5
  <2>2. Below(disk'[i], T)
    BY <1>1, <1>4 DEF TermsOf
  <2>3. ASSUME NEW k \in 1..Len(writes'[i]), writes'[i][k].op # "truncate"
        PROVE  Below(writes'[i][k].entries, T)
    <3>1. CASE k \in 1..Len(writes[i])
      BY <1>4, <1>9, <2>3, <3>1 DEF TermsOf
    <3>2. CASE k = Len(writes[i]) + 1
      <4>1. writes'[i][k].entries = <<T>>
        BY <1>9, <3>2
      <4>2. Below(<<T>>, T)
        BY <1>4 DEF Below
      <4> QED BY <4>1, <4>2
    <3> QED BY <1>9, <3>1, <3>2
  <2> QED BY <1>4, <2>1, <2>2, <2>3 DEF TermsOf, Below, LastTerm, TermAt
<1>11. Stays(i)
  BY <1>1, <1>3, <1>4, <1>5 DEF Stays, SameUpTo
<1>12. \A k \in 1..Len(writes'[i]) : writes'[i][k].op # "follower"
  <2>1. ~HasFollowerWrite(i)
    BY DEF Step, TypeInv, Roles
  <2>2. \A k \in 1..Len(writes[i]) : writes[i][k].op # "follower"
    BY <1>4, <2>1 DEF HasFollowerWrite
  <2>3. w.op # "follower"
    OBVIOUS
  <2> QED BY <1>9, <2>2, <2>3, SMTT(60)
<1>13. WritesOf(i, g)'
  BY <1>12 DEF WritesOf
<1>14. CountsOf(i, b)
  <2> SUFFICES ASSUME NEW j \in Server PROVE progress'[i][j].match <= b[j][T]
    BY <1>4 DEF CountsOf
  <2>1. progress'[i][j] = IF j \in Receivers(i, l, prog, due) THEN Sent(l, prog[j]) ELSE prog[j]
    BY <1>3 DEF Triggered
  <2>2. prog[j] \in ProgressType /\ (j # i => prog[j].next <= Len(l) + 1)
    BY <1>4, <1>5 DEF ProgressType
  <2>3. j \in Receivers(i, l, prog, due) => j # i
    BY DEF Receivers
  <2>4. j # i => Sent(l, prog[j]).match = prog[j].match
    BY <1>5, <2>2, SentType
  <2> QED BY <2>1, <2>3, <2>4
<1>15. CommitsOf(i, g, b)
  <2>1. CommittedBy(g, b, commitIndex'[i], T)
    BY <1>1, <1>4, CommittedByStep DEF Step, SafetyParts, Committing
  <2>2. ASSUME NEW c \in 1..Len(l), c <= commitIndex[i] PROVE CommittedLog(g, b, l, c, T)
    <3>1. c \in Nat
      BY <1>5
    <3>2. CommittedLog(h, a, log[i], c, T)
      BY <2>2, <3>1, LeaderHasCommitted
    <3>3. c <= Len(log[i]) \/ c <= 1
      BY <3>1, <3>2 DEF CommittedLog, SameUpTo
    <3>4. CASE c <= Len(log[i])
      <4>1. SameUpTo(l, log[i], c)
        BY <1>4, <1>5, <3>1, <3>4, SameLess
      <4> QED BY <1>4, <3>1, <3>2, <4>1, CommittedLogStep
    <3>5. CASE c <= 1
      BY <3>5 DEF CommittedLog
    <3> QED BY <3>3, <3>4, <3>5
  <2> QED BY <1>1, <1>3, <1>4, <2>1, <2>2 DEF CommitsOf
<1>16. ASSUME NEW k \in Server, k # i
       PROVE  TermsOf(k)' /\ WritesOf(k, g)' /\ Stays(k) /\ CountsOf(k, b) /\ CommitsOf(k, g, b)
  <2>1. /\ log'[k] = log[k] /\ writes'[k] = writes[k] /\ progress'[k] = progress[k]
        /\ state'[k] = state[k] /\ currentTerm'[k] = currentTerm[k]
        /\ lastStored'[k] = lastStored[k] /\ disk'[k] = disk[k] /\ commitIndex'[k] = commitIndex[k]
    BY <1>1, <1>3, <1>16
  <2>2. \A j \in Server : progress'[k][j].match <= progress[k][j].match
    BY <1>2, <2>1 DEF ProgressType
  <2> QED BY <2>1, <2>2, StorageStays, SameCounts, SameLogCommits
<1>17. Complete(g, b)'
  BY CompleteGrows
<1>18. Covered(g, b)'
  BY <1>8, <1>11, <1>16, CoveredStays
<1>19. Applying(g, b)'
  BY <1>1, StepApplying
<1>20. ASSUME NEW m \in msgs' PROVE m \in msgs \/ GoodMessage(m, g, b)
  <2>1. m \in msgs \/ m \in triggerAll(i, l, commitIndex[i], prog, due)
    BY <1>1, SendSubset
  <2>2. ASSUME NEW j \in Receivers(i, l, prog, due),
               m = sendAppendEntries(i, j, l, commitIndex[i], prog[j])
        PROVE  GoodMessage(m, g, b)
    <3>1. j \in Server \ {i}
      BY DEF Receivers
    <3>2. prog[j] \in ProgressType /\ prog[j].next <= Len(l) + 1
      BY <1>4, <1>5, <3>1 DEF ProgressType
    <3>3. TypeInv
      BY DEF Step
    <3>4. l = g[T]
      BY <1>7
    <3>5. FromLeader(m, g)
      BY <1>5, <1>6, <2>2, <3>2, <3>3, <3>4, LeaderSends
    <3>6. m.type = "AppendEntries" /\ m.commit = commitIndex[i] /\ m.term = T
      BY <2>2 DEF sendAppendEntries
    <3>7. CommittedBy(g, b, commitIndex[i], T)
      <4>1. CommittedBy(h, a, commitIndex[i], T) /\ T \in Int /\ T <= T
        BY <1>4 DEF Step, SafetyParts, Committing
      <4> QED BY <4>1, CommittedByStep
    <3> QED BY <3>5, <3>6, <3>7 DEF GoodMessage
  <2> QED BY <2>1, <2>2 DEF triggerAll
<1>21. \A k \in Server : \A x \in 1..Len(writes'[k]) :
         writes'[k][x].op = "follower" =>
           \/ \E n \in 1..Len(writes[k]) : writes'[k][x] = writes[k][n]
           \/ CommittedBy(g, b, writes'[k][x].commit, writes'[k][x].term)
  BY <1>3, <1>12
<1>22. \A k \in Server : TermsOf(k)' /\ WritesOf(k, g)' /\ (Stays(k) \/ Keeps(h, a, k))
                         /\ CountsOf(k, b) /\ CommitsOf(k, g, b)
  BY <1>10, <1>11, <1>13, <1>14, <1>15, <1>16
<1>23. \A m \in msgs' : m \in msgs \/ GoodMessage(m, g, b)
  BY <1>20
<1> QED BY <1>8, <1>17, <1>18, <1>19, <1>21, <1>22, <1>23, SafeStep

LEMMA convertToLeaderSafe ==
  ASSUME NEW h, NEW a, NEW g, NEW b, Step(h, a, g, b), NEW i \in Server, convertToLeader(i),
         g = [h EXCEPT ![currentTerm[i]] = Append(log[i], currentTerm[i])]
  PROVE  SafetyParts(g, b)'
<1> DEFINE prog == progressBuildArray(i, Len(log[i]))
<1>1. /\ state[i] = "candidate" /\ Quorum(votes[i]) /\ Append1(i, prog, Server)
      /\ state' = [state EXCEPT ![i] = "leader"] /\ votes' = [votes EXCEPT ![i] = {}]
      /\ currentTerm' = currentTerm
  BY DEF convertToLeader
<1>2. /\ lastStored[i] \in Nat /\ Len(log[i]) \in Nat /\ log[i] \in Log
      /\ lastStored[i] \in 1..Len(log[i])
  BY StepServer
<1>3. /\ prog \in [Server -> ProgressType] /\ \A j \in Server : prog[j].next = Len(log[i]) + 1
      /\ prog[i].match = lastStored[i] /\ \A j \in Server : j # i => prog[j].match = 0
  BY <1>2 DEF progressBuildArray, ProgressType
<1> HIDE DEF prog
<1>4. /\ currentTerm[i] \in Entry /\ TermsOf(i)
  BY StepTerms
<1>5. log'[i] = Append(log[i], currentTerm[i]) /\ lastStored'[i] = lastStored[i]
      /\ log[i] # << >>
  BY <1>1 DEF Append1, Step, TypeInv, TypeOK, NonEmpty
<1>6. LastTerm(log'[i]) = currentTerm'[i]
  BY <1>1, <1>2, <1>4, <1>5, AppendFacts DEF TermsOf
<1>7. \A j \in Server : prog[j].match <= b[j][currentTerm[i]]
  <2> SUFFICES ASSUME NEW j \in Server PROVE prog[j].match <= b[j][currentTerm[i]]
    OBVIOUS
  <2>1. CASE j = i
    BY <1>1, <1>3, <1>4, <1>5, <1>6, <2>1, StepConfirms, ZenonT(60)
  <2>2. CASE j # i
    <3>1. b[j][currentTerm[i]] \in Nat
      BY <1>4, StepConfirms
    <3> QED BY <1>3, <2>2, <3>1
  <2> QED BY <2>1, <2>2
<1>8. h[currentTerm[i]] = << >>
  <2>1. PICK v : VotesCast(v) /\ Wins(h, v)
    BY DEF Step, SafetyParts, Past, Led
  <2> QED BY <1>1, <2>1, WinnerIsFirst DEF Step
<1>9. \A t \in Entry : t < currentTerm[i] =>
        \A n \in 1..Len(h[t]) :
          h[t][n] = t => SameUpTo(log[i], h[t], n) \/ Abandoned(a, t, n)
  BY <1>1, WinnerComplete DEF Step
<1>10. /\ \A k \in Server \ {i} : state'[k] = state[k]
       /\ \A k \in Server : votes'[k] \subseteq votes[k]
  BY <1>1 DEF Step, TypeInv, TypeOK
<1>11. \A j \in Server \ {i} : prog[j].next <= Len(log[i]) + 1
  BY <1>2, <1>3
<1> QED BY <1>1, <1>3, <1>7, <1>8, <1>9, <1>10, <1>11, Append1Safe

LEMMA raft_applySafe ==
  ASSUME NEW h, NEW a, NEW g, NEW b, Step(h, a, g, b), NEW i \in Server, raft_apply(i),
         g = [h EXCEPT ![currentTerm[i]] = Append(log[i], currentTerm[i])]
  PROVE  SafetyParts(g, b)'
<1>1. PICK due : Append1(i, progress[i], due)
  BY DEF raft_apply
<1>2. /\ state[i] = "leader" /\ state' = state /\ currentTerm' = currentTerm /\ votes' = votes
  BY DEF raft_apply, electionVars
<1>3. /\ progress[i] \in [Server -> ProgressType]
      /\ \A j \in Server \ {i} : progress[i][j].next <= Len(log[i]) + 1
  BY <1>2 DEF Step, TypeInv, TypeOK, ProgressType, ProgressBounded, Bounded
<1>4. \A j \in Server : progress[i][j].match <= b[j][currentTerm[i]]
  <2> SUFFICES ASSUME NEW j \in Server PROVE progress[i][j].match <= b[j][currentTerm[i]]
    OBVIOUS
  <2>1. progress[i][j].match \in Nat /\ progress[i][j].match <= progress[i][j].match
    BY <1>3 DEF ProgressType
  <2>2. progress[i][j].match <= b[j][currentTerm'[i]]
    BY <1>2, <2>1, CountsStay
  <2> QED BY <1>2, <2>2
<1>5. h[currentTerm[i]] = log[i] /\ currentTerm[i] \in Entry
  BY <1>2, StepTerms DEF Step, SafetyParts, Past, History
<1>6. log[i] # << >>
  BY DEF Step, TypeInv, NonEmpty
<1>7. \A t \in Entry : t < currentTerm[i] =>
        \A n \in 1..Len(h[t]) :
          h[t][n] = t => SameUpTo(log[i], h[t], n) \/ Abandoned(a, t, n)
  BY <1>5, <1>6 DEF Step, SafetyParts, Complete
<1> QED BY <1>1, <1>2, <1>3, <1>4, <1>5, <1>7, Append1Safe

\* A step in which server i applies what is justified, and no log changes.
LEMMA ApplySafe ==
  ASSUME NEW h, NEW a, NEW b, Step(h, a, h, b), NEW i \in Server, NEW c,
         ApplyUpTo(i, log[i], c), Justified(i, c, h, b),
         UNCHANGED <<log, lastStored, diskVars>>,
         \A m \in msgs' : m \in msgs \/ GoodMessage(m, h, b),
         \A k \in Server : CountsOf(k, b),
         \A k \in Server : state'[k] = "leader" =>
           state[k] = "leader" /\ currentTerm'[k] = currentTerm[k],
         \A k \in Server : votes'[k] = {}
           \/ (votes'[k] \subseteq votes[k] /\ currentTerm'[k] = currentTerm[k])
  PROVE  SafetyParts(h, b)'
<1>1. log' = log /\ lastStored' = lastStored /\ disk' = disk /\ writes' = writes
  BY DEF diskVars
<1>2. Applying(h, b)' /\ \A k \in Server : CommitsOf(k, h, b)
  BY <1>1, ApplyStep
<1>3. ASSUME NEW k \in Server PROVE TermsOf(k)' /\ WritesOf(k, h)' /\ Stays(k)
  BY <1>1, <1>3, StorageStays
<1>4. Ordered(h)
  BY StepSets
<1>5. Covered(h, b)'
  BY <1>3, <1>4, CoveredStays
<1>6. Complete(h, b)'
  BY CompleteQuiet
<1>7. \A k \in Server : \A x \in 1..Len(writes'[k]) :
        writes'[k][x].op = "follower" =>
          \/ \E n \in 1..Len(writes[k]) : writes'[k][x] = writes[k][n]
          \/ CommittedBy(h, b, writes'[k][x].commit, writes'[k][x].term)
  BY <1>1
<1>8. \A k \in Server : TermsOf(k)' /\ WritesOf(k, h)' /\ (Stays(k) \/ Keeps(h, a, k))
                        /\ CountsOf(k, b) /\ CommitsOf(k, h, b)
  BY <1>2, <1>3
<1> QED BY <1>2, <1>4, <1>5, <1>6, <1>7, <1>8, SafeStep

\* The leader i has a new match index for j, and counts no more than is confirmed.
LEMMA OneCount ==
  ASSUME NEW h, NEW a, NEW b, Step(h, a, h, b), NEW i \in Server, NEW j \in Server,
         state[i] = "leader", state' = state, currentTerm' = currentTerm, NEW q,
         progress' = [progress EXCEPT ![i][j] = q], q.match <= b[j][currentTerm[i]]
  PROVE  \A k \in Server : CountsOf(k, b)
<1> SUFFICES ASSUME NEW k \in Server, state[k] = "leader", NEW x \in Server
             PROVE  progress'[k][x].match <= b[x][currentTerm[k]]
  BY DEF CountsOf
<1>1. progress \in [Server -> [Server -> ProgressType]]
  BY DEF Step, TypeInv, TypeOK, ProgressType
<1>2. CASE k = i /\ x = j
  BY <1>1, <1>2
<1>3. CASE ~(k = i /\ x = j)
  <2>1. progress'[k][x] = progress[k][x] /\ progress[k][x].match \in Nat
    BY <1>1, <1>3 DEF ProgressType
  <2>2. progress[k][x].match <= progress[k][x].match
    BY <2>1
  <2>3. progress[k][x].match <= b[x][currentTerm'[k]]
    BY <2>1, <2>2, CountsStay
  <2> QED BY <2>1, <2>3
<1> QED BY <1>2, <1>3

\* What the leader i knows to be committed, as it was or with a new commit index.
LEMMA JustifiedCommitted ==
  ASSUME NEW h, NEW a, NEW b, Step(h, a, h, b), NEW i \in Server, NEW c, Justified(i, c, h, b),
         currentTerm'[i] = currentTerm[i]
  PROVE  CommittedBy(h, b, c, currentTerm[i])
<1>1. CASE c = commitIndex[i]
  <2>1. currentTerm[i] \in Int /\ currentTerm[i] <= currentTerm[i]
    BY StepTerms
  <2>2. CommittedBy(h, a, commitIndex[i], currentTerm[i])
    BY DEF Step, SafetyParts, Committing
  <2> QED BY <1>1, <2>1, <2>2, CommittedByStep
<1>2. CASE CommittedLog(h, b, log[i], c, currentTerm'[i])
  BY <1>2 DEF CommittedLog, CommittedBy
<1> QED BY <1>1, <1>2 DEF Justified

\* replicationUpdate: what is sent to j with the new progress q.
LEMMA ReplicateSends ==
  ASSUME NEW h, NEW a, NEW b, Step(h, a, h, b), NEW i \in Server, state[i] = "leader",
         currentTerm'[i] = currentTerm[i], NEW j, NEW c, CommittedBy(h, b, c, currentTerm[i]),
         NEW q \in ProgressType, q.next <= Len(log[i]) + 1, NEW rest \in SUBSET msgs, NEW send,
         Send(rest, IF send THEN {sendAppendEntries(i, j, log[i], c, q)} ELSE {})
  PROVE  \A m \in msgs' : m \in msgs \/ GoodMessage(m, h, b)
<1> DEFINE m == sendAppendEntries(i, j, log[i], c, q)
<1>1. GoodMessage(m, h, b)
  BY LeaderMessage
<1>2. msgs' \subseteq rest \cup (IF send THEN {m} ELSE {})
  BY SendSubset
<1> HIDE DEF m
<1>3. msgs' \subseteq msgs \cup {m}
  BY <1>2
<1> QED BY <1>1, <1>3

LEMMA recvAppendEntriesResultSafe ==
  ASSUME NEW h, NEW a, NEW b, Step(h, a, h, b), NEW m \in msgs, recvAppendEntriesResult(m)
  PROVE  SafetyParts(h, b)'
<1> DEFINE i == m.to
           j == m.from
           p == progress[i][j]
           last == Min({m.last, Len(log[i])})
           current == state[i] = "leader" /\ m.term = currentTerm[i]
           Replicate(q, c, due) ==
             LET send == ShouldReplicate(log[i], q, due)
             IN  /\ progress' = [progress EXCEPT ![i][j] =
                                   IF send THEN Sent(log[i], q) ELSE q]
                 /\ Send(msgs \ {m}, IF send THEN {sendAppendEntries(i, j, log[i], c, q)}
                                             ELSE {})
<1>1. m.type = "AppendEntriesResult" /\ UNCHANGED diskVars
  BY DEF recvAppendEntriesResult
<1>2. m \in AppendEntriesResult /\ i # j
  BY <1>1 DEF Step, TypeInv, QueuesOK, MessagesOK, AppendEntries
<1>3. /\ i \in Server /\ j \in Server /\ m.term \in Term /\ m.rejected \in Nat
      /\ m.last \in Nat
  BY <1>2 DEF AppendEntriesResult
<1>4. log[i] \in Log /\ Len(log[i]) \in Nat /\ currentTerm[i] \in Entry /\ currentTerm[i] \in Nat
  BY <1>3, StepServer, StepTerms
<1>5. last \in 0..Len(log[i]) /\ last \in Nat /\ last <= m.last
  BY <1>3, <1>4, MinOfTwo
<1>6. /\ p \in ProgressType /\ (state[i] = "leader" => Bounded(log[i], p))
      /\ progress \in [Server -> [Server -> ProgressType]] /\ state \in [Server -> Role]
      /\ votes \in [Server -> SUBSET Server]
      /\ currentTerm \in [Server -> 0..Conf.maxTerm]
  BY <1>2, <1>3 DEF Step, TypeInv, TypeOK, ProgressType, ProgressBounded
<1>7. \A k, x \in Server : progress[k][x].match \in Nat /\ progress[k][x].match <= progress[k][x].match
  BY <1>6 DEF ProgressType
<1>8. CASE msgs' = msgs \ {m} /\ UNCHANGED <<electionVars, logVars, progress>>
  BY <1>1, <1>7, <1>8, QuietSafe DEF electionVars
<1> HIDE DEF i, j, p, last
<1>9. CASE /\ state[i] = "leader" /\ m.term > currentTerm[i]
           /\ convertToFollower(i, m.term, None)
           /\ msgs' = msgs \ {m}
           /\ UNCHANGED logVars
  <2>1. /\ state' = [state EXCEPT ![i] = "follower"] /\ votes' = [votes EXCEPT ![i] = {}]
        /\ currentTerm' = [currentTerm EXCEPT ![i] = m.term]
        /\ progress' = [progress EXCEPT ![i] = NoProgress]
    BY <1>9 DEF convertToFollower
  <2>2. votes'[i] = {} /\ state'[i] # "leader"
    BY <1>3, <1>6, <2>1
  <2>3. \A k \in Server \ {i} : /\ state'[k] = state[k] /\ currentTerm'[k] = currentTerm[k]
                                /\ progress'[k] = progress[k] /\ votes'[k] = votes[k]
    BY <1>6, <2>1
  <2> QED BY <1>1, <1>7, <1>9, <2>2, <2>3, QuietSafe
<1>10. CASE /\ current /\ m.rejected > 0 /\ ~Stale(p, m.rejected)
            /\ \E due \in BOOLEAN :
                 Replicate(progressMaybeDecrement(p, m.rejected, m.last),
                           commitIndex[i], due)
            /\ UNCHANGED <<electionVars, logVars>>
  <2> DEFINE q == progressMaybeDecrement(p, m.rejected, m.last)
  <2>1. q \in ProgressType /\ Bounded(log[i], q)
    BY <1>3, <1>4, <1>6, <1>10, progressMaybeDecrementType
  <2>2. q.match = p.match
    BY <1>6 DEF progressMaybeDecrement, ProgressType
  <2>3. PICK due \in BOOLEAN : Replicate(q, commitIndex[i], due)
    BY <1>10
  <2> HIDE DEF q
  <2> DEFINE send == ShouldReplicate(log[i], q, due)
             x == IF send THEN Sent(log[i], q) ELSE q
  <2>4. q.next <= Len(log[i]) + 1
    BY <2>1 DEF Bounded
  <2>5. x.match = p.match
    BY <1>4, <2>1, <2>2, <2>4, SentType
  <2>6. progress' = [progress EXCEPT ![i][j] = x]
    BY <2>3
  <2>7. Justified(i, commitIndex[i], h, b)
    BY DEF Justified
  <2>8. state' = state /\ currentTerm' = currentTerm /\ votes' = votes
    BY <1>10 DEF electionVars
  <2>9. CommittedBy(h, b, commitIndex[i], currentTerm[i])
    BY <1>3, <2>7, <2>8, JustifiedCommitted
  <2>10. \A n \in msgs' : n \in msgs \/ GoodMessage(n, h, b)
    <3>1. Send(msgs \ {m}, IF send THEN {sendAppendEntries(i, j, log[i], commitIndex[i], q)} ELSE {})
      BY <2>3
    <3>2. msgs \ {m} \in SUBSET msgs
      OBVIOUS
    <3> HIDE DEF send
    <3> QED BY <1>3, <1>10, <2>1, <2>4, <2>8, <2>9, <3>1, <3>2, ReplicateSends
  <2>11. \A k, y \in Server : progress'[k][y].match <= progress[k][y].match
    <3> HIDE DEF x
    <3> QED BY <1>3, <1>6, <1>7, <2>5, <2>6 DEF p
  <2> QED BY <1>1, <1>10, <2>8, <2>10, <2>11, QuietSafe
<1>11. CASE /\ current /\ m.rejected = 0 /\ p.match < last
            /\ LET q == progressMaybeUpdate(p, last)
                   c == LeaderCommit(i, log[i], [progress[i] EXCEPT ![j] = q], last)
               IN  /\ ApplyUpTo(i, log[i], c)
                   /\ \E due \in BOOLEAN : Replicate(q, c, due)
            /\ UNCHANGED <<electionVars, log, lastStored>>
  <2> DEFINE q == progressMaybeUpdate(p, last)
             prog == [progress[i] EXCEPT ![j] = q]
             c == LeaderCommit(i, log[i], prog, last)
  <2>1. q \in ProgressType /\ Bounded(log[i], q)
    BY <1>4, <1>5, <1>6, <1>11, progressMaybeUpdateType
  <2>2. q.match = last
    <3>1. p.match \in Nat /\ p.match < last
      BY <1>6, <1>11 DEF ProgressType
    <3>2. Max({p.match, last}) = last
      BY <1>5, <3>1, MaxOfTwo
    <3>3. q.match = Max({p.match, last})
      BY DEF progressMaybeUpdate
    <3> QED BY <3>2, <3>3
  <2>3. PICK due \in BOOLEAN : Replicate(q, c, due)
    BY <1>11
  <2>4. ApplyUpTo(i, log[i], c)
    BY <1>11
  <2> HIDE DEF q
  <2>5. last <= b[j][currentTerm[i]]
    <3>1. m.last <= a[j][currentTerm[i]]
      BY <1>1, <1>11 DEF Step, SafetyParts, Counting, j
    <3>2. /\ a[j][currentTerm[i]] \in Nat /\ b[j][currentTerm[i]] \in Nat
          /\ a[j][currentTerm[i]] <= b[j][currentTerm[i]]
      BY <1>3, <1>4, StepConfirms
    <3> QED BY <1>3, <1>5, <3>1, <3>2
  <2>6. state' = state /\ currentTerm' = currentTerm /\ votes' = votes
    BY <1>11 DEF electionVars
  <2>7. \A x \in Server : prog[x].match \in Nat /\ prog[x].match <= b[x][currentTerm[i]]
    <3> SUFFICES ASSUME NEW x \in Server
                 PROVE  prog[x].match \in Nat /\ prog[x].match <= b[x][currentTerm[i]]
      OBVIOUS
    <3>1. CASE x = j
      BY <1>3, <1>5, <1>6, <2>2, <2>5, <3>1
    <3>2. CASE x # j
      <4>1. prog[x] = progress[i][x]
        BY <1>3, <1>6, <3>2
      <4>2. /\ progress[i][x].match \in Nat /\ progress[i][x].match <= progress[i][x].match
            /\ currentTerm'[i] = currentTerm[i] /\ state[i] = "leader"
        BY <1>3, <1>7, <1>11, <2>6
      <4>3. progress[i][x].match <= b[x][currentTerm'[i]]
        BY <1>3, <4>2, CountsStay
      <4> QED BY <4>1, <4>2, <4>3
    <3> QED BY <3>1, <3>2
  <2> HIDE DEF prog
  <2>8. Justified(i, c, h, b)
    <3>1. last <= Len(log[i]) /\ currentTerm'[i] = currentTerm[i]
      BY <1>4, <1>5, <2>6
    <3> QED BY <1>3, <1>5, <1>11, <2>7, <3>1, LeaderCommits DEF Justified
  <2> HIDE DEF c
  <2>9. CommittedBy(h, b, c, currentTerm[i])
    BY <1>3, <2>6, <2>8, JustifiedCommitted
  <2> DEFINE send == ShouldReplicate(log[i], q, due)
             x == IF send THEN Sent(log[i], q) ELSE q
  <2>10. q.next <= Len(log[i]) + 1
    BY <2>1 DEF Bounded
  <2>11. x.match = last
    BY <1>4, <2>1, <2>2, <2>10, SentType
  <2>12. progress' = [progress EXCEPT ![i][j] = x]
    BY <2>3
  <2>13. \A n \in msgs' : n \in msgs \/ GoodMessage(n, h, b)
    <3>1. Send(msgs \ {m}, IF send THEN {sendAppendEntries(i, j, log[i], c, q)} ELSE {})
      BY <2>3
    <3>2. msgs \ {m} \in SUBSET msgs
      OBVIOUS
    <3> HIDE DEF send
    <3> QED BY <1>3, <1>11, <2>1, <2>6, <2>9, <2>10, <3>1, <3>2, ReplicateSends
  <2>14. \A k \in Server : CountsOf(k, b)
    <3> HIDE DEF x
    <3> QED BY <1>3, <1>11, <2>5, <2>6, <2>11, <2>12, OneCount
  <2> QED BY <1>1, <1>3, <1>11, <2>4, <2>6, <2>8, <2>13, <2>14, ApplySafe
<1>12. CASE /\ current /\ m.rejected = 0 /\ p.match >= last
            /\ progress' = [progress EXCEPT ![i][j] = progressMaybeUpdate(@, last)]
            /\ msgs' = msgs \ {m}
            /\ UNCHANGED <<electionVars, logVars>>
  <2>1. progressMaybeUpdate(p, last).match = p.match
    <3>1. p.match \in Nat /\ p.match >= last
      BY <1>6, <1>12 DEF ProgressType
    <3>2. Max({p.match, last}) = p.match
      BY <1>5, <3>1, MaxOfTwo
    <3>3. progressMaybeUpdate(p, last).match = Max({p.match, last})
      BY DEF progressMaybeUpdate
    <3> QED BY <3>2, <3>3
  <2>2. state' = state /\ currentTerm' = currentTerm /\ votes' = votes
    BY <1>12 DEF electionVars
  <2>3. \A k, y \in Server : progress'[k][y].match <= progress[k][y].match
    BY <1>3, <1>6, <1>7, <1>12, <2>1 DEF p
  <2> QED BY <1>1, <1>12, <2>2, <2>3, QuietSafe
<1> QED BY <1>8, <1>9, <1>10, <1>11, <1>12 DEF recvAppendEntriesResult, i, j, p, last

\* A server becomes follower: it counts no more, and nobody votes for it.
LEMMA FollowerFacts ==
  ASSUME NEW h, NEW a, NEW g, NEW b, Step(h, a, g, b), NEW i \in Server, NEW term, NEW l,
         convertToFollower(i, term, l)
  PROVE  /\ votes'[i] = {} /\ state'[i] = "follower" /\ currentTerm'[i] = term
         /\ \A k \in Server \ {i} : /\ state'[k] = state[k] /\ currentTerm'[k] = currentTerm[k]
                                    /\ progress'[k] = progress[k] /\ votes'[k] = votes[k]
         /\ \A k \in Server : state'[k] = "leader" =>
              /\ state[k] = "leader" /\ currentTerm'[k] = currentTerm[k]
              /\ \A j \in Server : progress'[k][j].match <= progress[k][j].match
         /\ \A k \in Server : votes'[k] = {}
              \/ (votes'[k] \subseteq votes[k] /\ currentTerm'[k] = currentTerm[k])
         /\ \A k \in Server : CountsOf(k, b)
<1>1. /\ progress \in [Server -> [Server -> ProgressType]] /\ state \in [Server -> Role]
      /\ votes \in [Server -> SUBSET Server]
      /\ currentTerm \in [Server -> 0..Conf.maxTerm]
  BY DEF Step, TypeInv, TypeOK, ProgressType
<1>2. /\ state' = [state EXCEPT ![i] = "follower"] /\ votes' = [votes EXCEPT ![i] = {}]
      /\ currentTerm' = [currentTerm EXCEPT ![i] = term]
      /\ progress' = [progress EXCEPT ![i] = NoProgress]
  BY DEF convertToFollower
<1>3. /\ votes'[i] = {} /\ state'[i] = "follower" /\ currentTerm'[i] = term
  BY <1>1, <1>2
<1>4. \A k \in Server \ {i} : /\ state'[k] = state[k] /\ currentTerm'[k] = currentTerm[k]
                              /\ progress'[k] = progress[k] /\ votes'[k] = votes[k]
  BY <1>1, <1>2
<1>5. \A k, j \in Server : progress[k][j].match <= progress[k][j].match
  BY <1>1 DEF ProgressType
<1>6. \A k \in Server : state'[k] = "leader" =>
        /\ state[k] = "leader" /\ currentTerm'[k] = currentTerm[k]
        /\ \A j \in Server : progress'[k][j].match <= progress[k][j].match
  BY <1>3, <1>4, <1>5
<1>7. ASSUME NEW k \in Server PROVE CountsOf(k, b)
  BY <1>6, <1>7, SameCounts
<1> QED BY <1>3, <1>4, <1>6, <1>7

LEMMA MessageFacts ==
  ASSUME NEW h, NEW a, NEW g, NEW b, Step(h, a, g, b), NEW m \in msgs, m.type = "AppendEntries"
  PROVE  /\ m \in AppendEntries /\ m.from \in Server /\ m.to \in Server
         /\ m.prev \in Nat /\ m.prevTerm \in Nat /\ m.entries \in Log /\ Len(m.entries) \in Nat
         /\ m.commit \in Nat /\ m.term \in Entry /\ m.term \in Nat
         /\ FromLeader(m, h) /\ CommittedBy(h, a, m.commit, m.term)
<1>1. FromLeader(m, h) /\ CommittedBy(h, a, m.commit, m.term)
  BY DEF Step, SafetyParts, Sending, Committing
<1>2. m \in AppendEntries
  BY DEF Step, TypeInv, QueuesOK, AppendEntriesResult
<1>3. m.term \in Entry
  BY <1>1 DEF FromLeader
<1>4. m.term \in Nat
  BY <1>3, EntryFacts
<1>5. m.entries \in Log
  BY <1>2 DEF AppendEntries
<1>6. Len(m.entries) \in Nat
  BY <1>5, LogLen
<1> QED BY <1>1, <1>2, <1>3, <1>4, <1>5, <1>6 DEF AppendEntries

\* A message of an earlier term, or one that does not fit, is refused at an entry
\* that is not the first.
LEMMA RefusalSafe ==
  ASSUME NEW h, NEW a, NEW b, Step(h, a, h, b), NEW m \in msgs, m.type = "AppendEntries",
         NEW i, i = m.to,
         \/ /\ m.prev # 0
            /\ Send(msgs \ {m}, {result(i, m.from, currentTerm[i], m.prev, Len(log[i]))})
            /\ UNCHANGED <<electionVars, logVars, progress, diskVars>>
         \/ /\ convertToFollower(i, m.term, m.from) /\ ~Matches(i, m)
            /\ Send(msgs \ {m}, {result(i, m.from, m.term, m.prev, Reached(i))})
            /\ UNCHANGED <<logVars, writes>> /\ UNCHANGED disk
  PROVE  SafetyParts(h, b)'
<1>2. /\ i \in Server /\ m.prev \in Nat /\ m.term \in Entry /\ m.term \in Nat
      /\ FromLeader(m, h)
  BY MessageFacts
<1>3. currentTerm[i] \in Entry /\ currentTerm[i] \in Nat
  BY <1>2, StepTerms
<1>4. progress \in [Server -> [Server -> ProgressType]]
  BY DEF Step, TypeInv, TypeOK, ProgressType
<1>5. \A k, x \in Server : progress[k][x].match <= progress[k][x].match
  BY <1>4 DEF ProgressType
<1>6. ASSUME NEW t \in Entry, NEW last, m.prev # 0,
             Send(msgs \ {m}, {result(i, m.from, t, m.prev, last)})
      PROVE  \A x \in msgs' : x \in msgs \/ GoodMessage(x, h, b)
  <2>1. msgs' \subseteq (msgs \ {m}) \cup {result(i, m.from, t, m.prev, last)}
    BY <1>6, SendSubset
  <2>2. GoodMessage(result(i, m.from, t, m.prev, last), h, b)
    BY <1>6 DEF GoodMessage, result
  <2> QED BY <2>1, <2>2
<1>7. CASE /\ m.prev # 0
           /\ Send(msgs \ {m}, {result(i, m.from, currentTerm[i], m.prev, Len(log[i]))})
           /\ UNCHANGED <<electionVars, logVars, progress, diskVars>>
  <2>1. \A x \in msgs' : x \in msgs \/ GoodMessage(x, h, b)
    BY <1>3, <1>6, <1>7
  <2> QED BY <1>5, <1>7, <2>1, QuietSafe DEF electionVars
<1>8. CASE /\ convertToFollower(i, m.term, m.from) /\ ~Matches(i, m)
           /\ Send(msgs \ {m}, {result(i, m.from, m.term, m.prev, Reached(i))})
           /\ UNCHANGED <<logVars, writes>> /\ UNCHANGED disk
  <2>1. m.prev # 0
    <3>1. CASE m.prev = 0
      <4>1. m.prevTerm = 0
        BY <1>2, <3>1 DEF FromLeader, TermAt
      <4>2. TermAt(log[i], m.prev) = 0
        BY <3>1 DEF TermAt
      <4> QED BY <1>8, <4>1, <4>2 DEF Matches
    <3> QED BY <3>1
  <2>3. \A x \in msgs' : x \in msgs \/ GoodMessage(x, h, b)
    BY <1>2, <1>6, <1>8, <2>1
  <2>4. UNCHANGED <<logVars, diskVars>>
    BY <1>8 DEF diskVars
  <2>5. /\ \A k \in Server : state'[k] = "leader" =>
             /\ state[k] = "leader" /\ currentTerm'[k] = currentTerm[k]
             /\ \A j \in Server : progress'[k][j].match <= progress[k][j].match
        /\ \A k \in Server : votes'[k] = {}
             \/ (votes'[k] \subseteq votes[k] /\ currentTerm'[k] = currentTerm[k])
    BY <1>2, <1>8, FollowerFacts
  <2> QED BY <2>3, <2>4, <2>5, QuietSafe
<1> QED BY <1>7, <1>8

\* A message of which the server has all entries: its log is then the beginning of
\* that of the leader, beyond the end of the message, too.
LEMMA HasAll ==
  ASSUME NEW h, NEW a, NEW b, Step(h, a, h, b), NEW m \in msgs, m.type = "AppendEntries",
         m.term >= currentTerm[m.to], Matches(m.to, m), NewEntries(m.to, m) = << >>
  PROVE  /\ m.term = currentTerm[m.to] /\ LastTerm(log[m.to]) = m.term
         /\ SameUpTo(log[m.to], h[m.term], Len(log[m.to])) /\ h[m.term] # << >>
<1> DEFINE i == m.to
           x == h[m.term]
           len == Len(m.entries)
           end == m.prev + len
           n == Matching(log[i], m.prev + 1, m.entries)
<1>1. /\ i \in Server /\ m.prev \in Nat /\ m.term \in Entry /\ m.term \in Nat
      /\ FromLeader(m, h) /\ m.entries \in Log /\ len \in Nat
  BY MessageFacts
<1>2. /\ log[i] \in Log /\ Len(log[i]) \in Nat /\ Matched(log[i], h) /\ currentTerm[i] \in Nat
      /\ Below(log[i], currentTerm[i]) /\ h \in [Entry -> Log]
      /\ \A t \in Entry : Below(h[t], t)
  BY <1>1, StepServer, StepTerms, StepSets DEF TermsOf, Ordered
<1>3. /\ end >= 1 /\ end <= Len(x) /\ \A k \in 1..len : m.entries[k] = x[m.prev + k]
      /\ x[end] = m.term /\ m.prevTerm = TermAt(x, m.prev)
  BY <1>1 DEF FromLeader, PartOf
<1>4. x \in Log /\ Len(x) \in Nat /\ h[m.term] # << >>
  <2>1. x \in Log /\ Len(x) \in Nat
    BY <1>1, StepTerm
  <2> QED BY <1>1, <1>3, <2>1
<1>5. n \in 0..len /\ \A k \in 1..n : TermAt(log[i], m.prev + 1 + k - 1) = m.entries[k]
  <2>1. m.entries \in Seq(Entry) /\ m.prev + 1 \in Nat \ {0}
    BY <1>1 DEF Log
  <2>2. LET k == Matching(log[i], m.prev + 1, m.entries)
        IN  /\ k \in 0..Len(m.entries)
            /\ \A y \in 1..k : TermAt(log[i], m.prev + 1 + y - 1) = m.entries[y]
            /\ k < Len(m.entries) => TermAt(log[i], m.prev + 1 + k) # m.entries[k + 1]
    BY <2>1, MatchingFacts
  <2> QED BY <2>2
<1> HIDE DEF n
<1>6. n = len
  <2>1. FirstNew(i, m) - m.prev = n + 1
    BY <1>1, <1>5 DEF FirstNew, n
  <2>2. SubSeq(m.entries, n + 1, len) = << >>
    BY <2>1 DEF NewEntries
  <2>3. m.entries \in Seq(Entry) /\ n + 1 \in Nat \ {0} /\ len \in Int /\ len <= len
    BY <1>1, <1>5 DEF Log
  <2>4. Len(SubSeq(m.entries, n + 1, len)) = IF n + 1 <= len THEN len - (n + 1) + 1 ELSE 0
    BY <2>3, SubSeqFacts
  <2>5. Len(SubSeq(m.entries, n + 1, len)) = 0
    <3>1. Len(<< >>) = 0
      OBVIOUS
    <3> HIDE DEF len
    <3> QED BY <2>2, <3>1
  <2> QED BY <1>1, <1>5, <2>4, <2>5
<1>7. TermAt(log[i], end) = m.term
  <2>1. CASE len = 0
    <3>1. end = m.prev
      BY <1>1, <2>1
    <3>2. m.prevTerm = m.term
      BY <1>1, <1>3, <3>1 DEF TermAt
    <3> QED BY <3>1, <3>2 DEF Matches
  <2>2. CASE len # 0
    <3>1. len \in 1..n /\ m.prev + 1 + len - 1 = end /\ len \in 1..len
      BY <1>1, <1>6, <2>2
    <3> QED BY <1>3, <1>5, <3>1
  <2> QED BY <2>1, <2>2
<1>8. end \in 1..Len(log[i]) /\ log[i][end] = m.term
  <2>1. m.term >= 1
    BY <1>1, EntryFacts
  <2> QED BY <1>7, <2>1 DEF TermAt
<1>9. m.term = currentTerm[i]
  BY <1>1, <1>2, <1>8 DEF Below
<1>10. LastTerm(log[i]) = m.term
  <2> DEFINE e == Len(log[i])
  <2>1. e \in 1..Len(log[i]) /\ end \in 1..e
    BY <1>2, <1>8
  <2>2. log[i][end] <= log[i][e]
    BY <1>2, <2>1, Sorted
  <2>3. log[i][e] <= currentTerm[i] /\ log[i][e] \in Nat
    <3>1. log[i][e] \in Entry
      BY <1>2, <2>1, LogLen
    <3> QED BY <1>2, <2>1, <3>1, EntryFacts DEF Below
  <2>4. log[i][e] = m.term
    BY <1>1, <1>8, <1>9, <2>2, <2>3
  <2> QED BY <2>1, <2>4 DEF LastTerm, TermAt
<1>11. SameUpTo(log[i], h[m.term], Len(log[i]))
  BY <1>1, <1>2, <1>10, EndsInTerm
<1> QED BY <1>4, <1>9, <1>10, <1>11

\* A heartbeat, or a message that brings nothing new.
LEMMA HeartbeatSafe ==
  ASSUME NEW h, NEW a, NEW b, Step(h, a, h, b), NEW m \in msgs, m.type = "AppendEntries",
         NEW i, i = m.to, m.term >= currentTerm[i], Matches(i, m), NewEntries(i, m) = << >>,
         convertToFollower(i, m.term, m.from),
         ApplyUpTo(i, log[i], FollowerCommit(i, m.commit, lastStored[i])),
         Send(msgs \ {m}, {result(i, m.from, m.term, 0, Reached(i))}),
         UNCHANGED disk, UNCHANGED <<log, lastStored, writes>>
  PROVE  SafetyParts(h, b)'
<1> DEFINE s == lastStored[i]
           c == FollowerCommit(i, m.commit, s)
           r == result(i, m.from, m.term, 0, Reached(i))
<1>2. /\ i \in Server /\ m.term \in Entry /\ m.term \in Nat /\ m.commit \in Nat
      /\ CommittedBy(h, a, m.commit, m.term)
  BY MessageFacts
<1>3. currentTerm[i] \in Nat /\ s \in 1..Len(log[i]) /\ s \in Nat /\ log[i] \in Log
      /\ Len(log[i]) \in Nat /\ h[m.term] \in Log
  BY <1>2, StepTerms, StepServer, StepTerm
<1>4. /\ convertToFollower(i, m.term, m.from) /\ disk' = disk
      /\ ApplyUpTo(i, log[i], c) /\ Send(msgs \ {m}, {r})
      /\ log' = log /\ lastStored' = lastStored /\ writes' = writes
  OBVIOUS
<1>5. /\ m.term = currentTerm[i] /\ LastTerm(log[i]) = m.term
      /\ SameUpTo(log[i], h[m.term], Len(log[i])) /\ h[m.term] # << >>
  BY HasAll
<1>6. /\ currentTerm'[i] = m.term
      /\ \A k \in Server : state'[k] = "leader" =>
           state[k] = "leader" /\ currentTerm'[k] = currentTerm[k]
      /\ \A k \in Server : votes'[k] = {}
           \/ (votes'[k] \subseteq votes[k] /\ currentTerm'[k] = currentTerm[k])
      /\ \A k \in Server : CountsOf(k, b)
  BY <1>2, <1>4, FollowerFacts
<1>7. Justified(i, c, h, b)
  <2>1. SameUpTo(log[i], h[m.term], s)
    BY <1>3, <1>5, SameLess
  <2>2. log'[i] = log[i] /\ m.term <= currentTerm'[i]
    BY <1>2, <1>4, <1>6
  <2> QED BY <1>2, <1>3, <1>5, <2>1, <2>2, FollowerCommits DEF Justified
<1>8. GoodMessage(r, h, b)
  <2>1. lastStored'[i] <= b[i][m.term]
    BY <1>2, <1>4, <1>5, <1>6, StepConfirms
  <2>2. s <= b[i][m.term]
    BY <1>4, <2>1
  <2>3. /\ r.type = "AppendEntriesResult" /\ r.term = m.term /\ r.from = i /\ r.last = s
    BY DEF result, Reached
  <2> HIDE DEF r
  <2> QED BY <1>2, <2>2, <2>3 DEF GoodMessage
<1>9. \A x \in msgs' : x \in msgs \/ GoodMessage(x, h, b)
  <2>1. msgs' \subseteq (msgs \ {m}) \cup {r}
    BY <1>4, SendSubset
  <2> HIDE DEF r
  <2> QED BY <1>8, <2>1
<1>10. UNCHANGED <<log, lastStored, diskVars>>
  BY <1>4 DEF diskVars
<1> HIDE DEF c
<1> QED BY <1>2, <1>4, <1>6, <1>7, <1>9, <1>10, ApplySafe

\* What a follower has after a message with new entries: the log of the leader up
\* to the end of the message.  It gives up only what the leader does not have.
LEMMA NewLogFacts ==
  ASSUME NEW h, NEW a, NEW b, Step(h, a, h, b), NEW m \in msgs, m.type = "AppendEntries",
         NEW i, i = m.to, m.term >= currentTerm[i],
         Matches(i, m), ~Conflicts(i, m), NewEntries(i, m) # << >>,
         log'[i] = Kept(i, m) \o NewEntries(i, m)
  PROVE  LET new == NewEntries(i, m)
             first == FirstNew(i, m)
         IN  /\ LastTerm(log'[i]) = m.term /\ h[m.term] # << >>
             /\ SameUpTo(log'[i], h[m.term], Len(log'[i]))
             /\ PartOf(new, first - 1, h[m.term]) /\ Below(new, m.term)
             /\ first \in Nat /\ first - 1 <= Len(log'[i])
             /\ \A n \in Nat : SameUpTo(log[i], h[m.term], n) => n <= first - 1
<1> DEFINE x == h[m.term]
           len == Len(m.entries)
           end == m.prev + len
           new == NewEntries(i, m)
           first == FirstNew(i, m)
           n == Matching(log[i], m.prev + 1, m.entries)
<1>1. /\ i \in Server /\ m.prev \in Nat /\ m.term \in Entry /\ m.term \in Nat
      /\ FromLeader(m, h) /\ m.entries \in Log /\ len \in Nat /\ m \in AppendEntries
  BY MessageFacts
<1>2. /\ log[i] \in Log /\ Len(log[i]) \in Nat /\ Matched(log'[i], h)
      /\ log'[i] \in Log /\ h \in [Entry -> Log]
  BY <1>1, StepServer, StepSets
<1>3. /\ end >= 1 /\ end <= Len(x) /\ \A k \in 1..len : m.entries[k] = x[m.prev + k]
      /\ x[end] = m.term
  BY <1>1 DEF FromLeader, PartOf
<1>4. x \in Log /\ Len(x) \in Nat /\ h[m.term] # << >> /\ Below(x, m.term)
  <2>1. x \in Log /\ Len(x) \in Nat /\ Below(x, m.term)
    BY <1>1, StepTerm
  <2> QED BY <1>1, <1>3, <2>1
<1>5. /\ n \in 0..len - 1 /\ first = m.prev + n + 1
      /\ first <= Len(log[i]) + 1
      /\ new \in Log /\ Len(new) = len - n
      /\ \A k \in 1..Len(new) : new[k] = m.entries[n + k]
      /\ first <= Len(log[i]) => log[i][first] # new[1]
      /\ Kept(i, m) \in Log /\ Len(Kept(i, m)) = first - 1
  <2>1. TypeInv
    BY DEF Step
  <2> QED BY <1>1, <2>1, NewEntriesFacts
<1> HIDE DEF n, new, first, len, x
<1>6. /\ n \in Nat /\ n < len /\ first \in Nat /\ first >= 1 /\ Len(new) \in Nat /\ Len(new) >= 1
      /\ first - 1 + Len(new) = end
  <2>1. /\ len \in Nat /\ m.prev \in Nat /\ n \in 0..len - 1 /\ first = m.prev + n + 1
        /\ Len(new) = len - n
    BY <1>1, <1>5
  <2>2. PICK p, y : p = m.prev /\ y = Len(new)
    OBVIOUS
  <2>3. len \in Nat /\ p \in Nat /\ n \in 0..len - 1 /\ first = p + n + 1 /\ y = len - n
    BY <2>1, <2>2
  <2>4. /\ n \in Nat /\ n < len /\ first \in Nat /\ first >= 1 /\ y \in Nat /\ y >= 1
        /\ first - 1 + y = p + len
    BY <2>3
  <2> QED BY <2>2, <2>4
<1> HIDE DEF end
<1>7. \A k \in 1..Len(new) : new[k] = x[first - 1 + k]
  <2> SUFFICES ASSUME NEW k \in 1..Len(new) PROVE new[k] = x[first - 1 + k]
    OBVIOUS
  <2>1. n + k \in 1..len /\ m.prev + (n + k) = first - 1 + k
    <3>1. /\ len \in Nat /\ m.prev \in Nat /\ n \in Nat /\ first = m.prev + n + 1
          /\ Len(new) = len - n
      BY <1>1, <1>5, <1>6
    <3> QED BY <3>1
  <2> QED BY <1>3, <1>5, <2>1
<1>8. PartOf(new, first - 1, x)
  BY <1>3, <1>6, <1>7 DEF PartOf
<1>9. Below(new, m.term)
  <2> SUFFICES ASSUME NEW k \in 1..Len(new) PROVE new[k] <= m.term
    BY DEF Below
  <2>1. first - 1 + k \in 1..Len(x)
    BY <1>3, <1>4, <1>6
  <2> QED BY <1>4, <1>7, <2>1 DEF Below
<1>10. Len(log'[i]) = end /\ log'[i][end] = m.term
  <2>1. Kept(i, m) \in Seq(Entry) /\ new \in Seq(Entry) /\ log'[i] = Kept(i, m) \o new
    BY <1>5 DEF Log, new
  <2>2. /\ Len(log'[i]) = Len(Kept(i, m)) + Len(new)
        /\ \A k \in 1..Len(new) : log'[i][Len(Kept(i, m)) + k] = new[k]
    BY <2>1, ConcatFacts
  <2>3. Len(new) \in 1..Len(new) /\ first - 1 + Len(new) = end /\ Len(Kept(i, m)) = first - 1
    BY <1>5, <1>6
  <2>4. new[Len(new)] = x[end]
    BY <1>7, <2>3
  <2>5. log'[i][Len(Kept(i, m)) + Len(new)] = new[Len(new)]
    BY <2>2, <2>3
  <2> QED BY <1>3, <2>2, <2>3, <2>4, <2>5
<1>11. LastTerm(log'[i]) = m.term
  BY <1>1, <1>3, <1>10 DEF LastTerm, TermAt
<1>12. SameUpTo(log'[i], x, Len(log'[i]))
  BY <1>1, <1>2, <1>11, EndsInTerm DEF x
<1>13. ASSUME NEW k \in Nat, SameUpTo(log[i], x, k) PROVE k <= first - 1
  <2>1. CASE k >= first
    <3>1. first \in 1..k /\ first <= Len(log[i])
      BY <1>2, <1>6, <1>13, <2>1 DEF SameUpTo
    <3>2. log[i][first] = x[first]
      BY <1>13, <3>1 DEF SameUpTo
    <3>3. new[1] = x[first]
      <4>1. 1 \in 1..Len(new) /\ first - 1 + 1 = first
        BY <1>6
      <4> QED BY <1>7, <4>1
    <3> QED BY <1>5, <3>1, <3>2, <3>3
  <2> QED BY <1>6, <2>1
<1>14. first - 1 <= Len(log'[i])
  BY <1>6, <1>10
<1> QED BY <1>4, <1>6, <1>8, <1>9, <1>11, <1>12, <1>13, <1>14 DEF new, first, x

\* What the follower has confirmed and may still be committed it keeps: the new
\* leader has it.
LEMMA FollowerKeeps ==
  ASSUME NEW h, NEW a, NEW b, Step(h, a, h, b), NEW m \in msgs, m.type = "AppendEntries",
         NEW i, i = m.to, m.term >= currentTerm[i], currentTerm'[i] = m.term,
         Matches(i, m), ~Conflicts(i, m), NewEntries(i, m) # << >>,
         log'[i] = Kept(i, m) \o NewEntries(i, m), lastStored'[i] = StoredThen(i, m)
  PROVE  Keeps(h, a, i)
<1> DEFINE x == h[m.term]
           first == FirstNew(i, m)
<1>1. i \in Server /\ m.term \in Entry /\ m.term \in Nat
  BY MessageFacts
<1>2. /\ x # << >> /\ SameUpTo(log'[i], x, Len(log'[i]))
      /\ first \in Nat /\ first - 1 <= Len(log'[i])
      /\ \A n \in Nat : SameUpTo(log[i], x, n) => n <= first - 1
  BY NewLogFacts
<1> HIDE DEF first
<1>3. /\ log[i] \in Log /\ log'[i] \in Log /\ Len(log'[i]) \in Nat /\ lastStored[i] \in Nat
      /\ x \in Log
  BY <1>1, StepServer, StepTerm
<1>4. lastStored'[i] = IF InConflict(i, m) THEN Min({lastStored[i], first - 1}) ELSE lastStored[i]
  BY DEF StoredThen, first
<1> SUFFICES ASSUME NEW t \in Entry, NEW n \in Nat, Holds(h, i, t, n), n <= a[i][t],
                    \/ t = currentTerm[i] /\ t = currentTerm'[i]
                    \/ t <= currentTerm[i] /\ n >= 1 /\ h[t][n] = t /\ ~Abandoned(a, t, n)
             PROVE  n <= lastStored'[i] /\ SameUpTo(log'[i], h[t], n)
  BY DEF Keeps
<1>5. h[t] \in Log /\ t \in Nat /\ a[i][t] \in Nat /\ a[i][t] <= Len(h[t]) /\ currentTerm[i] \in Nat
      /\ Len(h[t]) \in Nat
  BY <1>1, StepTerm, StepConfirms, StepTerms
<1>6. SameUpTo(x, h[t], n)
  <2>1. CASE t = m.term
    BY <1>5, <2>1 DEF SameUpTo
  <2>2. CASE t # m.term
    <3>1. t < m.term /\ n \in 1..Len(h[t]) /\ h[t][n] = t /\ ~Abandoned(a, t, n)
      BY <1>1, <1>5, <2>2
    <3>2. Complete(h, a)
      BY DEF Step, SafetyParts
    <3> QED BY <1>1, <1>2, <3>1, <3>2 DEF Complete
  <2> QED BY <2>1, <2>2
<1>7. n <= lastStored[i] /\ SameUpTo(log[i], h[t], n)
  BY DEF Holds
<1>8. SameUpTo(log[i], x, n)
  <2>1. SameUpTo(h[t], x, n)
    BY <1>3, <1>5, <1>6, SameLess
  <2> QED BY <1>7, <2>1, SameTrans
<1>9. n <= first - 1
  BY <1>2, <1>8
<1>10. n <= lastStored'[i]
  <2>1. Min({lastStored[i], first - 1}) =
          IF lastStored[i] <= first - 1 THEN lastStored[i] ELSE first - 1
    <3>1. lastStored[i] \in Int /\ first - 1 \in Int
      BY <1>2, <1>3
    <3> QED BY <3>1, MinOfTwo
  <2> QED BY <1>4, <1>7, <1>9, <2>1
<1>11. SameUpTo(log'[i], x, n)
  <2>1. n <= Len(log'[i])
    BY <1>2, <1>3, <1>9
  <2> QED BY <1>2, <1>3, <2>1, SameLess
<1>12. SameUpTo(log'[i], h[t], n)
  BY <1>6, <1>11, SameTrans
<1> QED BY <1>10, <1>12

\* A server in a later term: the entries that were known to be committed still are.
LEMMA CommittedByLater ==
  ASSUME NEW h, NEW a, NEW c, NEW u \in Int, NEW v \in Int, u <= v, CommittedBy(h, a, c, u)
  PROVE  CommittedBy(h, a, c, v)
<1>1. \A t \in Entry : t <= u => t <= v
  <2> SUFFICES ASSUME NEW t \in Entry, t <= u PROVE t <= v
    OBVIOUS
  <2>1. t \in Int
    BY EntryFacts
  <2> QED BY <2>1
<1> QED BY <1>1 DEF CommittedBy

LEMMA TermsNext ==
  ASSUME NEW i, log'[i][1] = 1, Below(log'[i], currentTerm'[i]), Below(disk'[i], currentTerm'[i]),
         \A k \in 1..Len(writes'[i]) :
           writes'[i][k].op # "truncate" => Below(writes'[i][k].entries, currentTerm'[i]),
         state'[i] # "leader" \/ LastTerm(log'[i]) = currentTerm'[i]
  PROVE  TermsOf(i)'
  BY DEF TermsOf, Below, LastTerm, TermAt

\* The operations of a queue to which a truncation, if any, and a write are added.
LEMMA QueueElements ==
  ASSUME NEW ws \in Seq(Write), NEW cut \in Seq(Write), NEW w \in Write,
         NEW q, q = ws \o cut \o <<w>>, NEW k \in 1..Len(q)
  PROVE  \/ \E n \in 1..Len(ws) : q[k] = ws[n]
         \/ \E n \in 1..Len(cut) : q[k] = cut[n]
         \/ q[k] = w
<1> DEFINE both == ws \o cut
<1>1. /\ both \in Seq(Write) /\ Len(both) = Len(ws) + Len(cut)
      /\ Len(ws) \in Nat /\ Len(cut) \in Nat
      /\ \A n \in 1..Len(ws) : both[n] = ws[n]
      /\ \A n \in 1..Len(cut) : both[Len(ws) + n] = cut[n]
  BY ConcatFacts
<1> HIDE DEF both
<1>2. /\ Len(q) = Len(both) + 1 /\ q[Len(both) + 1] = w
      /\ \A n \in 1..Len(both) : q[n] = both[n]
  <2>1. q = both \o <<w>>
    BY DEF both
  <2> QED BY <1>1, <2>1, SMTT(60)
<1>3. CASE k = Len(both) + 1
  BY <1>2, <1>3
<1>4. CASE k \in 1..Len(ws)
  <2>1. k \in 1..Len(both)
    BY <1>1, <1>4
  <2> QED BY <1>1, <1>2, <1>4, <2>1
<1>5. CASE k \in Len(ws) + 1..Len(both)
  <2>1. k \in 1..Len(both) /\ k - Len(ws) \in 1..Len(cut) /\ Len(ws) + (k - Len(ws)) = k
    BY <1>1, <1>5
  <2>2. q[k] = cut[k - Len(ws)]
    BY <1>1, <1>2, <2>1
  <2> QED BY <2>1, <2>2
<1>6. k = Len(both) + 1 \/ k \in 1..Len(ws) \/ k \in Len(ws) + 1..Len(both)
  <2>1. /\ k \in 1..Len(both) + 1 /\ Len(both) = Len(ws) + Len(cut)
        /\ Len(ws) \in Nat /\ Len(cut) \in Nat
    BY <1>1, <1>2
  <2> DEFINE p == Len(both)
             s == Len(ws)
  <2>2. p \in Nat /\ s \in Nat /\ s <= p /\ k \in 1..p + 1
    BY <2>1
  <2> HIDE DEF p, s
  <2>3. k = p + 1 \/ k \in 1..s \/ k \in s + 1..p
    BY <2>2
  <2> QED BY <2>3 DEF p, s
<1> QED BY <1>3, <1>4, <1>5, <1>6

\* A follower in term T whose log becomes the beginning of that of the leader, with
\* the write w for what is new in it.
LEMMA NewEntriesSafe ==
  ASSUME NEW h, NEW a, NEW b, Step(h, a, h, b), NEW i \in Server, NEW T \in Entry,
         currentTerm'[i] = T, LastTerm(log'[i]) = T, h[T] # << >>,
         SameUpTo(log'[i], h[T], Len(log'[i])), Keeps(h, a, i),
         NEW w, Below(w.entries, T), WriteFromLeader(w, h, T, T),
         CommittedBy(h, a, w.commit, T), w.term = T,
         \A k \in 1..Len(writes'[i]) :
           \/ \E n \in 1..Len(writes[i]) : writes'[i][k] = writes[i][n]
           \/ writes'[i][k].op = "truncate"
           \/ writes'[i][k] = w,
         \A k \in Server \ {i} : /\ log'[k] = log[k] /\ lastStored'[k] = lastStored[k]
                                  /\ writes'[k] = writes[k],
         disk' = disk, commitIndex' = commitIndex, applied' = applied, chosen' = chosen,
         msgs' \subseteq msgs,
         votes'[i] = {}, state'[i] = "follower",
         \A k \in Server \ {i} : /\ state'[k] = state[k] /\ currentTerm'[k] = currentTerm[k]
                                  /\ votes'[k] = votes[k],
         \A k \in Server : CountsOf(k, b)
  PROVE  SafetyParts(h, b)'
<1> DEFINE x == h[T]
<1>1. /\ T \in Nat /\ TermsOf(i) /\ WritesOf(i, h) /\ currentTerm[i] \in Nat
      /\ commitIndex[i] \in Nat /\ currentTerm[i] <= T
      /\ log'[i] \in Log /\ Len(log'[i]) \in Nat /\ lastStored'[i] \in 1..Len(log'[i])
      /\ disk[i] \in Log /\ writes[i] \in Seq(Write) /\ Len(writes[i]) \in Nat
      /\ h \in [Entry -> Log] /\ Ordered(h) /\ x \in Log
      /\ Below(x, T)
  BY StepTerms, StepServer, StepSets, StepTerm
<1>2. TermsOf(i)'
  <2>1. log'[i][1] = 1
    <3>1. x[1] = 1
      BY <1>1 DEF Ordered
    <3>2. 1 \in 1..Len(log'[i])
      BY <1>1
    <3> QED BY <3>1, <3>2 DEF SameUpTo
  <2>2. Below(log'[i], T)
    <3> SUFFICES ASSUME NEW k \in 1..Len(log'[i]) PROVE log'[i][k] <= T
      BY DEF Below
    <3>1. log'[i][k] = x[k] /\ k \in 1..Len(x)
      BY <1>1 DEF SameUpTo
    <3> QED BY <1>1, <3>1 DEF Below
  <2>4. Below(disk'[i], T)
    BY <1>1, BelowLater DEF TermsOf
  <2>5. ASSUME NEW k \in 1..Len(writes'[i]), writes'[i][k].op # "truncate"
        PROVE  Below(writes'[i][k].entries, T)
    <3>1. ASSUME NEW n \in 1..Len(writes[i]), writes'[i][k] = writes[i][n]
          PROVE  Below(writes'[i][k].entries, T)
      <4>1. Below(writes[i][n].entries, currentTerm[i])
        BY <1>1, <2>5, <3>1 DEF TermsOf
      <4>2. writes[i][n] \in Write
        BY <1>1
      <4>3. writes[i][n].entries \in Log
        BY <2>5, <3>1, <4>2, WriteFacts
      <4> QED BY <1>1, <3>1, <4>1, <4>3, BelowLater
    <3>2. CASE writes'[i][k] = w
      BY <3>2
    <3> QED BY <2>5, <3>1, <3>2
  <2>6. \A k \in 1..Len(writes'[i]) :
          writes'[i][k].op # "truncate" => Below(writes'[i][k].entries, T)
    BY <2>5
  <2> QED BY <2>1, <2>2, <2>4, <2>6, TermsNext
<1>3. WritesOf(i, h)'
  <2>1. \A k \in 1..Len(writes'[i]) :
          writes'[i][k].op = "follower" =>
            \/ \E n \in 1..Len(writes[i]) : writes'[i][k] = writes[i][n]
            \/ WriteFromLeader(writes'[i][k], h, currentTerm'[i], LastTerm(log'[i]))
    OBVIOUS
  <2>2. log'[i] = log[i] \/ LastTerm(log'[i]) = currentTerm'[i]
    OBVIOUS
  <2> QED BY <2>1, <2>2, WritesStay
<1>4. CommittedBy(h, a, commitIndex[i], T)
  <2>1. CommittedBy(h, a, commitIndex[i], currentTerm[i])
    BY DEF Step, SafetyParts, Committing
  <2>2. currentTerm[i] \in Int /\ T \in Int /\ currentTerm[i] <= T
    BY <1>1
  <2> QED BY <2>1, <2>2, CommittedByLater
<1>5. CommitsOf(i, h, b)
  <2>1. T \in Int /\ T <= T
    BY <1>1
  <2>2. CommittedBy(h, b, commitIndex[i], T)
    BY <1>4, <2>1, CommittedByStep
  <2>3. ASSUME NEW c \in 1..Len(log'[i]), c <= commitIndex[i]
        PROVE  CommittedLog(h, b, log'[i], c, T)
    <3>1. c \in Nat /\ c <= Len(log'[i]) /\ h[T] = x
      BY <1>1
    <3>2. SameUpTo(log'[i], x, c) /\ SameUpTo(log'[i], log'[i], c)
      <4>1. SameUpTo(log'[i], x, c)
        BY <1>1, <3>1, SameLess
      <4> QED BY <3>1, <4>1 DEF SameUpTo
    <3>3. TypeInv /\ Past(h) /\ Confirming(h, a) /\ Complete(h, a)
      BY DEF Step, SafetyParts
    <3>4. CommittedLog(h, a, log'[i], c, T)
      BY <1>1, <1>4, <2>3, <3>1, <3>2, <3>3, CommittedPrefix
    <3> QED BY <2>1, <3>1, <3>2, <3>4, CommittedLogStep
  <2> QED BY <2>2, <2>3 DEF CommitsOf
<1>6. ASSUME NEW k \in Server, k # i
      PROVE  TermsOf(k)' /\ WritesOf(k, h)' /\ Stays(k) /\ CommitsOf(k, h, b)
  BY <1>6, StorageStays, SameLogCommits
<1>7. Covered(h, b)'
  <2>1. \A k \in Server :
          \/ votes'[k] = {}
          \/ votes'[k] \subseteq votes[k] /\ currentTerm'[k] = currentTerm[k] /\ Stays(k)
    BY <1>6
  <2> QED BY <1>1, <2>1, CoveredStays
<1>8. Complete(h, b)'
  BY CompleteQuiet
<1>9. Applying(h, b)'
  BY StepApplying
<1>10. \A k \in Server : \A n \in 1..Len(writes'[k]) :
         writes'[k][n].op = "follower" =>
           \/ \E j \in 1..Len(writes[k]) : writes'[k][n] = writes[k][j]
           \/ CommittedBy(h, b, writes'[k][n].commit, writes'[k][n].term)
  <2>1. CommittedBy(h, b, w.commit, w.term)
    <3>1. T \in Int /\ T <= T
      BY <1>1
    <3> QED BY <3>1, CommittedByStep
  <2> SUFFICES ASSUME NEW k \in Server, NEW n \in 1..Len(writes'[k]),
                      writes'[k][n].op = "follower"
               PROVE  \/ \E j \in 1..Len(writes[k]) : writes'[k][n] = writes[k][j]
                      \/ CommittedBy(h, b, writes'[k][n].commit, writes'[k][n].term)
    OBVIOUS
  <2>2. CASE k = i
    BY <2>1, <2>2
  <2>3. CASE k # i
    BY <2>3
  <2> QED BY <2>2, <2>3
<1>11. \A k \in Server : TermsOf(k)' /\ WritesOf(k, h)' /\ (Stays(k) \/ Keeps(h, a, k))
                         /\ CountsOf(k, b) /\ CommitsOf(k, h, b)
  BY <1>2, <1>3, <1>5, <1>6
<1>12. \A n \in msgs' : n \in msgs \/ GoodMessage(n, h, b)
  OBVIOUS
<1> QED BY <1>1, <1>7, <1>8, <1>9, <1>10, <1>11, <1>12, SafeStep

\* The queue q has the operations of ws, truncations, and w.
Queued(q, ws, w) ==
  \A k \in 1..Len(q) :
    \/ \E n \in 1..Len(ws) : q[k] = ws[n]
    \/ q[k].op = "truncate"
    \/ q[k] = w

LEMMA FollowerQueue ==
  ASSUME NEW ws \in Seq(Write), NEW cut \in Seq(Write), NEW w \in Write,
         \A k \in 1..Len(cut) : cut[k].op = "truncate",
         NEW q, q = ws \o cut \o <<w>>
  PROVE  Queued(q, ws, w)
<1> SUFFICES ASSUME NEW k \in 1..Len(q)
             PROVE  \/ \E n \in 1..Len(ws) : q[k] = ws[n]
                    \/ q[k].op = "truncate"
                    \/ q[k] = w
  BY DEF Queued
<1>1. \/ \E n \in 1..Len(ws) : q[k] = ws[n]
      \/ \E n \in 1..Len(cut) : q[k] = cut[n]
      \/ q[k] = w
  BY QueueElements
<1> QED BY <1>1

LEMMA FollowerAppendSafe ==
  ASSUME NEW h, NEW a, NEW b, Step(h, a, h, b), NEW m \in msgs, m.type = "AppendEntries",
         NEW i, i = m.to, m.term >= currentTerm[i],
         Matches(i, m), ~Conflicts(i, m), NewEntries(i, m) # << >>,
         convertToFollower(i, m.term, m.from),
         log' = [log EXCEPT ![i] = Kept(i, m) \o NewEntries(i, m)],
         lastStored' = [lastStored EXCEPT ![i] = StoredThen(i, m)],
         writes' = [writes EXCEPT ![i] = @ \o Truncation(i, m) \o <<WriteOf(i, m)>>],
         msgs' = msgs \ {m},
         UNCHANGED disk, UNCHANGED <<commitIndex, applied, chosen>>
  PROVE  SafetyParts(h, b)'
<1> DEFINE T == m.term
           cut == Truncation(i, m)
           w == WriteOf(i, m)
<1>1. /\ i \in Server /\ T \in Entry /\ T \in Nat
      /\ CommittedBy(h, a, m.commit, T) /\ m \in AppendEntries
  BY MessageFacts
<1>2. /\ log \in [Server -> Log] /\ lastStored \in [Server -> Nat]
      /\ writes \in [Server -> Seq(Write)] /\ TypeInv /\ conf' = conf
  BY DEF Step, TypeInv, TypeOK, QueuesOK
<1>3. log'[i] = Kept(i, m) \o NewEntries(i, m) /\ lastStored'[i] = StoredThen(i, m)
  BY <1>1, <1>2
<1>4. writes'[i] = writes[i] \o cut \o <<w>> /\ writes[i] \in Seq(Write)
  BY <1>1, <1>2
<1>5. \A k \in Server \ {i} : /\ log'[k] = log[k] /\ lastStored'[k] = lastStored[k]
                               /\ writes'[k] = writes[k]
  BY <1>2
<1>6. /\ votes'[i] = {} /\ state'[i] = "follower" /\ currentTerm'[i] = T
      /\ \A k \in Server \ {i} : /\ state'[k] = state[k] /\ currentTerm'[k] = currentTerm[k]
                                 /\ votes'[k] = votes[k]
      /\ \A k \in Server : CountsOf(k, b)
  BY <1>1, FollowerFacts
<1>7. /\ LastTerm(log'[i]) = T /\ h[T] # << >> /\ SameUpTo(log'[i], h[T], Len(log'[i]))
      /\ PartOf(NewEntries(i, m), FirstNew(i, m) - 1, h[T]) /\ Below(NewEntries(i, m), T)
  BY <1>3, NewLogFacts
<1>8. Keeps(h, a, i)
  BY <1>3, <1>6, FollowerKeeps
<1>9. cut \in Seq(Write) /\ w \in Write
  BY <1>1, <1>2, AppendFollowerFacts
<1>10. \A k \in 1..Len(cut) : cut[k].op = "truncate"
  BY DEF Truncation
<1>11. /\ w.entries = NewEntries(i, m) /\ w.index = FirstNew(i, m) /\ w.term = T
       /\ w.commit = m.commit
  BY DEF WriteOf
<1> HIDE DEF w, cut, T
<1>12. WriteFromLeader(w, h, T, T)
  BY <1>1, <1>7, <1>11 DEF WriteFromLeader
<1>14. \A k \in 1..Len(writes'[i]) :
         \/ \E n \in 1..Len(writes[i]) : writes'[i][k] = writes[i][n]
         \/ writes'[i][k].op = "truncate"
         \/ writes'[i][k] = w
  <2> DEFINE q == writes'[i]
             ws == writes[i]
  <2>1. /\ ws \in Seq(Write) /\ cut \in Seq(Write) /\ w \in Write
        /\ \A k \in 1..Len(cut) : cut[k].op = "truncate"
    BY <1>4, <1>9, <1>10
  <2>2. q = ws \o cut \o <<w>>
    BY <1>4
  <2> HIDE DEF q, ws
  <2>3. Queued(q, ws, w)
    BY <2>1, <2>2, FollowerQueue
  <2> QED BY <2>3 DEF q, ws, Queued
<1>15. /\ Below(w.entries, T) /\ CommittedBy(h, a, w.commit, T)
       /\ disk' = disk /\ commitIndex' = commitIndex /\ applied' = applied /\ chosen' = chosen
       /\ msgs' \subseteq msgs
  BY <1>1, <1>7, <1>11
<1> QED BY <1>1, <1>5, <1>6, <1>7, <1>8, <1>11, <1>12, <1>14, <1>15, NewEntriesSafe

\* recvAppendEntries and replicationAppend.
LEMMA recvAppendEntriesSafe ==
  ASSUME NEW h, NEW a, NEW b, Step(h, a, h, b), NEW m \in msgs, recvAppendEntries(m),
         StaleFirstLost
  PROVE  SafetyParts(h, b)'
<1> DEFINE i == m.to
<1>0. m.type = "AppendEntries"
  BY recvAppendEntriesCases
<1>1. ASSUME m.term < currentTerm[i],
             Send(msgs \ {m}, {result(i, m.from, currentTerm[i], m.prev, Len(log[i]))}),
             UNCHANGED <<electionVars, logVars, progress, diskVars>>
      PROVE  SafetyParts(h, b)'
  <2>1. m.prev # 0
    BY <1>0, <1>1 DEF StaleFirstLost
  <2> QED BY <1>0, <1>1, <2>1, RefusalSafe
<1>2. ASSUME m.term >= currentTerm[i], ~Conflicts(i, m), convertToFollower(i, m.term, m.from),
             UNCHANGED disk,
             ~Matches(i, m), Send(msgs \ {m}, {result(i, m.from, m.term, m.prev, Reached(i))}),
             UNCHANGED <<logVars, writes>>
      PROVE  SafetyParts(h, b)'
  BY <1>0, <1>2, RefusalSafe
<1>3. ASSUME m.term >= currentTerm[i], ~Conflicts(i, m), convertToFollower(i, m.term, m.from),
             UNCHANGED disk,
             Matches(i, m), NewEntries(i, m) = << >>,
             ApplyUpTo(i, log[i], FollowerCommit(i, m.commit, lastStored[i])),
             Send(msgs \ {m}, {result(i, m.from, m.term, 0, Reached(i))}),
             UNCHANGED <<log, lastStored, writes>>
      PROVE  SafetyParts(h, b)'
  BY <1>0, <1>3, HeartbeatSafe
<1>4. ASSUME m.term >= currentTerm[i], ~Conflicts(i, m), convertToFollower(i, m.term, m.from),
             UNCHANGED disk,
             Matches(i, m), NewEntries(i, m) # << >>,
             log' = [log EXCEPT ![i] = Kept(i, m) \o NewEntries(i, m)],
             lastStored' = [lastStored EXCEPT ![i] = StoredThen(i, m)],
             writes' = [writes EXCEPT ![i] = @ \o Truncation(i, m) \o <<WriteOf(i, m)>>],
             msgs' = msgs \ {m},
             UNCHANGED <<commitIndex, applied, chosen>>
      PROVE  SafetyParts(h, b)'
  BY <1>0, <1>4, FollowerAppendSafe
<1> HIDE DEF i
<1> QED BY <1>1, <1>2, <1>3, <1>4, recvAppendEntriesCases DEF i

-----------------------------------------------------------------------------
(* The disk *)

LEMMA TailFacts ==
  ASSUME NEW ws \in Seq(Write), ws # << >>
  PROVE  /\ Head(ws) = ws[1] /\ 1 \in 1..Len(ws) /\ Head(ws) \in Write
         /\ \A k \in 1..Len(Tail(ws)) : k + 1 \in 1..Len(ws) /\ Tail(ws)[k] = ws[k + 1]
OBVIOUS

\* What the completion of an operation leaves as it is.
LEMMA CompletesFacts ==
  ASSUME TypeInv, NEW i \in Server, WriteCompletes(i)
  PROVE  LET w == Head(writes[i])
         IN  /\ UNCHANGED <<electionVars, log>>
             /\ writes[i] \in Seq(Write) /\ writes[i] # << >> /\ w \in Write
             /\ writes'[i] = Tail(writes[i]) /\ disk'[i] = OnDisk(disk[i], w)
             /\ \A k \in Server \ {i} : /\ disk'[k] = disk[k] /\ writes'[k] = writes[k]
                                         /\ lastStored'[k] = lastStored[k]
<1> DEFINE w == Head(writes[i])
<1>1. /\ writes \in [Server -> Seq(Write)] /\ disk \in [Server -> Log]
      /\ lastStored \in [Server -> Nat]
  BY DEF TypeInv, TypeOK, QueuesOK
<1>2. /\ writes[i] # << >> /\ disk' = [disk EXCEPT ![i] = OnDisk(@, w)]
      /\ writes' = [writes EXCEPT ![i] = Tail(@)]
  BY DEF WriteCompletes
<1>3. TruncateCompletes(i, w) \/ appendLeaderCb(i, w) \/ appendFollowerCb(i, w)
  BY DEF WriteCompletes
<1> HIDE DEF w
<1>4. UNCHANGED <<electionVars, log>>
      /\ (lastStored' = lastStored \/ \E x : lastStored' = [lastStored EXCEPT ![i] = x])
  <2>1. CASE TruncateCompletes(i, w)
    BY <2>1 DEF TruncateCompletes, logVars
  <2>2. CASE appendLeaderCb(i, w)
    BY <2>2 DEF appendLeaderCb
  <2>3. CASE appendFollowerCb(i, w)
    BY <2>3 DEF appendFollowerCb
  <2> QED BY <1>3, <2>1, <2>2, <2>3
<1>5. writes[i] \in Seq(Write) /\ Head(writes[i]) \in Write
  BY <1>1, <1>2, TailFacts
<1> QED BY <1>1, <1>2, <1>4, <1>5 DEF w

LEMMA BelowOnDisk ==
  ASSUME NEW d \in Log, NEW w \in Write, NEW t \in Nat, Below(d, t),
         w.op # "truncate" => Below(w.entries, t)
  PROVE  Below(OnDisk(d, w), t)
<1> DEFINE r == OnDisk(d, w)
<1>1. Len(r) \in Nat /\ Len(d) \in Nat
  BY OnDiskFacts
<1>2. ASSUME w.op = "truncate"
      PROVE  Len(r) <= Len(d) /\ \A k \in 1..Len(r) : r[k] = d[k]
  <2>1. /\ w.index \in Nat \ {0}
        /\ Len(r) = IF w.index - 1 <= Len(d) THEN w.index - 1 ELSE Len(d)
        /\ \A k \in 1..Len(r) : r[k] = d[k]
    BY <1>2, OnDiskFacts, WriteFacts
  <2> QED BY <1>1, <2>1
<1>3. ASSUME w.op # "truncate"
      PROVE  /\ Len(w.entries) \in Nat /\ Len(r) = Len(d) + Len(w.entries)
             /\ \A k \in 1..Len(d) : r[k] = d[k]
             /\ \A k \in 1..Len(w.entries) : r[Len(d) + k] = w.entries[k]
  BY <1>3, OnDiskFacts
<1> HIDE DEF r
<1> SUFFICES ASSUME NEW k \in 1..Len(r) PROVE r[k] <= t
  BY DEF Below, r
<1>4. CASE k \in 1..Len(d) /\ r[k] = d[k]
  BY <1>4 DEF Below
<1>5. CASE w.op # "truncate" /\ k > Len(d)
  <2>1. k - Len(d) \in 1..Len(w.entries) /\ Len(d) + (k - Len(d)) = k
    BY <1>1, <1>3, <1>5
  <2>2. r[k] = w.entries[k - Len(d)]
    BY <1>3, <1>5, <2>1
  <2> QED BY <1>5, <2>1, <2>2 DEF Below
<1> QED BY <1>1, <1>2, <1>3, <1>4, <1>5

\* The entries on disk are of terms up to the current one.
LEMMA CompletedTerms ==
  ASSUME NEW h, NEW a, NEW b, Step(h, a, h, b), NEW i \in Server, WriteCompletes(i)
  PROVE  /\ TermsOf(i)' /\ WritesOf(i, h)'
         /\ \A k \in 1..Len(writes'[i]) :
              \E n \in 1..Len(writes[i]) : writes'[i][k] = writes[i][n]
<1> DEFINE w == Head(writes[i])
           T == currentTerm[i]
<1>1. /\ currentTerm'[i] = T /\ log'[i] = log[i] /\ state'[i] = state[i]
      /\ writes[i] \in Seq(Write) /\ writes[i] # << >> /\ w \in Write
      /\ writes'[i] = Tail(writes[i]) /\ disk'[i] = OnDisk(disk[i], w)
  BY CompletesFacts DEF Step, electionVars
<1>2. TermsOf(i) /\ WritesOf(i, h) /\ T \in Nat /\ disk[i] \in Log
  BY StepTerms, StepServer
<1>3. \A k \in 1..Len(writes'[i]) :
        \E n \in 1..Len(writes[i]) : writes'[i][k] = writes[i][n]
  <2> SUFFICES ASSUME NEW k \in 1..Len(writes'[i])
               PROVE  \E n \in 1..Len(writes[i]) : writes'[i][k] = writes[i][n]
    OBVIOUS
  <2>1. k + 1 \in 1..Len(writes[i]) /\ writes'[i][k] = writes[i][k + 1]
    BY <1>1, TailFacts
  <2> QED BY <2>1
<1>4. Below(disk'[i], T)
  <2>1. Below(disk[i], T) /\ w = writes[i][1] /\ 1 \in 1..Len(writes[i])
    BY <1>1, <1>2, TailFacts DEF TermsOf
  <2>2. w.op # "truncate" => Below(w.entries, T)
    BY <1>2, <2>1 DEF TermsOf
  <2> QED BY <1>1, <1>2, <2>1, <2>2, BelowOnDisk
<1>5. TermsOf(i)'
  <2>1. \A k \in 1..Len(writes'[i]) :
          writes'[i][k].op # "truncate" => Below(writes'[i][k].entries, T)
    BY <1>2, <1>3 DEF TermsOf
  <2>2. state'[i] # "leader" \/ LastTerm(log'[i]) = currentTerm'[i]
    BY <1>1, <1>2 DEF TermsOf
  <2>3. log'[i][1] = 1 /\ Below(log'[i], T)
    BY <1>1, <1>2 DEF TermsOf
  <2> QED BY <1>1, <1>4, <2>1, <2>2, <2>3, TermsNext
<1>6. WritesOf(i, h)'
  BY <1>1, <1>3, WritesStay
<1> QED BY <1>3, <1>5, <1>6

\* A completion: what is left to show is what the callback counts, sends and applies.
LEMMA CompletedSafe ==
  ASSUME NEW h, NEW a, NEW b, Step(h, a, h, b), NEW i \in Server, WriteCompletes(i),
         lastStored[i] <= lastStored'[i],
         \A k \in Server : CountsOf(k, b), \A k \in Server : CommitsOf(k, h, b),
         \A m \in msgs' : m \in msgs \/ GoodMessage(m, h, b),
         Applying(h, b)'
  PROVE  SafetyParts(h, b)'
<1>1. /\ UNCHANGED <<electionVars, log>>
      /\ \A k \in Server \ {i} : /\ disk'[k] = disk[k] /\ writes'[k] = writes[k]
                                  /\ lastStored'[k] = lastStored[k]
  BY CompletesFacts DEF Step
<1>2. /\ log' = log /\ votes' = votes /\ state' = state /\ currentTerm' = currentTerm
  BY <1>1 DEF electionVars
<1>3. /\ TermsOf(i)' /\ WritesOf(i, h)'
      /\ \A k \in 1..Len(writes'[i]) :
           \E n \in 1..Len(writes[i]) : writes'[i][k] = writes[i][n]
  BY CompletedTerms
<1>4. Stays(i)
  <2>1. lastStored[i] \in 1..Len(log[i]) /\ Len(log[i]) \in Nat
    BY StepServer
  <2> QED BY <1>2, <2>1 DEF Stays, SameUpTo
<1>5. ASSUME NEW k \in Server, k # i
      PROVE  TermsOf(k)' /\ WritesOf(k, h)' /\ Stays(k)
  BY <1>1, <1>2, <1>5, StorageStays
<1>6. \A k \in Server : TermsOf(k)' /\ WritesOf(k, h)' /\ Stays(k)
  BY <1>3, <1>4, <1>5
<1>7. \A k \in Server : \A n \in 1..Len(writes'[k]) :
        writes'[k][n].op = "follower" =>
          \/ \E j \in 1..Len(writes[k]) : writes'[k][n] = writes[k][j]
          \/ CommittedBy(h, b, writes'[k][n].commit, writes'[k][n].term)
  <2> SUFFICES ASSUME NEW k \in Server, NEW n \in 1..Len(writes'[k])
               PROVE  \E j \in 1..Len(writes[k]) : writes'[k][n] = writes[k][j]
    OBVIOUS
  <2>1. CASE k = i
    BY <1>3, <2>1
  <2>2. CASE k # i
    BY <1>1, <2>2
  <2> QED BY <2>1, <2>2
<1>8. Ordered(h)
  BY StepSets
<1>9. Covered(h, b)'
  BY <1>2, <1>6, <1>8, CoveredStays
<1>10. Complete(h, b)'
  BY CompleteQuiet
<1>11. \A k \in Server : TermsOf(k)' /\ WritesOf(k, h)' /\ (Stays(k) \/ Keeps(h, a, k))
                         /\ CountsOf(k, b) /\ CommitsOf(k, h, b)
  BY <1>6
<1> QED BY <1>7, <1>8, <1>9, <1>10, <1>11, SafeStep

\* A completion after which nothing is applied.
LEMMA QuietCompletedSafe ==
  ASSUME NEW h, NEW a, NEW b, Step(h, a, h, b), NEW i \in Server, WriteCompletes(i),
         lastStored[i] <= lastStored'[i],
         UNCHANGED <<progress, commitIndex, applied, chosen, msgs>>
  PROVE  SafetyParts(h, b)'
<1>1. log' = log /\ state' = state /\ currentTerm' = currentTerm
  BY CompletesFacts DEF Step, electionVars
<1>2. ASSUME NEW k \in Server PROVE CountsOf(k, b)
  <2>1. \A j \in Server : progress[k][j].match \in Nat
    BY DEF Step, TypeInv, TypeOK
  <2>2. \A j \in Server : progress'[k][j].match <= progress[k][j].match
    BY <2>1
  <2> QED BY <1>1, <2>2, SameCounts
<1>3. \A k \in Server : CommitsOf(k, h, b)
  BY <1>1, SameLogCommits
<1>4. Applying(h, b)'
  BY StepApplying
<1> QED BY <1>2, <1>3, <1>4, CompletedSafe

\* The entries of a write that are still in the log.
LEMMA UpdateFacts ==
  ASSUME NEW h, NEW a, NEW g, NEW b, Step(h, a, g, b), NEW i \in Server,
         NEW w \in Write, w.op # "truncate"
  PROVE  LET n == updateLastStored(i, w)
         IN  /\ n \in 0..Len(w.entries) /\ n \in Nat /\ lastStored[i] \in Nat
             /\ lastStored[i] + n \in Nat /\ lastStored[i] <= lastStored[i] + n
             /\ \A k \in 1..n : TermAt(log[i], w.index + k - 1) = w.entries[k]
<1>1. w.index \in Nat \ {0} /\ w.entries \in Log
  BY WriteFacts
<1>2. w.entries \in Seq(Entry)
  BY <1>1, LogLen
<1> DEFINE n == updateLastStored(i, w)
<1>3. n \in 0..Len(w.entries) /\ \A k \in 1..n : TermAt(log[i], w.index + k - 1) = w.entries[k]
  <2> DEFINE l == log[i]
             first == w.index
             entries == w.entries
             x == Matching(l, first, entries)
  <2>1. first \in Nat \ {0} /\ entries \in Seq(Entry)
    BY <1>1, <1>2
  <2> HIDE DEF l, first, entries
  <2>2. x \in 0..Len(entries) /\ \A k \in 1..x : TermAt(l, first + k - 1) = entries[k]
    BY <2>1, MatchingFacts
  <2> QED BY <2>2 DEF updateLastStored, l, first, entries
<1>4. lastStored[i] \in Nat /\ Len(w.entries) \in Nat
  BY <1>2, StepServer
<1> HIDE DEF n
<1>5. n \in Nat /\ lastStored[i] + n \in Nat /\ lastStored[i] <= lastStored[i] + n
  BY <1>3, <1>4
<1> QED BY <1>3, <1>4, <1>5 DEF n

LEMMA appendLeaderCbSafe ==
  ASSUME NEW h, NEW a, NEW b, Step(h, a, h, b), NEW i \in Server, WriteCompletes(i),
         NEW w \in Write, appendLeaderCb(i, w)
  PROVE  SafetyParts(h, b)'
<1> DEFINE stored == lastStored[i] + updateLastStored(i, w)
           prog == [progress[i] EXCEPT ![i].match = stored]
           T == currentTerm[i]
<1>1. w.op = "leader" /\ lastStored' = [lastStored EXCEPT ![i] = stored]
  BY DEF appendLeaderCb
<1>2. /\ log' = log /\ state' = state /\ currentTerm' = currentTerm /\ msgs' = msgs
  BY DEF appendLeaderCb, electionVars
<1>3. lastStored[i] \in Nat /\ stored \in Nat /\ lastStored[i] <= stored
  BY <1>1, UpdateFacts
<1>4. lastStored \in [Server -> Nat] /\ progress \in [Server -> [Server -> ProgressType]]
  BY DEF Step, TypeInv, TypeOK, ProgressType
<1>5. lastStored'[i] = stored
  BY <1>1, <1>4
<1>6. CASE state[i] # "leader"
  <2>1. UNCHANGED <<progress, commitIndex, applied, chosen, msgs>>
    BY <1>2, <1>6 DEF appendLeaderCb
  <2> QED BY <1>3, <1>5, <2>1, QuietCompletedSafe
<1>7. CASE state[i] = "leader"
  <2> DEFINE c == LeaderCommit(i, log[i], prog, stored)
  <2>1. progress' = [progress EXCEPT ![i] = prog] /\ ApplyUpTo(i, log[i], c)
    BY <1>7 DEF appendLeaderCb
  <2>2. stored <= b[i][T] /\ stored <= Len(log[i]) /\ b[i][T] \in Nat
    <3>1. TermsOf(i)'
      BY CompletedTerms
    <3>2. LastTerm(log'[i]) = currentTerm'[i]
      BY <1>2, <1>7, <3>1 DEF TermsOf
    <3>3. T \in Entry /\ T = currentTerm'[i]
      BY <1>2, StepTerms
    <3>4. lastStored'[i] <= b[i][T] /\ b[i][T] \in Nat
      BY <3>2, <3>3, StepConfirms
    <3>5. lastStored'[i] \in 1..Len(log'[i])
      BY StepServer
    <3> QED BY <1>2, <1>5, <3>4, <3>5
  <2>3. ASSUME NEW j \in Server
        PROVE  prog[j].match \in Nat /\ prog[j].match <= b[j][T]
    <3>1. CASE j = i
      BY <1>3, <1>4, <2>2, <3>1 DEF ProgressType
    <3>2. CASE j # i
      <4>1. prog[j] = progress[i][j] /\ progress[i][j].match \in Nat
        BY <1>4, <3>2 DEF ProgressType
      <4>2. progress[i][j].match <= b[j][currentTerm'[i]]
        BY <1>2, <1>7, <4>1, CountsStay
      <4> QED BY <1>2, <4>1, <4>2
    <3> QED BY <3>1, <3>2
  <2>4. progress'[i] = prog /\ \A k \in Server \ {i} : progress'[k] = progress[k]
    BY <1>4, <2>1
  <2> HIDE DEF prog, stored
  <2>5. Justified(i, c, h, b)
    BY <1>2, <1>3, <1>7, <2>2, <2>3, LeaderCommits DEF Justified
  <2>6. ASSUME NEW k \in Server PROVE CountsOf(k, b)
    <3>1. CASE k = i
      BY <1>2, <2>3, <2>4, <3>1 DEF CountsOf
    <3>2. CASE k # i
      <4>1. \A j \in Server : progress[k][j].match \in Nat
        BY <1>4 DEF ProgressType
      <4>2. \A j \in Server : progress'[k][j].match <= progress[k][j].match
        BY <2>4, <3>2, <4>1
      <4> QED BY <1>2, <4>2, SameCounts
    <3> QED BY <3>1, <3>2
  <2>7. Applying(h, b)' /\ \A k \in Server : CommitsOf(k, h, b)
    BY <1>2, <2>1, <2>5, ApplyStep
  <2>8. \A m \in msgs' : m \in msgs
    BY <1>2
  <2> QED BY <1>3, <1>5, <2>6, <2>7, <2>8, CompletedSafe
<1> QED BY <1>6, <1>7

\* The first operation in the queue, when it is a write that a follower was asked
\* for: as many of its entries as are still in the log are the beginning of the log
\* of the leader they came from, and last_stored does not go beyond them.
LEMMA FollowerWritten ==
  ASSUME NEW h, NEW a, NEW b, Step(h, a, h, b), NEW i \in Server,
         NEW w \in Write, w.op = "follower", writes[i] # << >>, w = Head(writes[i]),
         NEW n, n = updateLastStored(i, w), n > 0
  PROVE  /\ w.term \in Entry /\ w.term <= currentTerm[i] /\ h[w.term] # << >>
         /\ SameUpTo(log[i], h[w.term], lastStored[i] + n)
         /\ w.term = currentTerm[i] => LastTerm(log[i]) = currentTerm[i]
         /\ CommittedBy(h, a, w.commit, w.term)
<1> DEFINE l == log[i]
           x == h[w.term]
           p == w.index + n - 1
           d == disk[i]
<1>1. /\ writes[i] \in Seq(Write) /\ d \in Log /\ l \in Log /\ Len(l) \in Nat /\ Matched(l, h)
      /\ h \in [Entry -> Log] /\ lastStored[i] \in Nat
  BY StepServer, StepSets
<1>2. w = writes[i][1] /\ 1 \in 1..Len(writes[i])
  BY <1>1, TailFacts
<1>3. WriteFromLeader(w, h, currentTerm[i], LastTerm(l)) /\ CommittedBy(h, a, w.commit, w.term)
  <2>1. WritesOf(i, h)
    BY StepTerms
  <2>2. Committing(h, a)
    BY DEF Step, SafetyParts
  <2> QED BY <1>2, <2>1, <2>2 DEF WritesOf, Committing
<1>4. /\ w.term \in Entry /\ w.term <= currentTerm[i] /\ PartOf(w.entries, w.index - 1, x)
      /\ w.term = currentTerm[i] => LastTerm(l) = currentTerm[i]
  BY <1>3 DEF WriteFromLeader
<1>5. x \in Log /\ Len(x) \in Nat /\ Matched(x, h)
  BY <1>4, StepTerm
<1>6. /\ n \in 1..Len(w.entries) /\ TermAt(l, w.index + n - 1) = w.entries[n] /\ n \in Nat
      /\ w.index \in Nat \ {0} /\ w.entries \in Log /\ Len(w.entries) \in Nat
  <2>1. /\ n \in 0..Len(w.entries) /\ n \in Nat
        /\ \A k \in 1..n : TermAt(l, w.index + k - 1) = w.entries[k]
    BY UpdateFacts
  <2>2. w.index \in Nat \ {0} /\ w.entries \in Log
    BY WriteFacts
  <2>3. Len(w.entries) \in Nat
    BY <2>2, LogLen
  <2> QED BY <2>1, <2>2, <2>3
<1>7. w.entries[n] = x[p] /\ p \in 1..Len(x) /\ p \in Nat
  <2>1. w.index - 1 + n = p
    BY <1>6
  <2>2. w.entries[n] = x[w.index - 1 + n] /\ w.index - 1 + Len(w.entries) <= Len(x)
    BY <1>4, <1>6 DEF PartOf
  <2>3. w.entries[n] = x[p]
    BY <2>1, <2>2
  <2> DEFINE f == w.index
             e == Len(w.entries)
             y == Len(x)
  <2>4. f \in Nat \ {0} /\ e \in Nat /\ y \in Nat /\ f - 1 + e <= y /\ n \in 1..e /\ n \in Nat
    BY <1>5, <1>6, <2>2
  <2> HIDE DEF f, e, y
  <2>5. f + n - 1 \in 1..y /\ f + n - 1 \in Nat
    BY <2>4
  <2> QED BY <2>3, <2>5 DEF f, y
<1>8. p \in 1..Len(l) /\ l[p] = x[p]
  <2>1. x[p] \in Entry
    BY <1>5, <1>7, LogLen
  <2>2. x[p] # 0
    BY <2>1 DEF Entry
  <2> QED BY <1>6, <1>7, <2>2 DEF TermAt
<1>9. SameUpTo(l, x, p)
  <2>1. p <= Len(x)
    BY <1>5, <1>7
  <2> HIDE DEF l, x, p
  <2> QED BY <1>1, <1>5, <1>8, <2>1, MatchedSame
<1>10. lastStored[i] + n <= p
  <2>1. lastStored[i] <= Len(d)
    BY DEF Step, StoredInv, Stored, Floor
  <2>2. w.index = Len(Replay(d, writes[i])[0]) + 1
    <3>1. AppendsAtEnd(d, writes[i])
      BY DEF Step, Queues, Queue
    <3>2. w.index = Len(Replay(d, writes[i])[1 - 1]) + 1
      BY <1>2, <3>1 DEF AppendsAtEnd
    <3> QED BY <3>2
  <2>3. Replay(d, writes[i])[0] = d /\ Len(d) \in Nat
    BY <1>1, ReplayStep, LogLen
  <2> HIDE DEF d
  <2> QED BY <1>1, <1>6, <2>1, <2>2, <2>3
<1>11. SameUpTo(l, x, lastStored[i] + n)
  <2>1. lastStored[i] + n \in Int /\ p \in Int
    BY <1>1, <1>6, <1>7
  <2> HIDE DEF l, x, p
  <2> QED BY <1>1, <1>5, <1>9, <1>10, <2>1, SameLess
<1>12. x # << >>
  BY <1>5, <1>7
<1> QED BY <1>3, <1>4, <1>11, <1>12

LEMMA appendFollowerCbSafe ==
  ASSUME NEW h, NEW a, NEW b, Step(h, a, h, b), NEW i \in Server, WriteCompletes(i),
         NEW w \in Write, w = Head(writes[i]), appendFollowerCb(i, w)
  PROVE  SafetyParts(h, b)'
<1> DEFINE n == updateLastStored(i, w)
           stored == lastStored[i] + n
           T == currentTerm[i]
<1>1. w.op = "follower" /\ lastStored' = [lastStored EXCEPT ![i] = stored]
  BY DEF appendFollowerCb
<1>2. log' = log /\ state' = state /\ currentTerm' = currentTerm /\ progress' = progress
  BY DEF appendFollowerCb, electionVars
<1>3. n \in Nat /\ lastStored[i] \in Nat /\ stored \in Nat /\ lastStored[i] <= stored
  BY <1>1, UpdateFacts
<1>4. lastStored \in [Server -> Nat] /\ progress \in [Server -> [Server -> ProgressType]]
      /\ writes[i] # << >>
  BY DEF Step, TypeInv, TypeOK, ProgressType, WriteCompletes
<1>5. lastStored'[i] = stored
  BY <1>1, <1>4
<1>6. CASE n = 0
  <2>1. UNCHANGED <<progress, commitIndex, applied, chosen, msgs>>
    BY <1>2, <1>6 DEF appendFollowerCb
  <2> QED BY <1>3, <1>5, <2>1, QuietCompletedSafe
<1>7. CASE n > 0
  <2> DEFINE c == FollowerCommit(i, w.commit, stored)
             r == result(i, leader[i], w.term, 0, stored)
  <2>1. /\ ApplyUpTo(i, log[i], c)
        /\ \/ T # w.term /\ msgs' = msgs
           \/ T = w.term /\ Send(msgs, {r})
    BY <1>7 DEF appendFollowerCb
  <2>2. /\ w.term \in Entry /\ w.term <= T /\ h[w.term] # << >>
        /\ SameUpTo(log[i], h[w.term], stored)
        /\ w.term = T => LastTerm(log[i]) = T
        /\ CommittedBy(h, a, w.commit, w.term)
    BY <1>1, <1>4, <1>7, FollowerWritten
  <2>3. w.commit \in Nat
    BY <1>1 DEF Write, FollowerWrite, LeaderWrite, TruncateWrite
  <2> HIDE DEF stored, n
  <2>4. Justified(i, c, h, b)
    <3>1. w.term <= currentTerm'[i] /\ log'[i] = log[i]
      BY <1>2, <2>2
    <3> QED BY <1>3, <2>2, <2>3, <3>1, FollowerCommits DEF Justified
  <2>5. ASSUME NEW k \in Server PROVE CountsOf(k, b)
    <3>1. \A j \in Server : progress[k][j].match \in Nat
      BY <1>4 DEF ProgressType
    <3>2. \A j \in Server : progress'[k][j].match <= progress[k][j].match
      BY <1>2, <3>1
    <3> QED BY <1>2, <3>2, SameCounts
  <2>6. Applying(h, b)' /\ \A k \in Server : CommitsOf(k, h, b)
    BY <1>2, <2>1, <2>4, ApplyStep
  <2>7. ASSUME T = w.term PROVE GoodMessage(r, h, b)
    <3>1. LastTerm(log'[i]) = w.term /\ w.term = currentTerm'[i]
      BY <1>2, <2>2, <2>7
    <3>2. lastStored'[i] <= b[i][w.term]
      BY <2>2, <3>1, StepConfirms
    <3> QED BY <1>5, <2>2, <3>2 DEF GoodMessage, result
  <2>8. \A m \in msgs' : m \in msgs \/ GoodMessage(m, h, b)
    <3>1. CASE msgs' = msgs
      BY <3>1
    <3>2. CASE T = w.term /\ Send(msgs, {r})
      <4>1. msgs' \subseteq msgs \cup {r}
        BY <3>2, SendSubset
      <4> QED BY <2>7, <3>2, <4>1
    <3> QED BY <2>1, <3>1, <3>2
  <2> QED BY <1>3, <1>5, <2>5, <2>6, <2>8, CompletedSafe
<1> QED BY <1>3, <1>6, <1>7

LEMMA WriteCompletesSafe ==
  ASSUME NEW h, NEW a, NEW b, Step(h, a, h, b), NEW i \in Server, WriteCompletes(i)
  PROVE  SafetyParts(h, b)'
<1> DEFINE w == Head(writes[i])
<1>1. w \in Write
  BY CompletesFacts DEF Step
<1>2. TruncateCompletes(i, w) \/ appendLeaderCb(i, w) \/ appendFollowerCb(i, w)
  BY DEF WriteCompletes
<1>3. CASE TruncateCompletes(i, w)
  <2>1. UNCHANGED <<progress, commitIndex, applied, chosen, msgs>> /\ lastStored' = lastStored
    BY <1>3 DEF TruncateCompletes, logVars
  <2>2. lastStored[i] \in Nat
    BY StepServer
  <2>3. lastStored[i] <= lastStored'[i]
    BY <2>1, <2>2
  <2> QED BY <2>1, <2>3, QuietCompletedSafe
<1>4. CASE appendLeaderCb(i, w)
  BY <1>1, <1>4, appendLeaderCbSafe
<1>5. CASE appendFollowerCb(i, w)
  BY <1>1, <1>5, appendFollowerCbSafe
<1> QED BY <1>2, <1>3, <1>4, <1>5

\* A server loses what it was to write, and becomes or stays follower or candidate.
LEMMA DroppedSafe ==
  ASSUME NEW h, NEW a, NEW b, Step(h, a, h, b), NEW i \in Server,
         TermsOf(i)', Stays(i), CommitsOf(i, h, b),
         \A k \in 1..Len(writes'[i]) : writes'[i][k].op = "truncate",
         \A k \in Server \ {i} :
           /\ log'[k] = log[k] /\ lastStored'[k] = lastStored[k] /\ disk'[k] = disk[k]
           /\ writes'[k] = writes[k] /\ commitIndex'[k] = commitIndex[k],
         \A k \in Server : state'[k] = "leader" =>
           /\ state[k] = "leader" /\ currentTerm'[k] = currentTerm[k]
           /\ \A j \in Server : progress'[k][j].match <= progress[k][j].match,
         \A k \in Server : votes'[k] = {}
           \/ (votes'[k] \subseteq votes[k] /\ currentTerm'[k] = currentTerm[k]),
         \A m \in msgs' : m \in msgs \/ GoodMessage(m, h, b),
         Applying(h, b)'
  PROVE  SafetyParts(h, b)'
<1>1. WritesOf(i, h)'
  BY DEF WritesOf
<1>2. ASSUME NEW k \in Server, k # i
      PROVE  TermsOf(k)' /\ WritesOf(k, h)' /\ Stays(k) /\ CommitsOf(k, h, b)
  BY <1>2, StorageStays, SameLogCommits
<1>3. \A k \in Server : CountsOf(k, b)
  BY SameCounts
<1>4. \A k \in Server : /\ TermsOf(k)' /\ WritesOf(k, h)' /\ Stays(k)
                        /\ CountsOf(k, b) /\ CommitsOf(k, h, b)
  BY <1>1, <1>2, <1>3
<1>5. \A k \in Server : \A n \in 1..Len(writes'[k]) :
        writes'[k][n].op = "follower" =>
          \/ \E j \in 1..Len(writes[k]) : writes'[k][n] = writes[k][j]
          \/ CommittedBy(h, b, writes'[k][n].commit, writes'[k][n].term)
  <2> SUFFICES ASSUME NEW k \in Server, NEW n \in 1..Len(writes'[k]),
                      writes'[k][n].op = "follower"
               PROVE  \E j \in 1..Len(writes[k]) : writes'[k][n] = writes[k][j]
    OBVIOUS
  <2>1. k # i
    OBVIOUS
  <2>2. writes'[k] = writes[k]
    BY <2>1
  <2> QED BY <2>2
<1>6. Ordered(h)
  BY StepSets
<1>7. Covered(h, b)'
  BY <1>4, <1>6, CoveredStays
<1>8. Complete(h, b)'
  BY CompleteQuiet
<1>9. \A k \in Server : TermsOf(k)' /\ WritesOf(k, h)' /\ (Stays(k) \/ Keeps(h, a, k))
                        /\ CountsOf(k, b) /\ CommitsOf(k, h, b)
  BY <1>4
<1> QED BY <1>5, <1>6, <1>7, <1>8, <1>9, SafeStep

\* The beginning of a log, with at least the first entry.
LEMMA TruncatedTerms ==
  ASSUME NEW l \in Log, NEW t, Below(l, t), l[1] = 1, l # << >>, NEW index \in WriteIndex,
         NEW x, x = Truncate(l, index)
  PROVE  SameUpTo(x, l, Len(x)) /\ Below(x, t) /\ x[1] = 1 /\ Len(x) \in Nat
<1>1. index \in Nat /\ index >= 2
  BY DEF WriteIndex
<1>2. Len(l) \in Nat /\ Len(l) >= 1
  BY LogLen
<1>3. /\ x \in Log /\ Len(x) = IF index - 1 <= Len(l) THEN index - 1 ELSE Len(l)
      /\ \A k \in 1..Len(x) : x[k] = l[k]
  <2>1. index \in Nat \ {0} /\ l \in Seq(Entry)
    BY <1>1 DEF Log
  <2>2. /\ Truncate(l, index) \in Seq(Entry)
        /\ Len(Truncate(l, index)) = IF index - 1 <= Len(l) THEN index - 1 ELSE Len(l)
        /\ \A k \in 1..Len(Truncate(l, index)) : Truncate(l, index)[k] = l[k]
    BY <2>1, TruncateFacts
  <2> QED BY <2>2 DEF Log
<1>4. Len(x) \in Nat /\ Len(x) <= Len(l) /\ 1 \in 1..Len(x)
  BY <1>1, <1>2, <1>3
<1>5. SameUpTo(x, l, Len(x))
  BY <1>2, <1>3, <1>4 DEF SameUpTo
<1>6. Below(x, t)
  <2> SUFFICES ASSUME NEW k \in 1..Len(x) PROVE x[k] <= t
    BY DEF Below
  <2>1. k \in 1..Len(l) /\ x[k] = l[k]
    BY <1>2, <1>3, <1>4
  <2> QED BY <2>1 DEF Below
<1>7. x[1] = 1
  BY <1>3, <1>4
<1> QED BY <1>4, <1>5, <1>6, <1>7

\* uvAliveSegmentWriteCb with an error: only what was not stored goes.
LEMMA WriteFailsSafe ==
  ASSUME NEW h, NEW a, NEW b, Step(h, a, h, b), NEW i \in Server, WriteFails(i)
  PROVE  SafetyParts(h, b)'
<1> DEFINE l == log[i]
           x == log'[i]
           T == currentTerm[i]
           ws == writes[i]
           reject(w) == result(i, leader[i], T, w.prev + 1, lastStored[i])
           new == {reject(w) : w \in {f \in Failed(i) : f.op = "follower"}}
<1>1. TypeInv
  BY DEF Step
<1>2. /\ log \in [Server -> Log] /\ writes \in [Server -> Seq(Write)]
      /\ progress \in [Server -> [Server -> ProgressType]]
  BY <1>1 DEF TypeInv, TypeOK, QueuesOK, ProgressType
<1>3. /\ ws # << >> /\ Head(ws).op # "truncate"
      /\ log' = [log EXCEPT ![i] = Truncate(@, FirstFailed(i))]
      /\ writes' = [writes EXCEPT ![i] = Truncates(@)[Len(@)]]
      /\ Send(msgs, new)
      /\ IF state[i] = "leader"
           THEN convertToFollower(i, T, None)
           ELSE UNCHANGED <<electionVars, progress>>
      /\ UNCHANGED <<lastStored, commitIndex, applied, chosen, disk>>
  BY DEF WriteFails, Failed, FirstFailed
<1>4. FirstFailed(i) \in WriteIndex
  BY <1>1, <1>3, FailedFacts
<1>5. x = Truncate(l, FirstFailed(i)) /\ writes'[i] = Truncates(ws)[Len(ws)]
      /\ ws \in Seq(Write) /\ l \in Log
  BY <1>2, <1>3
<1>6. \A k \in Server \ {i} : log'[k] = log[k] /\ writes'[k] = writes[k]
  BY <1>2, <1>3
<1>7. TermsOf(i) /\ T \in Entry /\ l # << >>
  BY <1>1, StepTerms DEF TypeInv, NonEmpty
<1>8. SameUpTo(x, l, Len(x)) /\ Below(x, T) /\ x[1] = 1 /\ Len(x) \in Nat
  BY <1>4, <1>5, <1>7, TruncatedTerms DEF TermsOf
<1>9. \A k \in 1..Len(writes'[i]) : writes'[i][k].op = "truncate"
  <2>1. Len(ws) \in 0..Len(ws)
    BY <1>5
  <2> QED BY <1>5, <2>1, TruncatesType
<1>10. /\ currentTerm'[i] = T /\ state'[i] # "leader"
       /\ \A k \in Server : state'[k] = "leader" =>
            /\ state[k] = "leader" /\ currentTerm'[k] = currentTerm[k]
            /\ \A j \in Server : progress'[k][j].match <= progress[k][j].match
       /\ \A k \in Server : votes'[k] = {}
            \/ (votes'[k] \subseteq votes[k] /\ currentTerm'[k] = currentTerm[k])
  <2>1. CASE state[i] = "leader"
    <3>1. convertToFollower(i, T, None)
      BY <1>3, <2>1
    <3> QED BY <3>1, FollowerFacts
  <2>2. CASE state[i] # "leader"
    <3>1. UNCHANGED <<electionVars, progress>>
      BY <1>3, <2>2
    <3>2. \A k, j \in Server : progress[k][j].match \in Nat
      BY <1>2 DEF ProgressType
    <3>3. \A k, j \in Server : progress'[k][j].match <= progress[k][j].match
      BY <3>1, <3>2
    <3> QED BY <2>2, <3>1, <3>3 DEF electionVars
  <2> QED BY <2>1, <2>2
<1>11. TermsOf(i)'
  <2>1. Below(disk'[i], T)
    BY <1>3, <1>7 DEF TermsOf
  <2> QED BY <1>8, <1>9, <1>10, <2>1, TermsNext
<1>12. Stays(i)
  <2>1. /\ lastStored'[i] \in 1..Len(x) /\ lastStored'[i] = lastStored[i] /\ lastStored[i] \in Nat
        /\ Len(l) \in Nat
    BY <1>3, StepServer
  <2>2. Len(x) <= Len(l)
    BY <1>8 DEF SameUpTo
  <2>3. SameUpTo(x, l, lastStored[i])
    BY <1>8, <2>1, <2>2 DEF SameUpTo
  <2> QED BY <2>1, <2>3 DEF Stays
<1>13. CommitsOf(i, h, b)
  BY <1>3, <1>8, CommitsStay
<1>14. \A m \in msgs' : m \in msgs \/ GoodMessage(m, h, b)
  <2>1. msgs' \subseteq msgs \cup new
    BY <1>3, SendSubset
  <2>2. ASSUME NEW w \in Failed(i), w.op = "follower"
        PROVE  GoodMessage(reject(w), h, b)
    <3>1. w \in Write
      BY <1>5 DEF Failed
    <3>2. w.prev \in Nat
      BY <2>2, <3>1 DEF Write, FollowerWrite, LeaderWrite, TruncateWrite
    <3>3. w.prev + 1 # 0
      BY <3>2
    <3> QED BY <1>7, <3>3 DEF GoodMessage, result
  <2> HIDE DEF reject
  <2> QED BY <2>1, <2>2
<1>15. Applying(h, b)'
  BY <1>3, StepApplying
<1>16. \A k \in Server \ {i} :
         /\ log'[k] = log[k] /\ lastStored'[k] = lastStored[k] /\ disk'[k] = disk[k]
         /\ writes'[k] = writes[k] /\ commitIndex'[k] = commitIndex[k]
  BY <1>3, <1>6
<1> QED BY <1>9, <1>10, <1>11, <1>12, <1>13, <1>14, <1>15, <1>16, DroppedSafe

\* A crash: what was confirmed is on disk.
LEMMA raft_startSafe ==
  ASSUME NEW h, NEW a, NEW b, Step(h, a, h, b), NEW i \in Server, raft_start(i)
  PROVE  SafetyParts(h, b)'
<1> DEFINE d == disk[i]
<1>1. /\ log \in [Server -> Log] /\ writes \in [Server -> Seq(Write)]
      /\ progress \in [Server -> [Server -> ProgressType]] /\ lastStored \in [Server -> Nat]
      /\ commitIndex \in [Server -> Nat] /\ applied \in [Server -> Log]
      /\ state \in [Server -> Role] /\ votes \in [Server -> SUBSET Server]
  BY DEF Step, TypeInv, TypeOK, QueuesOK, ProgressType
<1>2. /\ state'[i] = "follower" /\ votes'[i] = {} /\ log'[i] = d /\ lastStored'[i] = Len(d)
      /\ commitIndex'[i] = 1 /\ applied'[i] = SubSeq(d, 1, 1) /\ writes'[i] = << >>
      /\ currentTerm' = currentTerm /\ disk' = disk /\ msgs' = msgs /\ chosen' = chosen
  BY <1>1 DEF raft_start
<1>3. \A k \in Server \ {i} :
        /\ state'[k] = state[k] /\ votes'[k] = votes[k] /\ log'[k] = log[k]
        /\ lastStored'[k] = lastStored[k] /\ commitIndex'[k] = commitIndex[k]
        /\ applied'[k] = applied[k] /\ writes'[k] = writes[k] /\ progress'[k] = progress[k]
        /\ disk'[k] = disk[k]
  BY <1>1 DEF raft_start
<1>4. /\ TermsOf(i) /\ d \in Log /\ Len(d) \in Nat /\ log[i] \in Log
      /\ lastStored[i] \in 1..Len(log[i]) /\ lastStored[i] \in Nat /\ Len(log[i]) \in Nat
      /\ SameUpTo(log[i], d, lastStored[i]) /\ currentTerm[i] \in Nat
  BY StepTerms, StepServer
<1>5. SameUpTo(d, log[i], lastStored[i]) /\ lastStored[i] <= Len(d)
  <2>1. lastStored[i] \in Int
    BY <1>4
  <2> QED BY <1>4, <2>1, SameLess DEF SameUpTo
<1>6. d[1] = 1 /\ 1 <= Len(d)
  <2>1. 1 \in 1..lastStored[i] /\ 1 <= Len(d)
    BY <1>4, <1>5
  <2> QED BY <1>4, <1>5, <2>1 DEF SameUpTo, TermsOf
<1>7. TermsOf(i)'
  <2>1. \A k \in 1..Len(writes'[i]) : FALSE
    BY <1>2
  <2>2. Below(log'[i], currentTerm'[i]) /\ Below(disk'[i], currentTerm'[i])
    BY <1>2, <1>4 DEF TermsOf
  <2> QED BY <1>2, <1>6, <2>1, <2>2, TermsNext
<1>8. Stays(i)
  BY <1>2, <1>5 DEF Stays
<1>9. CommitsOf(i, h, b)
  BY <1>2 DEF CommitsOf, CommittedBy, CommittedLog
<1>10. Len(applied'[i]) = 1 /\ applied'[i][1] = 1
  <2>1. d \in Seq(Entry)
    BY <1>4, LogLen
  <2>2. Len(SubSeq(d, 1, 1)) = 1 /\ SubSeq(d, 1, 1)[1] = d[1]
    BY <1>4, <1>6, <2>1
  <2> QED BY <1>2, <1>6, <2>2
<1>11. Applying(h, b)'
  <2>1. ASSUME NEW k \in Server
        PROVE  \/ applied'[k] = applied[k] /\ commitIndex'[k] = commitIndex[k]
               \/ Len(applied'[k]) = 1 /\ commitIndex'[k] = 1 /\ applied'[k][1] = 1
    BY <1>2, <1>3, <1>10
  <2> QED BY <1>2, <2>1, StepApplying
<1>12. \A k \in Server : state'[k] = "leader" =>
         /\ state[k] = "leader" /\ currentTerm'[k] = currentTerm[k]
         /\ \A j \in Server : progress'[k][j].match <= progress[k][j].match
  <2>1. \A k, j \in Server : progress[k][j].match \in Nat
    BY <1>1 DEF ProgressType
  <2> QED BY <1>2, <1>3, <2>1
<1>13. \A k \in Server : votes'[k] = {}
         \/ (votes'[k] \subseteq votes[k] /\ currentTerm'[k] = currentTerm[k])
  BY <1>2, <1>3
<1>14. \A k \in 1..Len(writes'[i]) : writes'[i][k].op = "truncate"
  BY <1>2
<1>15. \A m \in msgs' : m \in msgs
  BY <1>2
<1> QED BY <1>3, <1>7, <1>8, <1>9, <1>11, <1>12, <1>13, <1>14, <1>15, DroppedSafe

-----------------------------------------------------------------------------
(* The invariant holds *)

\* A message found in flight at the start.
LEMMA CarriesFromLeader ==
  ASSUME NEW h \in [Entry -> Log], NEW m \in AppendEntries, Carries(m, h)
  PROVE  FromLeader(m, h)
<1> DEFINE l == h[m.term]
           n == Len(m.entries)
           end == m.prev + n
<1>1. /\ m.term \in Entry /\ end \in 1..Len(l) /\ l[end] = m.term
      /\ m.prevTerm = (IF m.prev = 0 THEN 0 ELSE l[m.prev])
      /\ m.entries = SubSeq(l, m.prev + 1, end)
  BY DEF Carries
<1>2. l \in Log /\ m.prev \in Nat /\ m.entries \in Log
  BY <1>1 DEF AppendEntries
<1>3. l \in Seq(Entry) /\ Len(l) \in Nat /\ n \in Nat
  BY <1>2, LogLen
<1> DEFINE p == m.prev
           y == Len(l)
<1>4. p \in Nat /\ y \in Nat /\ n \in Nat /\ p + n \in 1..y
  BY <1>1, <1>2, <1>3
<1> HIDE DEF l, n, p, y
<1>5. p + 1 \in Nat \ {0} /\ p + n \in Int /\ p + n <= y /\ p + n >= 1
      /\ (p + n) - (p + 1) + 1 = n /\ (\A k \in 1..n : p + 1 + k - 1 = p + k)
      /\ (p # 0 => p \in 1..y)
  BY <1>4
<1>6. m.prev + 1 \in Nat \ {0} /\ end \in Int /\ end <= Len(l) /\ end >= 1
      /\ end - (m.prev + 1) + 1 = n /\ \A k \in 1..n : m.prev + 1 + k - 1 = m.prev + k
  BY <1>5 DEF p, y
<1>7. \A k \in 1..n : m.entries[k] = l[m.prev + k]
  <2>1. \A k \in 1..end - (m.prev + 1) + 1 :
          SubSeq(l, m.prev + 1, end)[k] = l[m.prev + 1 + k - 1]
    <3>1. PICK f, e : f = m.prev + 1 /\ e = end
      OBVIOUS
    <3>2. l \in Seq(Entry) /\ f \in Nat \ {0} /\ e \in Int /\ e <= Len(l)
      BY <1>3, <1>6, <3>1
    <3> HIDE DEF end
    <3>3. \A k \in 1..e - f + 1 : SubSeq(l, f, e)[k] = l[f + k - 1]
      BY <3>2, SubSeqFacts
    <3> QED BY <3>1, <3>3
  <2> HIDE DEF end
  <2> QED BY <1>1, <1>6, <2>1
<1>8. m.prevTerm = TermAt(l, m.prev)
  <2>1. m.prev # 0 => m.prev \in 1..Len(l)
    BY <1>5 DEF p, y
  <2>2. m.prev = 0 => m.prev \notin 1..Len(l)
    BY <1>3
  <2> QED BY <1>1, <2>1, <2>2 DEF TermAt
<1> QED BY <1>1, <1>6, <1>7, <1>8 DEF FromLeader, PartOf, l, n

LEMMA InitSafe == Init => SafetyInv
<1> SUFFICES ASSUME Init PROVE SafetyInv
  OBVIOUS
<1> DEFINE h == Conf.past
           a == Confirms([j \in Server |-> [t \in Entry |-> 0]])
<1>1. /\ TypeInv /\ Queues /\ StoredInv /\ Past(h) /\ conf \in DOMAIN Configurations
  BY InitType, InitQueues, InitStored, InitMatch DEF Init
<1>2. /\ state = [i \in Server |-> "follower"] /\ currentTerm = Conf.term
      /\ votes = [i \in Server |-> {}] /\ log = Conf.log
      /\ lastStored = [i \in Server |-> Len(Conf.log[i])]
      /\ commitIndex = [i \in Server |-> 1]
      /\ applied = [i \in Server |-> SubSeq(Conf.log[i], 1, 1)]
      /\ disk = Conf.log /\ writes = [i \in Server |-> << >>]
      /\ msgs = Conf.msgs /\ chosen = <<1>>
  BY DEF Init
<1>3. /\ h \in [Entry -> Log] /\ Conf.log \in [Server -> Log]
      /\ Conf.term \in [Server -> Entry]
      /\ \A m \in Conf.msgs : m \in AppendEntries
  BY <1>1, StartFacts
<1>4. /\ \A i \in Server :
           /\ log[i] # << >> /\ log[i][1] = 1
           /\ \A k \in DOMAIN log[i] : log[i][k] <= currentTerm[i]
      /\ \A t \in Entry :
           h[t] # << >> => h[t][1] = 1 /\ \A k \in DOMAIN h[t] : h[t][k] <= t
      /\ \A m \in Conf.msgs : Carries(m, h) /\ m.commit <= 1
  <2>1. Restartable(Conf) /\ DOMAIN h = Entry
    BY <1>1, <1>3, ConfFacts
  <2> QED BY <1>2, <2>1 DEF Restartable
<1> HIDE DEF h
<1>5. ASSUME NEW j \in Server
      PROVE  /\ log[j] \in Log /\ Len(log[j]) \in Nat /\ Len(log[j]) >= 1 /\ Matched(log[j], h)
             /\ lastStored[j] = Len(log[j]) /\ currentTerm[j] \in Entry /\ disk[j] = log[j]
             /\ commitIndex[j] = 1 /\ writes[j] = << >> /\ votes[j] = {}
             /\ state[j] = "follower" /\ applied[j] = SubSeq(log[j], 1, 1)
  <2>1. Matched(log[j], h)
    BY <1>1, StateFacts
  <2>2. log[j] \in Log
    BY <1>2, <1>3
  <2>3. Len(log[j]) \in Nat /\ Len(log[j]) >= 1
    BY <1>4, <2>2, LogLen
  <2> QED BY <1>2, <1>3, <2>1, <2>2, <2>3
<1>6. ASSUME NEW j \in Server, NEW t \in Entry
      PROVE  \/ /\ t = currentTerm[j] /\ LastTerm(log[j]) = t
                /\ a[j][t] = lastStored[j] /\ lastStored[j] > 0
             \/ /\ a[j][t] = 0
                /\ t = currentTerm[j] => LastTerm(log[j]) # t
  <2>1. a[j][t] = IF t = currentTerm[j] /\ LastTerm(log[j]) = t /\ lastStored[j] > 0
                    THEN lastStored[j] ELSE 0
    BY DEF Confirms
  <2>2. lastStored[j] > 0
    BY <1>5
  <2> QED BY <2>1, <2>2
<1>7. a \in [Server -> [Entry -> Nat]]
  <2>1. \A j \in Server, t \in Entry : lastStored[j] \in Nat
    BY <1>5
  <2> QED BY <2>1 DEF Confirms
<1> HIDE DEF a
<1>8. Ordered(h)
  <2> SUFFICES ASSUME NEW t \in Entry
               PROVE  Below(h[t], t) /\ (h[t] # << >> => h[t][1] = 1)
    BY DEF Ordered
  <2>1. DOMAIN h[t] = 1..Len(h[t])
    BY <1>3, LogLen
  <2>2. CASE h[t] = << >>
    BY <2>2 DEF Below
  <2>3. CASE h[t] # << >>
    BY <1>4, <2>1, <2>3 DEF Below
  <2> QED BY <2>2, <2>3
<1>9. Terms(h)
  <2> SUFFICES ASSUME NEW i \in Server PROVE TermsOf(i)
    BY <1>8 DEF Terms
  <2>1. DOMAIN log[i] = 1..Len(log[i])
    BY <1>5, LogLen
  <2>2. Below(log[i], currentTerm[i])
    BY <1>4, <2>1 DEF Below
  <2>3. \A k \in 1..Len(writes[i]) : FALSE
    BY <1>5
  <2> QED BY <1>4, <1>5, <2>2, <2>3 DEF TermsOf
<1>10. Sending(h)
  BY <1>2, <1>3, <1>4, CarriesFromLeader DEF Sending
<1>11. Writing(h)
  <2>1. \A i \in Server : \A k \in 1..Len(writes[i]) : FALSE
    BY <1>5
  <2> QED BY <2>1 DEF Writing, WritesOf
<1>12. Confirming(h, a)
  <2> SUFFICES ASSUME NEW j \in Server, NEW t \in Entry
               PROVE  /\ a[j][t] <= Len(h[t])
                      /\ a[j][t] > 0 => t <= currentTerm[j]
                      /\ t = currentTerm[j] =>
                           /\ Holds(h, j, t, a[j][t])
                           /\ LastTerm(log[j]) = t => lastStored[j] <= a[j][t]
                      /\ t < currentTerm[j] =>
                           \A n \in 1..a[j][t] :
                             h[t][n] = t => Holds(h, j, t, n) \/ Abandoned(a, t, n)
    BY <1>7 DEF Confirming
  <2>1. h[t] \in Log /\ Len(h[t]) \in Nat /\ t \in Nat /\ currentTerm[j] \in Nat
    BY <1>3, <1>5, EntryFacts, LogLen
  <2>2. /\ log[j] \in Log /\ Len(log[j]) \in Nat /\ Matched(log[j], h)
        /\ lastStored[j] = Len(log[j])
    BY <1>5
  <2>3. CASE t = currentTerm[j] /\ LastTerm(log[j]) = t /\ a[j][t] = lastStored[j]
    <3>1. SameUpTo(log[j], h[t], Len(log[j]))
      BY <1>3, <2>2, <2>3, EndsInTerm
    <3>2. Len(log[j]) <= Len(h[t])
      BY <3>1 DEF SameUpTo
    <3> QED BY <2>1, <2>2, <2>3, <3>1, <3>2 DEF Holds
  <2>4. CASE a[j][t] = 0 /\ (t = currentTerm[j] => LastTerm(log[j]) # t)
    <3>1. Holds(h, j, t, 0)
      BY <2>1, <2>2 DEF Holds, SameUpTo
    <3> QED BY <2>1, <2>4, <3>1
  <2> QED BY <1>6, <2>3, <2>4
<1>13. Counting(a)
  <2>1. \A m \in msgs : m.type # "AppendEntriesResult"
    BY <1>2, <1>3 DEF AppendEntries
  <2> QED BY <1>5, <2>1 DEF Counting
<1>14. Complete(h, a)
  <2> SUFFICES ASSUME NEW t \in Entry, NEW u \in Entry, t < u, h[u] # << >>,
                      NEW n \in 1..Len(h[t])
               PROVE  Abandoned(a, t, n)
    BY DEF Complete
  <2>1. Quorum({j \in Server : currentTerm[j] >= u})
    BY <1>1, ReachedByMajority
  <2>2. ASSUME NEW j \in Server, currentTerm[j] >= u
        PROVE  currentTerm[j] > t /\ a[j][t] < n
    <3>1. t \in Nat /\ u \in Nat /\ currentTerm[j] \in Nat /\ n \in Nat /\ n > 0
      <4>1. Len(h[t]) \in Nat
        BY <1>3, LogLen
      <4> QED BY <1>5, <4>1, EntryFacts
    <3>2. currentTerm[j] > t
      BY <2>2, <3>1
    <3>3. a[j][t] = 0
      BY <1>6, <3>1, <3>2
    <3> QED BY <3>1, <3>2, <3>3
  <2>3. {j \in Server : currentTerm[j] >= u} \subseteq {j \in Server : currentTerm[j] > t /\ a[j][t] < n}
    BY <2>2
  <2> QED BY <2>1, <2>3, QuorumMonotone DEF Abandoned
<1>15. Covered(h, a)
  BY <1>5 DEF Covered
<1>16. Committing(h, a)
  <2>1. \A i \in Server : \A k \in 1..Len(writes[i]) : FALSE
    BY <1>5
  <2>2. \A i \in Server : CommittedBy(h, a, commitIndex[i], currentTerm[i])
    BY <1>5 DEF CommittedBy
  <2>3. \A m \in msgs : CommittedBy(h, a, m.commit, m.term)
    BY <1>2, <1>4 DEF CommittedBy
  <2>4. \A i \in Server : \A c \in 1..Len(log[i]) :
          c <= commitIndex[i] => CommittedLog(h, a, log[i], c, currentTerm[i])
    BY <1>5 DEF CommittedLog
  <2> QED BY <2>1, <2>2, <2>3, <2>4 DEF Committing
<1>17. Applying(h, a)
  <2>1. Len(chosen) = 1 /\ chosen[1] = 1
    BY <1>2
  <2>2. ASSUME NEW i \in Server PROVE Len(applied[i]) = 1 /\ applied[i][1] = 1
    <3>1. log[i] \in Seq(Entry)
      BY <1>5, LogLen
    <3>2. Len(SubSeq(log[i], 1, 1)) = 1 /\ SubSeq(log[i], 1, 1)[1] = log[i][1]
      BY <1>5, <3>1
    <3> QED BY <1>4, <1>5, <3>2
  <2>3. CommittedLog(h, a, chosen, Len(chosen), Conf.maxTerm)
    BY <2>1 DEF CommittedLog
  <2>4. ASSUME NEW i \in Server
        PROVE  /\ Len(applied[i]) = commitIndex[i] /\ applied[i][1] = 1
               /\ CommittedLog(h, a, applied[i], Len(applied[i]), Conf.maxTerm)
               /\ Len(applied[i]) <= Len(chosen)
    <3>1. Len(applied[i]) = 1 /\ applied[i][1] = 1 /\ commitIndex[i] = 1
      BY <1>5, <2>2
    <3> QED BY <2>1, <3>1 DEF CommittedLog
  <2>5. Len(chosen) >= 1
    BY <2>1
  <2> QED BY <2>1, <2>3, <2>4, <2>5 DEF Applying
<1>18. SafetyParts(h, a)
  BY <1>1, <1>9, <1>10, <1>11, <1>12, <1>13, <1>14, <1>15, <1>16, <1>17 DEF SafetyParts
<1> QED BY <1>18 DEF SafetyInv

\* Terms never go back.
LEMMA NextTermsGrow ==
  ASSUME TypeInv, [Next]_vars
  PROVE  TermsGrow
<1> SUFFICES ASSUME NEW k \in Server PROVE currentTerm[k] <= currentTerm'[k]
  BY DEF TermsGrow
<1>1. currentTerm \in [Server -> 0..Conf.maxTerm] /\ currentTerm[k] \in Nat
  BY TermFacts DEF TypeInv, TypeOK
<1>2. CASE currentTerm' = currentTerm
  BY <1>1, <1>2
<1>3. CASE \E i \in Server, t \in Int :
             t >= currentTerm[i] /\ currentTerm' = [currentTerm EXCEPT ![i] = t]
  BY <1>1, <1>3
<1>4. CASE Next
  <2>1. ASSUME NEW i \in Up, NEW j \in Up, recvRequestVote(j, i)
        PROVE  currentTerm[k] <= currentTerm'[k]
    <3>1. i \in Server /\ j \in Server
      BY DEF Up
    <3>2. currentTerm[i] \in Int
      BY <3>1, TermFacts
    <3> QED BY <1>3, <2>1, <3>1, <3>2 DEF recvRequestVote
  <2>2. ASSUME NEW i \in Up, NEW j \in Server, replicationHeartbeat(i, j)
        PROVE  currentTerm[k] <= currentTerm'[k]
    BY <1>2, <2>2 DEF replicationHeartbeat, electionVars
  <2>3. ASSUME NEW i \in Up, electionStart(i) PROVE currentTerm[k] <= currentTerm'[k]
    <3>1. i \in Server /\ currentTerm[i] \in Nat
      BY TermFacts DEF Up
    <3>2. currentTerm[i] + 1 \in Int /\ currentTerm[i] + 1 >= currentTerm[i]
      BY <3>1
    <3> QED BY <1>3, <2>3, <3>1, <3>2 DEF electionStart
  <2>4. ASSUME NEW i \in Up, tick(i) \/ convertToLeader(i) \/ raft_apply(i)
                             \/ WriteCompletes(i) \/ raft_start(i)
        PROVE  currentTerm[k] <= currentTerm'[k]
    <3>1. i \in Server
      BY DEF Up
    <3>2. currentTerm' = currentTerm
      BY <2>4, <3>1, CompletesFacts
         DEF tick, convertToLeader, raft_apply, raft_start, electionVars
    <3> QED BY <1>2, <3>2
  <2>5. ASSUME NEW i \in Up, checkContactQuorum(i) \/ WriteFails(i)
        PROVE  currentTerm[k] <= currentTerm'[k]
    <3>1. i \in Server /\ currentTerm[i] \in Nat
      BY TermFacts DEF Up
    <3>2. \/ currentTerm' = currentTerm
          \/ currentTerm' = [currentTerm EXCEPT ![i] = currentTerm[i]]
      BY <2>5 DEF checkContactQuorum, WriteFails, convertToFollower, electionVars
    <3> QED BY <1>2, <1>3, <3>1, <3>2
  <2>6. ASSUME NEW m \in msgs, recvAppendEntries(m) \/ recvAppendEntriesResult(m)
        PROVE  currentTerm[k] <= currentTerm'[k]
    <3>1. m.to \in Server /\ m.term \in Int
      BY DEF TypeInv, QueuesOK, AppendEntries, AppendEntriesResult, Term
    <3>2. \/ currentTerm' = currentTerm
          \/ /\ m.term >= currentTerm[m.to]
             /\ currentTerm' = [currentTerm EXCEPT ![m.to] = m.term]
      <4>1. CASE recvAppendEntries(m)
        BY <4>1 DEF recvAppendEntries, convertToFollower, electionVars
      <4>2. CASE recvAppendEntriesResult(m)
        <5>1. currentTerm[m.to] \in Int
          BY <3>1, TermFacts
        <5>2. \/ currentTerm' = currentTerm
              \/ /\ m.term > currentTerm[m.to]
                 /\ currentTerm' = [currentTerm EXCEPT ![m.to] = m.term]
          BY <4>2 DEF recvAppendEntriesResult, convertToFollower, electionVars
        <5> QED BY <3>1, <5>1, <5>2
      <4> QED BY <2>6, <4>1, <4>2
    <3> QED BY <1>2, <1>3, <3>1, <3>2
  <2>7. ASSUME NEW m \in msgs, SendFails(m) \/ Lose(m) PROVE currentTerm[k] <= currentTerm'[k]
    BY <1>2, <2>7 DEF SendFails, Lose, electionVars
  <2> QED BY <1>4, <2>1, <2>2, <2>3, <2>4, <2>5, <2>6, <2>7 DEF Next
<1> QED BY <1>2, <1>4 DEF vars

\* A leader adds an entry to the log that h has for its term.
LEMMA LeaderGrows ==
  ASSUME TypeInv, NEW h \in [Entry -> Log], NEW i \in Server,
         h[currentTerm[i]] = << >> \/ h[currentTerm[i]] = log[i],
         NEW g, g = [h EXCEPT ![currentTerm[i]] = Append(log[i], currentTerm[i])]
  PROVE  GrowsTo(h, g)
<1> SUFFICES ASSUME NEW t \in Entry PROVE SameUpTo(g[t], h[t], Len(h[t]))
  BY DEF GrowsTo
<1>1. h[t] \in Log /\ Len(h[t]) \in Nat
  BY LogLen
<1>2. CASE t # currentTerm[i]
  <2>1. g[t] = h[t]
    BY <1>2
  <2> QED BY <1>1, <2>1 DEF SameUpTo
<1>3. CASE t = currentTerm[i]
  <2> DEFINE l == log[i]
  <2>1. g[t] = Append(l, t)
    BY <1>3
  <2>2. l \in Seq(Entry) /\ Len(l) \in Nat
    BY LogFacts, LogLen
  <2>3. h[t] = << >> \/ h[t] = l
    BY <1>3
  <2> HIDE DEF l
  <2>4. /\ Len(Append(l, t)) = Len(l) + 1
        /\ \A k \in 1..Len(l) : Append(l, t)[k] = l[k]
    BY <2>2
  <2>5. CASE h[t] = << >>
    <3>1. Len(h[t]) = 0
      BY <2>5
    <3> QED BY <2>1, <2>2, <2>4, <3>1 DEF SameUpTo
  <2>6. CASE h[t] = l
    BY <2>1, <2>2, <2>4, <2>6 DEF SameUpTo
  <2> QED BY <2>3, <2>5, <2>6
<1> QED BY <1>2, <1>3

LEMMA LeaderPast ==
  ASSUME TypeInv, TypeInv', Queues, conf' = conf, NEW h, Past(h), NEW i \in Server,
         convertToLeader(i) \/ raft_apply(i),
         NEW g, g = [h EXCEPT ![currentTerm[i]] = Append(log[i], currentTerm[i])]
  PROVE  Past(g)' /\ GrowsTo(h, g)
<1>1. h \in [Entry -> Log]
  BY DEF Past, History
<1>2. CASE convertToLeader(i)
  <2>1. PICK v : VotesCast(v) /\ Wins(h, v)
    BY DEF Past, Led
  <2>2. h[currentTerm[i]] = << >>
    BY <1>2, <2>1, WinnerIsFirst DEF convertToLeader
  <2> QED BY <1>1, <1>2, <2>2, convertToLeaderMatch, LeaderGrows
<1>3. CASE raft_apply(i)
  <2>1. h[currentTerm[i]] = log[i]
    BY <1>3 DEF raft_apply, Past, History
  <2> QED BY <1>1, <1>3, <2>1, raft_applyMatch, LeaderGrows
<1> QED BY <1>2, <1>3

LEMMA QuietPast ==
  ASSUME TypeInv, TypeInv', Queues, [Next]_vars, NEW h, Past(h),
         \A i \in Server : ~convertToLeader(i) /\ ~raft_apply(i)
  PROVE  Past(h)'
<1>0. conf' = conf
  BY DEF Next, vars
<1>1. CASE UNCHANGED vars
  BY <1>1, StutterMatch
<1>2. CASE Next
  <2>1. ASSUME NEW i \in Up, NEW j \in Up, recvRequestVote(j, i) PROVE Past(h)'
    BY <1>0, <2>1, recvRequestVoteMatch DEF Up
  <2>2. ASSUME NEW i \in Up, NEW j \in Server, replicationHeartbeat(i, j) PROVE Past(h)'
    BY <1>0, <2>2, replicationHeartbeatMatch DEF Up
  <2>3. ASSUME NEW i \in Up, tick(i) \/ electionStart(i) \/ checkContactQuorum(i)
        PROVE  Past(h)'
    BY <1>0, <2>3, tickMatch DEF Up
  <2>4. ASSUME NEW i \in Up, convertToLeader(i) \/ raft_apply(i) PROVE Past(h)'
    BY <2>4 DEF Up
  <2>5. ASSUME NEW i \in Up, WriteCompletes(i) \/ WriteFails(i) \/ raft_start(i)
        PROVE  Past(h)'
    BY <1>0, <2>5, WriteCompletesMatch, WriteFailsMatch, raft_startMatch DEF Up
  <2>6. ASSUME NEW m \in msgs,
               \/ recvAppendEntries(m) \/ recvAppendEntriesResult(m)
               \/ SendFails(m) \/ Lose(m)
        PROVE  Past(h)'
    BY <1>0, <2>6, recvAppendEntriesMatch, recvAppendEntriesResultMatch, LossMatch
  <2> QED BY <1>2, <2>1, <2>2, <2>3, <2>4, <2>5, <2>6 DEF Next
<1> QED BY <1>1, <1>2

\* The actions that add nothing to the log of a leader.
LEMMA NextQuietSafe ==
  ASSUME NEW h, NEW a, NEW b, Step(h, a, h, b), [Next]_vars, [StaleFirstLost]_vars,
         \A i \in Server : ~convertToLeader(i) /\ ~raft_apply(i)
  PROVE  SafetyParts(h, b)'
<1>1. CASE UNCHANGED vars
  BY <1>1, StutterSafe
<1>2. CASE Next /\ StaleFirstLost
  <2>1. ASSUME NEW i \in Up, NEW j \in Up, recvRequestVote(j, i) PROVE SafetyParts(h, b)'
    BY <2>1, recvRequestVoteSafe DEF Up
  <2>2. ASSUME NEW i \in Up, NEW j \in Server, replicationHeartbeat(i, j)
        PROVE  SafetyParts(h, b)'
    BY <2>2, replicationHeartbeatSafe DEF Up
  <2>3. ASSUME NEW i \in Up, tick(i) \/ electionStart(i) \/ checkContactQuorum(i)
        PROVE  SafetyParts(h, b)'
    BY <2>3, tickSafe, electionStartSafe, checkContactQuorumSafe DEF Up
  <2>4. ASSUME NEW i \in Up, convertToLeader(i) \/ raft_apply(i) PROVE SafetyParts(h, b)'
    BY <2>4 DEF Up
  <2>5. ASSUME NEW i \in Up, WriteCompletes(i) \/ WriteFails(i) \/ raft_start(i)
        PROVE  SafetyParts(h, b)'
    BY <2>5, WriteCompletesSafe, WriteFailsSafe, raft_startSafe DEF Up
  <2>6. ASSUME NEW m \in msgs, recvAppendEntries(m) PROVE SafetyParts(h, b)'
    BY <1>2, <2>6, recvAppendEntriesSafe
  <2>7. ASSUME NEW m \in msgs, recvAppendEntriesResult(m) \/ SendFails(m) \/ Lose(m)
        PROVE  SafetyParts(h, b)'
    BY <2>7, recvAppendEntriesResultSafe, LossSafe
  <2> QED BY <1>2, <2>1, <2>2, <2>3, <2>4, <2>5, <2>6, <2>7 DEF Next
<1> QED BY <1>1, <1>2

\* The history and what was confirmed, after a step.
LEMMA NextParts ==
  ASSUME TypeInv, TypeInv', Queues, Queues', StoredInv, StoredInv', [Next]_vars,
         [StaleFirstLost]_vars, NEW h, NEW a, SafetyParts(h, a)
  PROVE  \E g, b : Step(h, a, g, b) /\ SafetyParts(g, b)'
<1>1. TermsGrow /\ Past(h) /\ conf' = conf
  BY NextTermsGrow DEF SafetyParts, Next, vars
<1>2. PICK b : b = Confirms(a)'
  OBVIOUS
<1>3. ASSUME NEW i \in Server, convertToLeader(i) \/ raft_apply(i)
      PROVE  \E g : Step(h, a, g, b) /\ SafetyParts(g, b)'
  <2>1. PICK g : g = [h EXCEPT ![currentTerm[i]] = Append(log[i], currentTerm[i])]
    OBVIOUS
  <2>2. Past(g)' /\ GrowsTo(h, g)
    BY <1>1, <1>3, <2>1, LeaderPast
  <2>3. Step(h, a, g, b)
    BY <1>1, <1>2, <2>2 DEF Step
  <2>4. SafetyParts(g, b)'
    BY <1>3, <2>1, <2>3, convertToLeaderSafe, raft_applySafe
  <2> QED BY <2>3, <2>4
<1>4. ASSUME \A i \in Server : ~convertToLeader(i) /\ ~raft_apply(i)
      PROVE  Step(h, a, h, b) /\ SafetyParts(h, b)'
  <2>1. Past(h)'
    BY <1>1, <1>4, QuietPast
  <2>2. GrowsTo(h, h)
    BY <1>1, GrowsSame DEF Past, History
  <2>3. Step(h, a, h, b)
    BY <1>1, <1>2, <2>1, <2>2 DEF Step
  <2> QED BY <1>4, <2>3, NextQuietSafe
<1> QED BY <1>3, <1>4

LEMMA NextSafe ==
  /\ TypeInv /\ TypeInv' /\ Queues /\ Queues' /\ StoredInv /\ StoredInv'
  /\ SafetyInv /\ [Next]_vars /\ [StaleFirstLost]_vars
  => SafetyInv'
<1> SUFFICES ASSUME TypeInv, TypeInv', Queues, Queues', StoredInv, StoredInv',
                    SafetyInv, [Next]_vars, [StaleFirstLost]_vars
             PROVE  SafetyInv'
  OBVIOUS
<1>1. PICK h, a : SafetyParts(h, a)
  BY DEF SafetyInv
<1>2. PICK g, b : SafetyParts(g, b)'
  BY <1>1, NextParts
<1> QED BY <1>2 DEF SafetyInv

LEMMA StoredInvariant == Spec /\ []OneTruncation => []StoredInv
  BY InitStored, NextStored, TypeInvariant, QueuesInvariant, MatchInvariant, PTL DEF Spec

LEMMA SafetyInvariant == Spec /\ []OneTruncation /\ [][StaleFirstLost]_vars => []SafetyInv
  BY InitSafe, NextSafe, TypeInvariant, QueuesInvariant, StoredInvariant, PTL DEF Spec

-----------------------------------------------------------------------------
(* What the leader counts *)

\* What a leader counts is on the disk of the server, unless that has gone on to a
\* later term.
LEMMA CountedIsStored ==
  ASSUME TypeInv, Queues, StoredInv, NEW h, NEW a, SafetyParts(h, a),
         NEW i \in Server, NEW j \in Server, state[i] = "leader",
         currentTerm[j] <= currentTerm[i]
  PROVE  SameUpTo(log[i], disk[j], progress[i][j].match)
<1> DEFINE T == currentTerm[i]
           n == progress[i][j].match
           c == a[j][T]
<1>1. /\ log[i] \in Log /\ disk[j] \in Log /\ log[j] \in Log
      /\ Len(log[i]) \in Nat /\ Len(disk[j]) \in Nat /\ Len(log[j]) \in Nat
  BY LogFacts
<1>2. T \in Entry /\ T \in Nat /\ currentTerm[j] \in Nat
  BY TermFacts
<1>3. n \in Nat
  BY DEF TypeInv, TypeOK
<1>4. n <= c /\ c \in Nat
  BY <1>2 DEF SafetyParts, Counting, Confirming
<1>5. CASE n = 0
  BY <1>1, <1>5 DEF SameUpTo
<1>6. CASE n # 0
  <2>1. c > 0
    BY <1>3, <1>4, <1>6
  <2>2. T <= currentTerm[j]
    BY <1>2, <2>1 DEF SafetyParts, Confirming
  <2>3. T = currentTerm[j]
    BY <1>2, <2>2
  <2>4. Holds(h, j, T, c)
    BY <1>2, <2>3 DEF SafetyParts, Confirming
  <2>5. h[T] = log[i]
    BY DEF SafetyParts, Past, History
  <2>6. c <= lastStored[j] /\ SameUpTo(log[j], log[i], c)
    BY <2>4, <2>5 DEF Holds
  <2>7. SameUpTo(log[j], disk[j], lastStored[j]) /\ lastStored[j] \in Nat
    BY StoredFacts
  <2> HIDE DEF n, c
  <2>8. n \in Int /\ c \in Int /\ lastStored[j] \in Int /\ n <= lastStored[j]
    BY <1>3, <1>4, <2>6, <2>7
  <2>9. SameUpTo(log[i], log[j], n)
    BY <1>1, <1>4, <2>6, <2>8, SameLess
  <2>10. SameUpTo(log[j], disk[j], n)
    BY <1>1, <2>7, <2>8, SameLess
  <2>11. SameUpTo(log[i], disk[j], n)
    BY <2>8, <2>9, <2>10, SameTrans
  <2> QED BY <2>11 DEF n
<1> QED BY <1>5, <1>6

LEMMA SafetyCounts == TypeInv /\ Queues /\ StoredInv /\ SafetyInv => MatchIndexSound
<1> SUFFICES ASSUME TypeInv, Queues, StoredInv, SafetyInv,
                    NEW i \in Server, NEW j \in Server, state[i] = "leader",
                    currentTerm[j] <= currentTerm[i]
             PROVE  IsPrefix(SubSeq(log[i], 1, progress[i][j].match), disk[j])
  BY DEF MatchIndexSound
<1>1. PICK h, a : SafetyParts(h, a)
  BY DEF SafetyInv
<1>2. SameUpTo(log[i], disk[j], progress[i][j].match)
  BY <1>1, CountedIsStored
<1>3. log[i] \in Log /\ disk[j] \in Log
  BY LogFacts
<1>4. progress[i][j].match \in Nat
  BY DEF TypeInv, TypeOK
<1> QED BY <1>2, <1>3, <1>4, SameIsPrefix

\* What a leader counts in replicationQuorum is there: if it has a match_index for a
\* server, that server has those entries on disk, as long as it has not heard of a
\* later term; whatever crashes, fails, is lost or reordered, as long as no server
\* truncates its log again before an earlier truncation is done, and no answer to a
\* stale message that starts at the first entry is taken for a success.
THEOREM MatchIndexSafe ==
  Spec /\ []OneTruncation /\ [][StaleFirstLost]_vars => []MatchIndexSound
  BY SafetyCounts, TypeInvariant, QueuesInvariant, StoredInvariant, SafetyInvariant, PTL

-----------------------------------------------------------------------------
(* No server shuts down *)

\* The leaders of its term and of later ones have what is committed at a server.
LEMMA CommittedAgrees ==
  ASSUME TypeInv, Queues, StoredInv, NEW h, NEW a, SafetyParts(h, a), NEW i \in Server,
         NEW u \in Entry, currentTerm[i] <= u, NEW k \in 1..Len(log[i]), k <= commitIndex[i],
         k \in 1..Len(h[u])
  PROVE  log[i][k] = h[u][k]
<1> DEFINE l == log[i]
           x == h[u]
<1>1. /\ Past(h) /\ Confirming(h, a) /\ Complete(h, a) /\ Ordered(h) /\ TermsOf(i)
      /\ CommittedLog(h, a, l, k, currentTerm[i])
  BY DEF SafetyParts, Terms, Committing
<1>2. /\ l \in Log /\ Len(l) \in Nat /\ x \in Log /\ Len(x) \in Nat /\ u \in Nat
      /\ currentTerm[i] \in Nat /\ k \in Nat
  BY <1>1, PastFacts, LogFacts, TermFacts, EntryFacts
<1>3. x # << >>
  BY <1>2
<1>4. CASE k <= 1
  <2>1. k = 1
    BY <1>2, <1>4
  <2> QED BY <1>1, <1>3, <2>1 DEF Ordered, TermsOf
<1>5. ASSUME NEW t \in Entry, NEW n \in Nat, t <= currentTerm[i], k <= n,
             Committed(h, a, t, n), SameUpTo(l, h[t], k)
      PROVE  l[k] = x[k]
  <2>1. t <= u
    <3>1. t \in Nat
      BY EntryFacts
    <3> QED BY <1>2, <1>5, <3>1
  <2>2. SameUpTo(x, h[t], n)
    BY <1>1, <1>3, <1>5, <2>1, CommittedInLater
  <2>3. k \in 1..k /\ k \in 1..n
    BY <1>2, <1>5
  <2> QED BY <1>5, <2>2, <2>3 DEF SameUpTo
<1> QED BY <1>1, <1>4, <1>5 DEF CommittedLog

LEMMA SafetyNoConflict == TypeInv /\ Queues /\ StoredInv /\ SafetyInv => NeverShutdown
<1> SUFFICES ASSUME TypeInv, Queues, StoredInv, SafetyInv, NEW m \in msgs,
                    m.type = "AppendEntries", m.term >= currentTerm[m.to]
             PROVE  ~Conflicts(m.to, m)
  BY DEF NeverShutdown
<1> DEFINE i == m.to
           l == log[i]
           p == m.prev
           e == Len(m.entries)
<1>1. PICK h, a : SafetyParts(h, a)
  BY DEF SafetyInv
<1>2. /\ m \in AppendEntries /\ i \in Server /\ p \in Nat /\ m.entries \in Log
      /\ m.term \in Int
  BY DEF TypeInv, QueuesOK, AppendEntries, AppendEntriesResult, Term
<1>3. /\ m.term \in Entry /\ PartOf(m.entries, p, h[m.term])
      /\ m.prevTerm = TermAt(h[m.term], p) /\ p + e >= 1
  BY <1>1 DEF SafetyParts, Sending, FromLeader
<1>4. /\ l \in Log /\ Len(l) \in Nat /\ h[m.term] \in Log /\ Len(h[m.term]) \in Nat /\ e \in Nat
      /\ commitIndex[i] \in Nat /\ currentTerm[i] \in Nat
  BY <1>1, <1>2, <1>3, PastFacts, LogFacts, LogLen, TermFacts DEF SafetyParts
<1>5. currentTerm[i] <= m.term
  BY <1>2, <1>4
<1>6. ASSUME NEW k \in 1..Min({commitIndex[i], Len(l)}), k \in 1..Len(h[m.term])
      PROVE  l[k] = h[m.term][k] /\ k \in 1..Len(l)
  <2>1. k \in 1..Len(l) /\ k <= commitIndex[i]
    <3> DEFINE c == commitIndex[i]
               y == Len(l)
               z == Min({c, y})
    <3>1. c \in Nat /\ y \in Nat
      BY <1>4
    <3> HIDE DEF c, y
    <3>2. z \in Nat /\ z <= c /\ z <= y
      BY <3>1, MinOfTwo
    <3>3. k \in 1..z
      BY <1>6 DEF c, y, z
    <3> HIDE DEF z
    <3>4. k \in 1..y /\ k <= c
      BY <3>1, <3>2, <3>3
    <3> QED BY <3>4 DEF c, y
  <2> QED BY <1>1, <1>2, <1>3, <1>5, <1>6, <2>1, CommittedAgrees
<1>7. CASE Matches(i, m)
  <2> DEFINE n == Matching(l, p + 1, m.entries)
             f == FirstNew(i, m)
  <2> SUFFICES ASSUME f <= p + e, f \in 1..Min({commitIndex[i], Len(l)})
               PROVE  FALSE
    BY <1>7 DEF Conflicts
  <2>1. /\ n \in 0..e /\ n \in Nat
        /\ n < e => TermAt(l, p + 1 + n) # m.entries[n + 1]
    <3>1. p + 1 \in Nat \ {0} /\ m.entries \in Seq(Entry)
      BY <1>2, LogLen
    <3>2. /\ n \in 0..Len(m.entries)
          /\ n < Len(m.entries) => TermAt(l, p + 1 + n) # m.entries[n + 1]
      <4> HIDE DEF l, p
      <4> QED BY <3>1, MatchingFacts
    <3> QED BY <1>4, <3>2
  <2>2. f = p + n + 1
    BY DEF FirstNew
  <2> HIDE DEF n, f
  <2>3. p + 1 + n = f /\ n < e /\ p + (n + 1) = f /\ n + 1 \in 1..e
    <3> DEFINE q == p
               y == e
    <3>1. q \in Nat /\ y \in Nat /\ n \in Nat /\ f = q + n + 1 /\ f <= q + y
      BY <1>2, <1>4, <2>1, <2>2
    <3> HIDE DEF q, y
    <3>2. q + 1 + n = f /\ n < y /\ q + (n + 1) = f /\ n + 1 \in 1..y
      BY <3>1
    <3> QED BY <3>2 DEF q, y
  <2>4. m.entries[n + 1] = h[m.term][f] /\ f \in 1..Len(h[m.term])
    <3>1. m.entries[n + 1] = h[m.term][p + (n + 1)] /\ p + e <= Len(h[m.term])
      BY <1>3, <2>3 DEF PartOf
    <3>2. f \in 1..Len(h[m.term])
      BY <1>2, <1>4, <2>1, <2>2, <2>3, <3>1, SMTT(60)
    <3> QED BY <2>3, <3>1, <3>2
  <2>5. l[f] = h[m.term][f] /\ f \in 1..Len(l)
    BY <1>6, <2>4
  <2> QED BY <2>1, <2>3, <2>4, <2>5 DEF TermAt
<1>8. CASE ~Matches(i, m)
  <2> SUFFICES ASSUME p \in 1..Min({commitIndex[i], Len(l)}) PROVE FALSE
    BY <1>8 DEF Conflicts
  <2>1. p + e <= Len(h[m.term])
    BY <1>3 DEF PartOf
  <2>2. p \in 1..Len(h[m.term])
    <3>1. p >= 1
      BY <1>2
    <3> QED BY <1>2, <1>4, <2>1, <3>1
  <2>3. l[p] = h[m.term][p] /\ p \in 1..Len(l)
    BY <1>6, <2>2
  <2> QED BY <1>3, <1>8, <2>2, <2>3 DEF Matches, TermAt
<1> QED BY <1>7, <1>8

\* No message makes a server shut down because it contradicts an entry that is
\* committed there: checkLogMatchingProperty and deleteConflictingEntries never get
\* to the "Should never happen" branches, under the same two hypotheses.
THEOREM NeverShutdownSafe ==
  Spec /\ []OneTruncation /\ [][StaleFirstLost]_vars => []NeverShutdown
  BY SafetyNoConflict, TypeInvariant, QueuesInvariant, StoredInvariant, SafetyInvariant, PTL

-----------------------------------------------------------------------------
(* The servers apply one sequence of entries *)

\* Two logs whose entries are committed agree as far as the shorter one goes.
CommittedAgree ==
  \A h, a : Past(h) /\ Confirming(h, a) /\ Complete(h, a) =>
    \A x, y \in Log :
      /\ x[1] = y[1] /\ Len(x) <= Len(y)
      /\ CommittedLog(h, a, x, Len(x), Conf.maxTerm)
      /\ CommittedLog(h, a, y, Len(y), Conf.maxTerm)
      => SameUpTo(x, y, Len(x))

LEMMA CommittedSameAll == TypeInv => CommittedAgree
<1> SUFFICES ASSUME TypeInv, NEW h, NEW a, Past(h), Confirming(h, a), Complete(h, a),
                    NEW x \in Log, NEW y \in Log, x[1] = y[1], Len(x) <= Len(y),
                    CommittedLog(h, a, x, Len(x), Conf.maxTerm),
                    CommittedLog(h, a, y, Len(y), Conf.maxTerm)
             PROVE  SameUpTo(x, y, Len(x))
  BY DEF CommittedAgree
<1>1. Len(x) \in Nat /\ Len(y) \in Nat /\ Len(x) <= Len(x) /\ Len(y) <= Len(y)
  BY LogLen
<1> QED BY <1>1, CommittedSame

\* What two servers have applied after a step.
LEMMA CommittedSameNext ==
  ASSUME TypeInv', conf' = conf, NEW g, NEW b, Past(g)', Confirming(g, b)', Complete(g, b)',
         NEW u \in Log, NEW v \in Log, u[1] = v[1], Len(u) <= Len(v),
         CommittedLog(g, b, u, Len(u), Conf.maxTerm),
         CommittedLog(g, b, v, Len(v), Conf.maxTerm)
  PROVE  SameUpTo(u, v, Len(u))
<1>1. CommittedAgree'
  BY CommittedSameAll, PTL
<1>2. Log' = Log /\ Entry' = Entry /\ Conf' = Conf
  BY SetsKept
<1>3. ASSUME NEW z
      PROVE  CommittedLog(g, b, z, Len(z), Conf.maxTerm)
             <=> CommittedLog(g, b, z, Len(z), Conf.maxTerm)'
  BY <1>2 DEF CommittedLog, Committed
<1> QED BY <1>1, <1>2, <1>3 DEF CommittedAgree

LEMMA WholePrefix ==
  ASSUME NEW x \in Log, NEW d \in Log, SameUpTo(x, d, Len(x))
  PROVE  IsPrefix(x, d)
<1>1. x \in Seq(Entry) /\ Len(x) \in Nat
  BY LogLen
<1>2. SubSeq(x, 1, Len(x)) = x
  <2> HIDE DEF Entry
  <2> QED BY <1>1
<1> QED BY <1>1, <1>2, SameIsPrefix

\* Server i applies more entries.
Advances(i) ==
  /\ Len(applied[i]) < Len(applied'[i])
  /\ SameUpTo(applied[i], applied'[i], Len(applied[i]))
  /\ applied' = [applied EXCEPT ![i] = applied'[i]]
  /\ chosen' \in {chosen, applied'[i]}
  /\ Len(chosen') >= Len(chosen) /\ Len(chosen') >= Len(applied'[i])

\* Server i starts again from the first entry.
StartsAgain(i) == applied' = [applied EXCEPT ![i] = <<1>>] /\ chosen' = chosen

LEMMA ApplyAdvances ==
  ASSUME NEW h, NEW a, NEW g, NEW b, Step(h, a, g, b), NEW i \in Server,
         NEW c \in Nat, ApplyUpTo(i, log[i], c)
  PROVE  UNCHANGED <<applied, chosen>> \/ Advances(i)
<1> DEFINE p == applied[i]
           l == log[i]
           e == Min({c, Len(l)})
           s == SubSeq(l, Len(p) + 1, e)
           new == p \o s
<1>1. /\ applied' = [applied EXCEPT ![i] = new]
      /\ chosen' = IF Len(new) > Len(chosen) THEN new ELSE chosen
  BY DEF ApplyUpTo, Applied
<1>2. /\ p \in Log /\ Len(p) \in Nat /\ chosen \in Log /\ Len(chosen) \in Nat
      /\ Len(p) <= Len(chosen)
  BY AppliedFacts
<1>3. l \in Log /\ Len(l) \in Nat
  BY StepServer
<1>4. applied \in [Server -> Log]
  BY DEF Step, TypeInv, TypeOK
<1>5. e \in Int /\ e <= Len(l)
  BY <1>3, MinOfTwo
<1>6. s \in Seq(Entry) /\ p \in Seq(Entry) /\ Len(s) \in Nat
  <2>1. l \in Seq(Entry) /\ p \in Seq(Entry) /\ Len(p) + 1 \in Nat \ {0}
    BY <1>2, <1>3, LogLen
  <2>2. s \in Seq(Entry)
    <3> HIDE DEF e, l, p
    <3> QED BY <1>5, <2>1, SubSeqFacts
  <2> HIDE DEF s, Entry
  <2>3. Len(s) \in Nat
    BY <2>2
  <2> QED BY <2>1, <2>2, <2>3
<1> HIDE DEF s, e, l
<1>7. Len(new) = Len(p) + Len(s) /\ \A k \in 1..Len(p) : new[k] = p[k]
  <2> HIDE DEF p, Entry
  <2> QED BY <1>6
<1>8. s = << >> => new = p
  <2> HIDE DEF p, Entry
  <2> QED BY <1>6
<1> HIDE DEF new
<1>9. applied'[i] = new
  BY <1>1, <1>4
<1>10. CASE s = << >>
  <2>1. new = p
    BY <1>8, <1>10
  <2>2. applied' = applied
    BY <1>1, <1>4, <2>1
  <2>3. chosen' = chosen
    BY <1>1, <1>2, <2>1
  <2> QED BY <2>2, <2>3
<1>11. CASE s # << >>
  <2>1. Len(s) > 0
    BY <1>6, <1>11
  <2> HIDE DEF p
  <2>2. Len(p) < Len(new) /\ Len(new) \in Nat
    BY <1>2, <1>6, <1>7, <2>1
  <2>3. SameUpTo(p, new, Len(p))
    BY <1>2, <1>7, <2>2 DEF SameUpTo
  <2>4. /\ chosen' \in {chosen, new} /\ Len(chosen') >= Len(chosen)
        /\ Len(chosen') >= Len(new)
    BY <1>1, <1>2, <2>2
  <2> QED BY <1>1, <1>9, <2>2, <2>3, <2>4 DEF Advances, p
<1> QED BY <1>10, <1>11

\* What the servers have applied after a step.
AppliesStep ==
  UNCHANGED <<applied, chosen>> \/ \E i \in Server : Advances(i) \/ StartsAgain(i)

LEMMA FirstOnly ==
  ASSUME NEW l \in Log, 1 <= Len(l), l[1] = 1
  PROVE  SubSeq(l, 1, 1) = <<1>>
<1> DEFINE s == SubSeq(l, 1, 1)
<1>1. l \in Seq(Entry) /\ Len(l) \in Nat
  BY LogLen
<1> HIDE DEF Entry
<1>2. s \in Seq(Entry) /\ Len(s) = 1 /\ s[1] = 1
  BY <1>1
<1> HIDE DEF s
<1>3. s = <<1>>
  BY <1>2
<1> QED BY <1>3 DEF s

LEMMA raft_startApplies ==
  ASSUME NEW h, NEW a, NEW g, NEW b, Step(h, a, g, b), NEW i \in Server, raft_start(i)
  PROVE  StartsAgain(i)
<1> DEFINE d == disk[i]
<1>1. /\ TermsOf(i) /\ d \in Log /\ Len(d) \in Nat
      /\ lastStored[i] \in 1..Len(log[i]) /\ lastStored[i] \in Nat /\ Len(log[i]) \in Nat
      /\ SameUpTo(log[i], d, lastStored[i])
  BY StepTerms, StepServer
<1>2. d[1] = 1 /\ 1 <= Len(d)
  <2>1. 1 \in 1..lastStored[i]
    BY <1>1
  <2> QED BY <1>1, <2>1 DEF SameUpTo, TermsOf
<1>3. SubSeq(d, 1, 1) = <<1>>
  BY <1>1, <1>2, FirstOnly
<1> QED BY <1>3 DEF raft_start, StartsAgain

LEMMA WriteCompletesApplies ==
  ASSUME NEW h, NEW a, NEW g, NEW b, Step(h, a, g, b), NEW i \in Server, WriteCompletes(i)
  PROVE  AppliesStep
<1>1. PICK w : w = Head(writes[i])
  OBVIOUS
<1>2. w \in Write
  BY <1>1, CompletesFacts DEF Step
<1>3. TruncateCompletes(i, w) \/ appendLeaderCb(i, w) \/ appendFollowerCb(i, w)
  BY <1>1 DEF WriteCompletes
<1> DEFINE n == updateLastStored(i, w)
           stored == lastStored[i] + n
<1>4. TypeInv
  BY DEF Step
<1>5. CASE TruncateCompletes(i, w)
  BY <1>5 DEF TruncateCompletes, logVars, AppliesStep
<1>6. CASE appendLeaderCb(i, w) /\ state[i] # "leader"
  BY <1>6 DEF appendLeaderCb, AppliesStep
<1>7. CASE appendLeaderCb(i, w) /\ state[i] = "leader"
  <2> DEFINE prog == [progress[i] EXCEPT ![i].match = stored]
             c == LeaderCommit(i, log[i], prog, stored)
  <2>1. w.op = "leader" /\ ApplyUpTo(i, log[i], c)
    BY <1>7 DEF appendLeaderCb
  <2>2. stored \in Nat
    BY <1>2, <2>1, UpdateFacts
  <2> HIDE DEF stored, prog
  <2>3. c \in Nat
    BY <1>4, <2>2, LeaderCommitType
  <2> HIDE DEF c
  <2> QED BY <2>1, <2>3, ApplyAdvances DEF AppliesStep
<1>8. CASE appendFollowerCb(i, w)
  <2> DEFINE c == FollowerCommit(i, w.commit, stored)
  <2>1. w.op = "follower" /\ (UNCHANGED <<applied, chosen>> \/ ApplyUpTo(i, log[i], c))
    BY <1>8 DEF appendFollowerCb
  <2>2. stored \in Nat
    BY <1>2, <2>1, UpdateFacts
  <2>3. w.commit \in Nat
    BY <1>2, <2>1 DEF Write, FollowerWrite, LeaderWrite, TruncateWrite
  <2> HIDE DEF stored
  <2>4. c \in Nat
    BY <1>4, <2>2, <2>3, FollowerCommitType
  <2> HIDE DEF c
  <2> QED BY <2>1, <2>4, ApplyAdvances DEF AppliesStep
<1> QED BY <1>3, <1>5, <1>6, <1>7, <1>8

LEMMA recvAppendEntriesApplies ==
  ASSUME NEW h, NEW a, NEW g, NEW b, Step(h, a, g, b), NEW m \in msgs, recvAppendEntries(m)
  PROVE  AppliesStep
<1> DEFINE i == m.to
           c == FollowerCommit(i, m.commit, lastStored[i])
<1>1. /\ m.type = "AppendEntries"
      /\ UNCHANGED logVars \/ UNCHANGED <<applied, chosen>> \/ ApplyUpTo(i, log[i], c)
  <2> HIDE DEF i, c
  <2> QED BY recvAppendEntriesCases DEF i, c
<1>2. i \in Server /\ m.commit \in Nat
  BY <1>1, MessageFacts
<1>3. lastStored[i] \in Nat
  BY <1>2, StepServer
<1>4. c \in Nat
  BY <1>2, <1>3, FollowerCommitType DEF Step
<1> HIDE DEF i, c
<1> QED BY <1>1, <1>2, <1>4, ApplyAdvances DEF AppliesStep, logVars

LEMMA recvAppendEntriesResultApplies ==
  ASSUME NEW h, NEW a, NEW g, NEW b, Step(h, a, g, b), NEW m \in msgs,
         recvAppendEntriesResult(m)
  PROVE  AppliesStep
<1> DEFINE i == m.to
           j == m.from
           last == Min({m.last, Len(log[i])})
           q == progressMaybeUpdate(progress[i][j], last)
           prog == [progress[i] EXCEPT ![j] = q]
           c == LeaderCommit(i, log[i], prog, last)
<1>1. m.type = "AppendEntriesResult"
  BY DEF recvAppendEntriesResult
<1>2. UNCHANGED logVars \/ ApplyUpTo(i, log[i], c)
  BY DEF recvAppendEntriesResult
<1>3. m \in AppendEntriesResult
  BY <1>1 DEF Step, TypeInv, QueuesOK, MessagesOK, AppendEntries
<1>4. i \in Server /\ m.last \in Nat
  BY <1>3 DEF AppendEntriesResult
<1>5. Len(log[i]) \in Nat
  BY <1>4, StepServer
<1>6. last \in Nat
  BY <1>4, <1>5, MinOfTwo
<1> HIDE DEF i, last, prog
<1>7. c \in Nat
  BY <1>4, <1>6, LeaderCommitType DEF Step
<1> HIDE DEF c
<1> QED BY <1>2, <1>4, <1>7, ApplyAdvances DEF AppliesStep, logVars

LEMMA NextApplies ==
  ASSUME NEW h, NEW a, NEW g, NEW b, Step(h, a, g, b), [Next]_vars
  PROVE  AppliesStep
<1>1. CASE UNCHANGED vars
  BY <1>1 DEF vars, AppliesStep
<1>2. CASE Next
  <2>1. ASSUME NEW i \in Up, NEW j \in Up, recvRequestVote(j, i) PROVE AppliesStep
    BY <2>1 DEF recvRequestVote, logVars, AppliesStep
  <2>2. ASSUME NEW i \in Up, NEW j \in Server, replicationHeartbeat(i, j) PROVE AppliesStep
    BY <2>2 DEF replicationHeartbeat, logVars, AppliesStep
  <2>3. ASSUME NEW i \in Up, tick(i) \/ electionStart(i) \/ checkContactQuorum(i)
        PROVE  AppliesStep
    BY <2>3 DEF tick, electionStart, checkContactQuorum, logVars, AppliesStep
  <2>4. ASSUME NEW i \in Up, convertToLeader(i) \/ raft_apply(i) PROVE AppliesStep
    BY <2>4 DEF convertToLeader, raft_apply, Append1, AppliesStep
  <2>5. ASSUME NEW i \in Up, WriteFails(i) PROVE AppliesStep
    BY <2>5 DEF WriteFails, AppliesStep
  <2>6. ASSUME NEW i \in Up, WriteCompletes(i) \/ raft_start(i) PROVE AppliesStep
    BY <2>6, WriteCompletesApplies, raft_startApplies DEF Up, AppliesStep
  <2>7. ASSUME NEW m \in msgs, recvAppendEntries(m) \/ recvAppendEntriesResult(m)
        PROVE  AppliesStep
    BY <2>7, recvAppendEntriesApplies, recvAppendEntriesResultApplies
  <2>8. ASSUME NEW m \in msgs, SendFails(m) \/ Lose(m) PROVE AppliesStep
    BY <2>8 DEF SendFails, Lose, logVars, AppliesStep
  <2> QED BY <1>2, <2>1, <2>2, <2>3, <2>4, <2>5, <2>6, <2>7, <2>8 DEF Next
<1> QED BY <1>1, <1>2

\* A server that advances does what the abstract specification lets it do: what it
\* has applied and what has ever been applied are parts of one sequence.
LEMMA AdvancesApply ==
  ASSUME NEW h, NEW a, NEW g, NEW b, Step(h, a, g, b), SafetyParts(g, b)',
         NEW i \in Server, Advances(i)
  PROVE  Abstract!Apply(i)
<1> DEFINE p == applied[i]
           q == applied'[i]
<1>1. /\ p \in Log /\ Len(p) \in Nat /\ chosen \in Log /\ Len(chosen) \in Nat
      /\ chosen[1] = 1 /\ CommittedLog(h, a, chosen, Len(chosen), Conf.maxTerm)
      /\ Conf.maxTerm \in Int
  BY AppliedFacts
<1>2. Log' = Log /\ Entry' = Entry /\ Conf' = Conf /\ conf' = conf
  BY SetsKept DEF Step
<1>3. q \in Log /\ chosen' \in Log
  <2>1. applied' \in [Server -> Log'] /\ chosen' \in Log'
    BY DEF Step, TypeInv, TypeOK
  <2> QED BY <1>2, <2>1
<1>4. /\ q[1] = 1 /\ chosen'[1] = 1
      /\ CommittedLog(g, b, q, Len(q), Conf.maxTerm)
      /\ CommittedLog(g, b, chosen', Len(chosen'), Conf.maxTerm)
  <2>1. Applying(g, b)'
    BY DEF SafetyParts
  <2> QED BY <1>2, <2>1 DEF Applying, CommittedLog, Committed
<1>5. CommittedLog(g, b, chosen, Len(chosen), Conf.maxTerm)
  <2>1. SameUpTo(chosen, chosen, Len(chosen))
    BY <1>1 DEF SameUpTo
  <2>2. Conf.maxTerm <= Conf.maxTerm
    BY <1>1
  <2> QED BY <1>1, <2>1, <2>2, CommittedLogStep
<1>6. TypeInv' /\ Past(g)' /\ Confirming(g, b)' /\ Complete(g, b)'
  BY DEF Step, SafetyParts
<1>7. /\ Len(p) < Len(q) /\ SameUpTo(p, q, Len(p))
      /\ applied' = [applied EXCEPT ![i] = applied'[i]]
      /\ chosen' \in {chosen, applied'[i]}
      /\ Len(chosen) <= Len(chosen') /\ Len(q) <= Len(chosen')
  <2>1. Len(chosen') \in Nat /\ Len(q) \in Nat
    BY <1>3, LogLen
  <2> QED BY <1>1, <2>1 DEF Advances
<1>8. PICK c : c = chosen'
  OBVIOUS
<1> HIDE DEF p, q
<1>9. IsPrefix(chosen, c)
  <2>1. SameUpTo(chosen, c, Len(chosen))
    BY <1>1, <1>2, <1>3, <1>4, <1>5, <1>6, <1>7, <1>8, CommittedSameNext
  <2> QED BY <1>1, <1>3, <1>8, <2>1, WholePrefix
<1>10. IsPrefix(q, c)
  <2>1. SameUpTo(q, c, Len(q))
    BY <1>2, <1>3, <1>4, <1>6, <1>7, <1>8, CommittedSameNext
  <2> QED BY <1>3, <1>8, <2>1, WholePrefix
<1>11. IsStrictPrefix(p, q)
  <2>1. IsPrefix(p, q)
    BY <1>1, <1>3, <1>7, WholePrefix
  <2>2. p # q
    BY <1>1, <1>7
  <2> QED BY <2>1, <2>2 DEF IsStrictPrefix
<1> QED BY <1>7, <1>8, <1>9, <1>10, <1>11 DEF Abstract!Apply, Abstract!IsPrefix,
        Abstract!IsStrictPrefix, IsPrefix, IsStrictPrefix, p, q

\* The first entries that the servers apply at the start.
LEMMA InitAbstract == Init => Abstract!Init
<1> SUFFICES ASSUME Init PROVE Abstract!Init
  OBVIOUS
<1>1. conf \in DOMAIN Configurations /\ TypeInv /\ Restartable(Conf)
  BY InitType, ConfFacts DEF Init
<1>2. /\ applied = [i \in Server |-> SubSeq(Conf.log[i], 1, 1)] /\ chosen = <<1>>
      /\ log = Conf.log
  BY DEF Init
<1>3. ASSUME NEW i \in Server PROVE SubSeq(Conf.log[i], 1, 1) = <<1>>
  <2>1. log[i] \in Log /\ Len(log[i]) \in Nat
    BY <1>1, LogFacts
  <2>2. log[i] # << >> /\ log[i][1] = 1
    BY <1>1, <1>2 DEF Restartable
  <2>3. 1 <= Len(log[i])
    BY <2>1, <2>2, LogLen
  <2> QED BY <1>2, <2>1, <2>2, <2>3, FirstOnly
<1>4. applied = [i \in Server |-> <<1>>]
  BY <1>2, <1>3
<1> QED BY <1>2, <1>4 DEF Abstract!Init

\* A step of the servers is one of the abstract specification, or none.
LEMMA NextAbstract ==
  /\ TypeInv /\ TypeInv' /\ Queues /\ Queues' /\ StoredInv /\ StoredInv'
  /\ SafetyInv /\ [Next]_vars /\ [StaleFirstLost]_vars
  => [Abstract!Next]_(Abstract!vars)
<1> SUFFICES ASSUME TypeInv, TypeInv', Queues, Queues', StoredInv, StoredInv',
                    SafetyInv, [Next]_vars, [StaleFirstLost]_vars
             PROVE  [Abstract!Next]_(Abstract!vars)
  OBVIOUS
<1>1. PICK h, a : SafetyParts(h, a)
  BY DEF SafetyInv
<1>2. PICK g, b : Step(h, a, g, b) /\ SafetyParts(g, b)'
  BY <1>1, NextParts
<1>3. AppliesStep
  BY <1>2, NextApplies
<1>4. CASE UNCHANGED <<applied, chosen>>
  BY <1>4 DEF Abstract!vars
<1>5. ASSUME NEW i \in Server, Advances(i) PROVE Abstract!Next
  <2>1. Abstract!Apply(i)
    BY <1>2, <1>5, AdvancesApply
  <2> QED BY <2>1 DEF Abstract!Next
<1>6. ASSUME NEW i \in Server, StartsAgain(i) PROVE Abstract!Next
  <2>1. Abstract!Restart(i)
    BY <1>6 DEF StartsAgain, Abstract!Restart
  <2> QED BY <2>1 DEF Abstract!Next
<1> QED BY <1>3, <1>4, <1>5, <1>6 DEF AppliesStep

\* The promise to the state machines: there is one sequence of entries, every server
\* applies its entries in order and none out of it, and a server that restarts applies
\* them again from the first (replicationApply, raft_start), for every number of
\* servers and whatever crashes, fails, is lost or reordered, under the hypotheses of
\* MatchIndexSafe.
THEOREM ReplicatedLogImplemented ==
  Spec /\ []OneTruncation /\ [][StaleFirstLost]_vars => AppliesReplicatedLog
  BY InitAbstract, NextAbstract, TypeInvariant, QueuesInvariant, StoredInvariant,
     SafetyInvariant, PTL DEF Spec, AppliesReplicatedLog, Abstract!Spec

==============================================================================
