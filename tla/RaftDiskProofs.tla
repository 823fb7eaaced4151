---------------------------- MODULE RaftDiskProofs ----------------------------
(***************************************************************************)
(* The disk of a server of RaftReplication: what a queue of writes and      *)
(* truncations makes of the segments, whatever completes, fails or is lost. *)
(***************************************************************************)
EXTENDS RaftReplicationTypes

(* Replay *)

LEMMA OnDiskFacts ==
  ASSUME NEW d \in Log, NEW w \in Write
  PROVE  LET r == OnDisk(d, w)
         IN  /\ r \in Log /\ Len(r) \in Nat /\ Len(d) \in Nat
             /\ w.op = "truncate" =>
                  /\ w.index \in WriteIndex
                  /\ Len(r) = IF w.index - 1 <= Len(d) THEN w.index - 1 ELSE Len(d)
                  /\ \A k \in 1..Len(r) : r[k] = d[k]
             /\ w.op # "truncate" =>
                  /\ w.index \in WriteIndex /\ w.entries \in Log /\ Len(w.entries) \in Nat
                  /\ Len(r) = Len(d) + Len(w.entries)
                  /\ \A k \in 1..Len(d) : r[k] = d[k]
                  /\ \A k \in 1..Len(w.entries) : r[Len(d) + k] = w.entries[k]
<1> DEFINE r == OnDisk(d, w)
<1>1. r \in Log /\ Len(r) \in Nat /\ d \in Seq(Entry) /\ Len(d) \in Nat
  BY OnDiskType DEF Log
<1>2. CASE w.op = "truncate"
  <2>1. w.index \in WriteIndex /\ w.index \in Nat \ {0}
    BY <1>2 DEF Write, WriteIndex, LeaderWrite, FollowerWrite, TruncateWrite
  <2>2. r = Truncate(d, w.index)
    BY <1>2 DEF OnDisk
  <2> HIDE DEF r
  <2>3. /\ Len(r) = IF w.index - 1 <= Len(d) THEN w.index - 1 ELSE Len(d)
        /\ \A k \in 1..Len(r) : r[k] = d[k]
    BY <1>1, <2>1, <2>2, TruncateFacts
  <2> QED BY <1>1, <1>2, <2>1, <2>3 DEF r
<1>3. CASE w.op # "truncate"
  <2>1. w.index \in WriteIndex /\ w.entries \in Seq(Entry) /\ Len(w.entries) \in Nat
    BY <1>3 DEF Write, WriteIndex, LeaderWrite, FollowerWrite, TruncateWrite, Log
  <2>2. r = d \o w.entries
    BY <1>3 DEF OnDisk
  <2> HIDE DEF r
  <2>3. /\ Len(r) = Len(d) + Len(w.entries)
        /\ \A k \in 1..Len(d) : r[k] = d[k]
        /\ \A k \in 1..Len(w.entries) : r[Len(d) + k] = w.entries[k]
    BY <1>1, <2>1, <2>2
  <2> QED BY <1>1, <1>3, <2>1, <2>3 DEF r, Log
<1> QED BY <1>2, <1>3

LEMMA ReplayDef ==
  ASSUME NEW d, NEW ws \in Seq(Write)
  PROVE  LET r == Replay(d, ws)
         IN  r = [n \in 0..Len(ws) |-> IF n = 0 THEN d ELSE OnDisk(r[n - 1], ws[n])]
<1> DEFINE Rec(b, r) == r = [n \in 0..b |-> IF n = 0 THEN d ELSE OnDisk(r[n - 1], ws[n])]
           S == {b \in Nat : \E r : Rec(b, r)}
<1>1. 0 \in S
  <2>1. Rec(0, [n \in 0..0 |-> d])
    OBVIOUS
  <2> QED BY <2>1
<1>2. ASSUME NEW b \in Nat, b \in S PROVE b + 1 \in S
  <2>1. PICK r : Rec(b, r)
    BY <1>2
  <2> DEFINE e == OnDisk(r[b], ws[b + 1])
             u == [n \in 0..b + 1 |-> IF n = b + 1 THEN e ELSE r[n]]
  <2>2. \A n \in 0..b : u[n] = r[n] /\ n # b + 1
    OBVIOUS
  <2>3. u[b + 1] = e
    OBVIOUS
  <2>4. ASSUME NEW n \in 0..b + 1
        PROVE  u[n] = IF n = 0 THEN d ELSE OnDisk(u[n - 1], ws[n])
    <3>1. CASE n = 0
      BY <2>1, <2>2, <3>1
    <3>2. CASE n \in 1..b
      <4>1. n \in 0..b /\ n - 1 \in 0..b /\ n # 0
        BY <3>2
      <4>2. u[n] = r[n] /\ u[n - 1] = r[n - 1]
        BY <2>2, <4>1
      <4> HIDE DEF u
      <4> QED BY <2>1, <4>1, <4>2
    <3>3. CASE n = b + 1
      <4>1. u[n] = e /\ u[n - 1] = r[b] /\ n # 0
        BY <2>2, <2>3, <3>3
      <4> HIDE DEF u
      <4> QED BY <3>3, <4>1
    <3> QED BY <3>1, <3>2, <3>3
  <2>5. DOMAIN u = 0..b + 1 /\ u = [n \in 0..b + 1 |-> u[n]]
    OBVIOUS
  <2> HIDE DEF u
  <2>6. Rec(b + 1, u)
    BY <2>4, <2>5
  <2> HIDE DEF Rec
  <2> QED BY <2>6
<1>3. Len(ws) \in Nat
  OBVIOUS
<1>4. Len(ws) \in S
  <2> HIDE DEF S
  <2>1. \A n \in 0..Len(ws) - 1 : n \in S => n + 1 \in S
    BY <1>2
  <2>2. 0..Len(ws) \subseteq S
    BY <1>1, <1>3, <2>1, InductionUpTo
  <2> QED BY <1>3, <2>2
<1>5. Replay(d, ws) = CHOOSE r : Rec(Len(ws), r)
  BY DEF Replay
<1>6. Rec(Len(ws), Replay(d, ws))
  <2>1. \E r : Rec(Len(ws), r)
    BY <1>4
  <2> HIDE DEF Rec
  <2> QED BY <1>5, <2>1
<1> QED BY <1>6

LEMMA ReplayStep ==
  ASSUME NEW d \in Log, NEW ws \in Seq(Write)
  PROVE  /\ Replay(d, ws)[0] = d
         /\ \A n \in 1..Len(ws) : Replay(d, ws)[n] = OnDisk(Replay(d, ws)[n - 1], ws[n])
         /\ \A n \in 0..Len(ws) : Replay(d, ws)[n] \in Log
<1> DEFINE r == Replay(d, ws)
           S == {n \in Nat : r[n] \in Log}
<1>1. r = [n \in 0..Len(ws) |-> IF n = 0 THEN d ELSE OnDisk(r[n - 1], ws[n])]
  BY ReplayDef
<1> HIDE DEF r
<1>2. \A n \in 0..Len(ws) : r[n] = IF n = 0 THEN d ELSE OnDisk(r[n - 1], ws[n])
  BY <1>1, Zenon
<1>3. r[0] = d /\ \A n \in 1..Len(ws) : r[n] = OnDisk(r[n - 1], ws[n])
  BY <1>2
<1>4. 0 \in S
  BY <1>3
<1>5. ASSUME NEW n \in 0..Len(ws) - 1, n \in S PROVE n + 1 \in S
  <2>1. n + 1 \in 1..Len(ws) /\ n + 1 - 1 = n /\ n + 1 \in Nat /\ ws[n + 1] \in Write
    OBVIOUS
  <2>2. r[n + 1] = OnDisk(r[n], ws[n + 1])
    BY <1>3, <2>1
  <2>3. r[n + 1] \in Log
    BY <1>5, <2>1, <2>2, OnDiskType
  <2> QED BY <2>1, <2>3
<1>6. 0..Len(ws) \subseteq S
  <2> HIDE DEF S
  <2>1. Len(ws) \in Nat
    OBVIOUS
  <2> QED BY <1>4, <1>5, <2>1, InductionUpTo
<1> QED BY <1>3, <1>6 DEF r

\* Operations that are queued later do not change what the earlier ones make.
LEMMA ReplayPrefix ==
  ASSUME NEW d \in Log, NEW ws \in Seq(Write), NEW vs \in Seq(Write),
         NEW b \in Nat, b <= Len(ws), b <= Len(vs), \A k \in 1..b : ws[k] = vs[k]
  PROVE  \A n \in 0..b : Replay(d, ws)[n] = Replay(d, vs)[n]
<1> DEFINE r == Replay(d, ws)
           q == Replay(d, vs)
           S == {n \in Nat : r[n] = q[n]}
<1>1. r[0] = d /\ \A n \in 1..Len(ws) : r[n] = OnDisk(r[n - 1], ws[n])
  BY ReplayStep
<1>2. q[0] = d /\ \A n \in 1..Len(vs) : q[n] = OnDisk(q[n - 1], vs[n])
  BY ReplayStep
<1> HIDE DEF r, q
<1>3. 0 \in S
  BY <1>1, <1>2
<1>4. ASSUME NEW n \in 0..b - 1, n \in S PROVE n + 1 \in S
  <2>1. /\ n + 1 \in 1..Len(ws) /\ n + 1 \in 1..Len(vs) /\ n + 1 - 1 = n /\ n + 1 \in Nat
        /\ ws[n + 1] = vs[n + 1]
    OBVIOUS
  <2>2. r[n + 1] = OnDisk(r[n], ws[n + 1]) /\ q[n + 1] = OnDisk(q[n], vs[n + 1])
    BY <1>1, <1>2, <2>1
  <2>3. r[n + 1] = q[n + 1]
    BY <1>4, <2>1, <2>2
  <2> QED BY <2>1, <2>3
<1>5. 0..b \subseteq S
  <2> HIDE DEF S
  <2> QED BY <1>3, <1>4, InductionUpTo
<1> QED BY <1>5 DEF r, q

\* When the first operation is done, the others go on from what it made.
LEMMA ReplayTail ==
  ASSUME NEW d \in Log, NEW ws \in Seq(Write), ws # << >>
  PROVE  /\ OnDisk(d, Head(ws)) \in Log /\ Tail(ws) \in Seq(Write)
         /\ \A n \in 0..Len(ws) - 1 :
              Replay(OnDisk(d, Head(ws)), Tail(ws))[n] = Replay(d, ws)[n + 1]
<1> DEFINE e == OnDisk(d, Head(ws))
           vs == Tail(ws)
           r == Replay(d, ws)
           q == Replay(e, vs)
           S == {n \in Nat : q[n] = r[n + 1]}
<1>1. /\ vs \in Seq(Write) /\ Len(vs) = Len(ws) - 1 /\ Len(ws) \in Nat \ {0}
      /\ Head(ws) = ws[1] /\ ws[1] \in Write
      /\ \A k \in 1..Len(ws) - 1 : vs[k] = ws[k + 1]
  OBVIOUS
<1>2. e \in Log
  BY <1>1, OnDiskType
<1> HIDE DEF vs
<1>3. r[0] = d /\ \A n \in 1..Len(ws) : r[n] = OnDisk(r[n - 1], ws[n])
  BY ReplayStep
<1>4. r[1] = e
  BY <1>1, <1>3
<1> HIDE DEF e
<1>5. q[0] = e /\ \A n \in 1..Len(vs) : q[n] = OnDisk(q[n - 1], vs[n])
  BY <1>1, <1>2, ReplayStep
<1> HIDE DEF r, q
<1>6. 0 \in S
  BY <1>4, <1>5
<1>7. ASSUME NEW n \in 0..(Len(ws) - 1) - 1, n \in S PROVE n + 1 \in S
  <2>1. /\ n + 1 \in 1..Len(vs) /\ n + 1 - 1 = n /\ n + 1 \in Nat /\ vs[n + 1] = ws[n + 2]
        /\ n + 2 \in 1..Len(ws) /\ n + 2 - 1 = n + 1 /\ n + 1 + 1 = n + 2
    BY <1>1
  <2>2. q[n + 1] = OnDisk(q[n], vs[n + 1]) /\ r[n + 2] = OnDisk(r[n + 1], ws[n + 2])
    BY <1>3, <1>5, <2>1
  <2>3. q[n + 1] = r[n + 1 + 1]
    BY <1>7, <2>1, <2>2
  <2> QED BY <2>1, <2>3
<1>8. 0..Len(ws) - 1 \subseteq S
  <2> HIDE DEF S
  <2>1. Len(ws) - 1 \in Nat
    BY <1>1
  <2> QED BY <1>6, <1>7, <2>1, InductionUpTo
<1> QED BY <1>1, <1>2, <1>8 DEF e, vs, q, r

\* Two logs have the same first c entries.
SameUpTo(a, b, c) == c <= Len(a) /\ c <= Len(b) /\ \A k \in 1..c : a[k] = b[k]

\* What lies below all truncations stays as it is.
LEMMA ReplayFloor ==
  ASSUME NEW d \in Log, NEW ws \in Seq(Write), NEW a \in 0..Len(ws), NEW b \in a..Len(ws),
         NEW c \in Nat, c <= Len(Replay(d, ws)[a]),
         \A k \in a + 1..b : ws[k].op = "truncate" => c < ws[k].index
  PROVE  SameUpTo(Replay(d, ws)[b], Replay(d, ws)[a], c)
<1> DEFINE r == Replay(d, ws)
           S == {n \in Nat : SameUpTo(r[a + n], r[a], c)}
<1>1. /\ \A n \in 1..Len(ws) : r[n] = OnDisk(r[n - 1], ws[n])
      /\ \A n \in 0..Len(ws) : r[n] \in Log
  BY ReplayStep
<1>a. c <= Len(r[a])
  OBVIOUS
<1> HIDE DEF r
<1>2. 0 \in S
  <2>1. a + 0 = a
    OBVIOUS
  <2> QED BY <1>a, <2>1 DEF SameUpTo
<1>3. ASSUME NEW n \in 0..(b - a) - 1, n \in S PROVE n + 1 \in S
  <2> DEFINE k == a + n + 1
             x == r[a + n]
             y == r[k]
             w == ws[k]
  <2>1. /\ k \in 1..Len(ws) /\ k - 1 = a + n /\ k \in a + 1..b /\ n + 1 \in Nat
        /\ a + (n + 1) = k /\ w \in Write /\ a + n \in 0..Len(ws)
    BY SMTT(60)
  <2>2. y = OnDisk(x, w) /\ x \in Log
    BY <1>1, <2>1
  <2>3. SameUpTo(x, r[a], c)
    BY <1>3
  <2> HIDE DEF x, y, w
  <2>4. Len(x) \in Nat /\ Len(y) \in Nat
    BY <2>1, <2>2, OnDiskFacts
  <2>5. c <= Len(y) /\ \A j \in 1..c : y[j] = x[j]
    <3>1. CASE w.op = "truncate"
      <4>1. /\ w.index \in WriteIndex
            /\ Len(y) = IF w.index - 1 <= Len(x) THEN w.index - 1 ELSE Len(x)
            /\ \A j \in 1..Len(y) : y[j] = x[j]
        BY <2>1, <2>2, <3>1, OnDiskFacts
      <4>2. c < w.index /\ c <= Len(x)
        BY <2>1, <2>3, <3>1 DEF w, SameUpTo
      <4>3. c <= Len(y)
        BY <2>4, <4>1, <4>2 DEF WriteIndex
      <4> QED BY <2>4, <4>1, <4>3
    <3>2. CASE w.op # "truncate"
      <4>1. /\ Len(w.entries) \in Nat /\ Len(y) = Len(x) + Len(w.entries)
            /\ \A j \in 1..Len(x) : y[j] = x[j]
        BY <2>1, <2>2, <3>2, OnDiskFacts
      <4>2. c <= Len(x)
        BY <2>3 DEF SameUpTo
      <4> QED BY <2>4, <4>1, <4>2, SMTT(60)
    <3> QED BY <3>1, <3>2
  <2>6. SameUpTo(y, r[a], c)
    BY <2>3, <2>5 DEF SameUpTo
  <2> QED BY <2>1, <2>6 DEF y
<1>4. 0..b - a \subseteq S
  <2> HIDE DEF S
  <2>1. b - a \in Nat
    OBVIOUS
  <2> QED BY <1>2, <1>3, <2>1, InductionUpTo
<1>5. b - a \in S /\ a + (b - a) = b
  BY <1>4
<1>6. SameUpTo(r[b], r[a], c)
  BY <1>5
<1> QED BY <1>6 DEF r

(* The queue of a server with the log l in memory and d on disk.  Entries are
   written behind what is there by then, and a truncation is followed by the
   write of the entries that made it necessary, unless that write has failed and
   nothing but truncations is left before it. *)

QueueEndsInLog(d, ws, l) == Replay(d, ws)[Len(ws)] = l

AppendsAtEnd(d, ws) ==
  \A k \in 1..Len(ws) :
    ws[k].op # "truncate" => ws[k].index = Len(Replay(d, ws)[k - 1]) + 1

TruncationsPaired(ws) ==
  \A k \in 1..Len(ws) :
    ws[k].op = "truncate" =>
      \/ \A j \in 1..k - 1 : ws[j].op = "truncate"
      \/ /\ k < Len(ws) /\ ws[k + 1].op # "truncate"
         /\ ws[k + 1].index <= ws[k].index

Queue(d, ws, l) ==
  QueueEndsInLog(d, ws, l) /\ AppendsAtEnd(d, ws) /\ TruncationsPaired(ws)

LEMMA QueueEmpty ==
  ASSUME NEW d \in Log
  PROVE  Queue(d, << >>, d)
<1>1. << >> \in Seq(Write) /\ Len(<< >>) = 0
  OBVIOUS
<1>2. Replay(d, << >>)[0] = d
  BY <1>1, ReplayStep
<1> QED BY <1>1, <1>2 DEF Queue, QueueEndsInLog, AppendsAtEnd, TruncationsPaired

LEMMA QueueAppend ==
  ASSUME NEW d \in Log, NEW ws \in Seq(Write), NEW l \in Log, Queue(d, ws, l),
         NEW w \in Write, w.op # "truncate", w.index = Len(l) + 1
  PROVE  Queue(d, Append(ws, w), l \o w.entries)
<1> DEFINE vs == Append(ws, w)
           n == Len(ws)
<1>1. /\ vs \in Seq(Write) /\ Len(vs) = n + 1 /\ n \in Nat /\ vs[n + 1] = w
      /\ \A k \in 1..n : vs[k] = ws[k]
  OBVIOUS
<1> HIDE DEF vs
<1>2. \A k \in 0..n : Replay(d, vs)[k] = Replay(d, ws)[k]
  <2>1. n <= Len(ws) /\ n <= Len(vs) /\ \A k \in 1..n : vs[k] = ws[k]
    BY <1>1
  <2> QED BY <1>1, <2>1, ReplayPrefix
<1> HIDE DEF n
<1>3. Replay(d, vs)[n] = l
  BY <1>1, <1>2 DEF n, Queue, QueueEndsInLog
<1>4. Replay(d, vs)[n + 1] = l \o w.entries
  <2>1. n + 1 \in 1..Len(vs) /\ n + 1 - 1 = n
    BY <1>1
  <2>2. Replay(d, vs)[n + 1] = OnDisk(Replay(d, vs)[n], vs[n + 1])
    BY <1>1, <2>1, ReplayStep
  <2> QED BY <1>1, <1>3, <2>2 DEF OnDisk
<1>5. AppendsAtEnd(d, vs)
  <2> SUFFICES ASSUME NEW k \in 1..Len(vs), vs[k].op # "truncate"
               PROVE  vs[k].index = Len(Replay(d, vs)[k - 1]) + 1
    BY DEF AppendsAtEnd
  <2>1. CASE k = n + 1
    BY <1>1, <1>3, <2>1
  <2>2. CASE k \in 1..n
    <3>1. vs[k] = ws[k] /\ k - 1 \in 0..n /\ k \in 1..Len(ws)
      BY <1>1, <2>2 DEF n
    <3>2. Replay(d, vs)[k - 1] = Replay(d, ws)[k - 1]
      BY <1>2, <3>1
    <3> QED BY <3>1, <3>2 DEF Queue, AppendsAtEnd
  <2> QED BY <1>1, <2>1, <2>2
<1>6. TruncationsPaired(vs)
  <2> SUFFICES ASSUME NEW k \in 1..Len(vs), vs[k].op = "truncate"
               PROVE  \/ \A j \in 1..k - 1 : vs[j].op = "truncate"
                      \/ /\ k < Len(vs) /\ vs[k + 1].op # "truncate"
                         /\ vs[k + 1].index <= vs[k].index
    BY DEF TruncationsPaired
  <2>1. k # n + 1
    BY <1>1
  <2>2. k \in 1..n
    BY <1>1, <2>1
  <2>3. ws[k].op = "truncate" /\ k \in 1..Len(ws)
    BY <1>1, <2>2 DEF n
  <2>4. CASE \A j \in 1..k - 1 : ws[j].op = "truncate"
    BY <1>1, <2>2, <2>4
  <2>5. CASE k < Len(ws) /\ ws[k + 1].op # "truncate" /\ ws[k + 1].index <= ws[k].index
    <3>1. k + 1 \in 1..n /\ k \in 1..n
      BY <1>1, <2>2, <2>5 DEF n
    <3>2. vs[k + 1] = ws[k + 1] /\ vs[k] = ws[k] /\ k < Len(vs)
      BY <1>1, <3>1
    <3> QED BY <2>5, <3>2
  <2> QED BY <2>3, <2>4, <2>5 DEF Queue, TruncationsPaired
<1> QED BY <1>1, <1>4, <1>5, <1>6 DEF Queue, QueueEndsInLog, vs

LEMMA QueueTail ==
  ASSUME NEW d \in Log, NEW ws \in Seq(Write), NEW l, Queue(d, ws, l), ws # << >>
  PROVE  Queue(OnDisk(d, Head(ws)), Tail(ws), l)
<1> DEFINE vs == Tail(ws)
           e == OnDisk(d, Head(ws))
<1>1. /\ vs \in Seq(Write) /\ Len(vs) = Len(ws) - 1 /\ Len(ws) \in Nat \ {0}
      /\ \A k \in 1..Len(ws) - 1 : vs[k] = ws[k + 1]
  OBVIOUS
<1>2. \A n \in 0..Len(ws) - 1 : Replay(e, vs)[n] = Replay(d, ws)[n + 1]
  BY ReplayTail
<1> HIDE DEF vs, e
<1>3. QueueEndsInLog(e, vs, l)
  <2>1. Len(ws) - 1 \in 0..Len(ws) - 1 /\ Len(ws) - 1 + 1 = Len(ws)
    BY <1>1
  <2> QED BY <1>1, <1>2, <2>1 DEF Queue, QueueEndsInLog
<1>4. AppendsAtEnd(e, vs)
  <2> SUFFICES ASSUME NEW k \in 1..Len(vs), vs[k].op # "truncate"
               PROVE  vs[k].index = Len(Replay(e, vs)[k - 1]) + 1
    BY DEF AppendsAtEnd
  <2>1. /\ vs[k] = ws[k + 1] /\ k + 1 \in 1..Len(ws) /\ k - 1 \in 0..Len(ws) - 1
        /\ k + 1 - 1 = k /\ k - 1 + 1 = k
    BY <1>1
  <2>2. Replay(e, vs)[k - 1] = Replay(d, ws)[k]
    BY <1>2, <2>1
  <2>3. ws[k + 1].index = Len(Replay(d, ws)[k + 1 - 1]) + 1
    BY <2>1 DEF Queue, AppendsAtEnd
  <2> QED BY <2>1, <2>2, <2>3
<1>5. TruncationsPaired(vs)
  <2> SUFFICES ASSUME NEW k \in 1..Len(vs), vs[k].op = "truncate"
               PROVE  \/ \A j \in 1..k - 1 : vs[j].op = "truncate"
                      \/ /\ k < Len(vs) /\ vs[k + 1].op # "truncate"
                         /\ vs[k + 1].index <= vs[k].index
    BY DEF TruncationsPaired
  <2>1. vs[k] = ws[k + 1] /\ k + 1 \in 1..Len(ws)
    BY <1>1
  <2>2. CASE \A j \in 1..(k + 1) - 1 : ws[j].op = "truncate"
    <3>1. ASSUME NEW j \in 1..k - 1 PROVE vs[j].op = "truncate"
      <4>1. vs[j] = ws[j + 1] /\ j + 1 \in 1..(k + 1) - 1
        BY <1>1
      <4> QED BY <2>2, <4>1
    <3> QED BY <3>1
  <2>3. CASE /\ k + 1 < Len(ws) /\ ws[k + 1 + 1].op # "truncate"
             /\ ws[k + 1 + 1].index <= ws[k + 1].index
    <3>1. k + 1 \in 1..Len(ws) - 1 /\ k < Len(vs)
      BY <1>1, <2>3
    <3>2. vs[k + 1] = ws[k + 1 + 1]
      BY <1>1, <3>1
    <3> QED BY <2>1, <2>3, <3>1, <3>2
  <2> QED BY <2>1, <2>2, <2>3 DEF Queue, TruncationsPaired
<1> QED BY <1>3, <1>4, <1>5 DEF Queue, vs, e

\* deleteConflictingEntries and the append that follows it.
LEMMA QueueReplace ==
  ASSUME NEW d \in Log, NEW ws \in Seq(Write), NEW l \in Log, Queue(d, ws, l),
         NEW t \in Write, t.op = "truncate", NEW w \in Write, w.op # "truncate",
         w.index = t.index, t.index <= Len(l) + 1
  PROVE  Queue(d, ws \o <<t>> \o <<w>>, Truncate(l, t.index) \o w.entries)
<1> DEFINE vs == ws \o <<t>> \o <<w>>
           n == Len(ws)
           x == Truncate(l, t.index)
<1>1. /\ vs \in Seq(Write) /\ Len(vs) = n + 2 /\ n \in Nat
      /\ vs[n + 1] = t /\ vs[n + 2] = w
      /\ \A k \in 1..n : vs[k] = ws[k]
  <2>1. /\ ws \o <<t>> \in Seq(Write) /\ Len(ws \o <<t>>) = n + 1 /\ n \in Nat
        /\ (ws \o <<t>>)[n + 1] = t /\ \A k \in 1..n : (ws \o <<t>>)[k] = ws[k]
    OBVIOUS
  <2> DEFINE us == ws \o <<t>>
  <2>2. vs = us \o <<w>>
    OBVIOUS
  <2> HIDE DEF us, vs
  <2> QED BY <2>1, <2>2 DEF us
<1> HIDE DEF vs
<1>2. \A k \in 0..n : Replay(d, vs)[k] = Replay(d, ws)[k]
  <2>1. n <= Len(ws) /\ n <= Len(vs) /\ \A k \in 1..n : vs[k] = ws[k]
    BY <1>1
  <2> QED BY <1>1, <2>1, ReplayPrefix
<1> HIDE DEF n
<1>3. Replay(d, vs)[n] = l
  BY <1>1, <1>2 DEF n, Queue, QueueEndsInLog
<1>4. Replay(d, vs)[n + 1] = x /\ Replay(d, vs)[n + 2] = x \o w.entries
  <2>1. n + 1 \in 1..Len(vs) /\ n + 1 - 1 = n /\ n + 2 \in 1..Len(vs) /\ n + 2 - 1 = n + 1
    BY <1>1
  <2>2. /\ Replay(d, vs)[n + 1] = OnDisk(Replay(d, vs)[n], vs[n + 1])
        /\ Replay(d, vs)[n + 2] = OnDisk(Replay(d, vs)[n + 1], vs[n + 2])
    BY <1>1, <2>1, ReplayStep
  <2>3. OnDisk(l, t) = x /\ OnDisk(x, w) = x \o w.entries
    BY DEF OnDisk
  <2> HIDE DEF vs, x
  <2> QED BY <1>1, <1>3, <2>2, <2>3
<1>5. Len(x) = t.index - 1 /\ t.index \in Nat
  <2>1. t.index \in Nat \ {0, 1} /\ t.index \in Nat \ {0}
    BY DEF Write, WriteIndex, LeaderWrite, FollowerWrite, TruncateWrite
  <2>2. l \in Seq(Entry) /\ Len(l) \in Nat
    BY DEF Log
  <2> QED BY <2>1, <2>2, TruncateFacts
<1> HIDE DEF x
<1>6. AppendsAtEnd(d, vs)
  <2> SUFFICES ASSUME NEW k \in 1..Len(vs), vs[k].op # "truncate"
               PROVE  vs[k].index = Len(Replay(d, vs)[k - 1]) + 1
    BY DEF AppendsAtEnd
  <2>1. CASE k = n + 2
    <3>1. k - 1 = n + 1
      BY <1>1, <2>1
    <3>2. Len(Replay(d, vs)[k - 1]) = t.index - 1
      BY <1>4, <1>5, <3>1
    <3>3. vs[k] = w
      BY <1>1, <2>1
    <3> QED BY <1>5, <3>2, <3>3
  <2>2. CASE k \in 1..n
    <3>1. vs[k] = ws[k] /\ k - 1 \in 0..n /\ k \in 1..Len(ws)
      BY <1>1, <2>2 DEF n
    <3>2. Replay(d, vs)[k - 1] = Replay(d, ws)[k - 1]
      BY <1>2, <3>1
    <3> QED BY <3>1, <3>2 DEF Queue, AppendsAtEnd
  <2>3. k # n + 1
    BY <1>1
  <2> QED BY <1>1, <2>1, <2>2, <2>3
<1>7. TruncationsPaired(vs)
  <2> SUFFICES ASSUME NEW k \in 1..Len(vs), vs[k].op = "truncate"
               PROVE  \/ \A j \in 1..k - 1 : vs[j].op = "truncate"
                      \/ /\ k < Len(vs) /\ vs[k + 1].op # "truncate"
                         /\ vs[k + 1].index <= vs[k].index
    BY DEF TruncationsPaired
  <2>1. k # n + 2
    BY <1>1
  <2>2. CASE k = n + 1
    <3>1. k + 1 = n + 2 /\ k < Len(vs)
      BY <1>1, <2>2
    <3> QED BY <1>1, <1>5, <2>2, <3>1
  <2>3. CASE k \in 1..n
    <3>1. ws[k].op = "truncate" /\ k \in 1..Len(ws)
      BY <1>1, <2>3 DEF n
    <3>2. CASE \A j \in 1..k - 1 : ws[j].op = "truncate"
      BY <1>1, <2>3, <3>2
    <3>3. CASE k < Len(ws) /\ ws[k + 1].op # "truncate" /\ ws[k + 1].index <= ws[k].index
      <4>1. k + 1 \in 1..n /\ k \in 1..n
        BY <1>1, <2>3, <3>3 DEF n
      <4>2. vs[k + 1] = ws[k + 1] /\ vs[k] = ws[k] /\ k < Len(vs)
        BY <1>1, <4>1
      <4> QED BY <3>3, <4>2
    <3> QED BY <3>1, <3>2, <3>3 DEF Queue, TruncationsPaired
  <2> QED BY <1>1, <2>1, <2>2, <2>3
<1> QED BY <1>1, <1>4, <1>6, <1>7 DEF Queue, QueueEndsInLog, vs, x

\* Truncations alone leave a part of what was on disk.
LEMMA OnlyTruncations ==
  ASSUME NEW d \in Log, NEW ws \in Seq(Write), \A k \in 1..Len(ws) : ws[k].op = "truncate",
         NEW n \in 0..Len(ws)
  PROVE  SameUpTo(Replay(d, ws)[n], d, Len(Replay(d, ws)[n]))
<1> DEFINE r == Replay(d, ws)
           S == {k \in Nat : SameUpTo(r[k], d, Len(r[k]))}
<1>1. /\ r[0] = d
      /\ \A k \in 1..Len(ws) : r[k] = OnDisk(r[k - 1], ws[k])
      /\ \A k \in 0..Len(ws) : r[k] \in Log
  BY ReplayStep
<1> HIDE DEF r
<1>2. 0 \in S
  <2>1. Len(d) \in Nat
    BY DEF Log
  <2> QED BY <1>1, <2>1 DEF SameUpTo
<1>3. ASSUME NEW k \in 0..Len(ws) - 1, k \in S PROVE k + 1 \in S
  <2> DEFINE x == r[k]
             y == r[k + 1]
  <2>1. k + 1 \in 1..Len(ws) /\ k + 1 - 1 = k /\ k \in 0..Len(ws) /\ ws[k + 1] \in Write
        /\ ws[k + 1].op = "truncate" /\ k + 1 \in Nat
    OBVIOUS
  <2>2. y = OnDisk(x, ws[k + 1]) /\ x \in Log
    BY <1>1, <2>1
  <2>3. SameUpTo(x, d, Len(x))
    BY <1>3
  <2> HIDE DEF x, y
  <2>4. /\ Len(x) \in Nat /\ Len(y) \in Nat
        /\ ws[k + 1].index \in WriteIndex
        /\ Len(y) = IF ws[k + 1].index - 1 <= Len(x) THEN ws[k + 1].index - 1 ELSE Len(x)
        /\ \A j \in 1..Len(y) : y[j] = x[j]
    BY <2>1, <2>2, OnDiskFacts
  <2>5. Len(y) <= Len(x)
    BY <2>4 DEF WriteIndex
  <2>6. Len(d) \in Nat
    BY DEF Log
  <2>7. SameUpTo(y, d, Len(y))
    BY <2>3, <2>4, <2>5, <2>6 DEF SameUpTo
  <2> QED BY <2>1, <2>7 DEF y
<1>4. 0..Len(ws) \subseteq S
  <2> HIDE DEF S
  <2>1. Len(ws) \in Nat
    OBVIOUS
  <2> QED BY <1>2, <1>3, <2>1, InductionUpTo
<1> QED BY <1>4 DEF r

\* What the truncations among the first n operations make of the disk.
LEMMA TruncatesReplay ==
  ASSUME NEW d \in Log, NEW ws \in Seq(Write)
  PROVE  LET y(n) == Replay(d, Truncates(ws)[n])[Len(Truncates(ws)[n])]
         IN  /\ y(0) = d
             /\ \A n \in 0..Len(ws) : y(n) \in Log
             /\ \A n \in 1..Len(ws) :
                  /\ ws[n].op = "truncate" => y(n) = Truncate(y(n - 1), ws[n].index)
                  /\ ws[n].op # "truncate" => y(n) = y(n - 1)
<1> DEFINE t == Truncates(ws)
           y(n) == Replay(d, t[n])[Len(t[n])]
<1>0. t = [n \in 0..Len(ws) |->
             IF n = 0 THEN << >>
             ELSE IF ws[n].op = "truncate" THEN Append(t[n - 1], ws[n])
                                           ELSE t[n - 1]]
  BY TruncatesDef
<1>1. \A n \in 0..Len(ws) : t[n] \in Seq(Write)
  BY TruncatesType
<1> HIDE DEF t
<1>2. \A n \in 0..Len(ws) : t[n] = IF n = 0 THEN << >>
                                   ELSE IF ws[n].op = "truncate" THEN Append(t[n - 1], ws[n])
                                                                 ELSE t[n - 1]
  BY <1>0, Zenon
<1>3. y(0) = d
  <2>1. t[0] = << >> /\ << >> \in Seq(Write) /\ Len(<< >>) = 0
    BY <1>2
  <2>2. Replay(d, << >>)[0] = d
    BY <2>1, ReplayStep
  <2> QED BY <2>1, <2>2
<1>4. ASSUME NEW n \in 0..Len(ws) PROVE y(n) \in Log
  <2>1. t[n] \in Seq(Write) /\ Len(t[n]) \in 0..Len(t[n])
    BY <1>1
  <2> QED BY <2>1, ReplayStep
<1>5. ASSUME NEW n \in 1..Len(ws)
      PROVE  /\ ws[n].op = "truncate" => y(n) = Truncate(y(n - 1), ws[n].index)
             /\ ws[n].op # "truncate" => y(n) = y(n - 1)
  <2> DEFINE us == t[n - 1]
             vs == t[n]
  <2>1. n \in 0..Len(ws) /\ n - 1 \in 0..Len(ws) /\ n # 0 /\ ws[n] \in Write
    OBVIOUS
  <2>2. us \in Seq(Write) /\ vs \in Seq(Write)
    BY <1>1, <2>1
  <2>3. vs = IF ws[n].op = "truncate" THEN Append(us, ws[n]) ELSE us
    BY <1>2, <2>1
  <2>4. CASE ws[n].op = "truncate"
    <3> HIDE DEF us, vs
    <3>1. /\ Len(vs) = Len(us) + 1 /\ Len(us) \in Nat /\ vs[Len(us) + 1] = ws[n]
          /\ \A k \in 1..Len(us) : vs[k] = us[k]
      BY <2>1, <2>2, <2>3, <2>4
    <3>2. Replay(d, vs)[Len(us)] = Replay(d, us)[Len(us)]
      <4>1. Len(us) <= Len(vs) /\ Len(us) <= Len(us) /\ Len(us) \in 0..Len(us)
        BY <3>1
      <4> QED BY <2>2, <3>1, <4>1, ReplayPrefix
    <3>3. Replay(d, vs)[Len(us) + 1] = OnDisk(Replay(d, vs)[Len(us)], vs[Len(us) + 1])
      <4>1. Len(us) + 1 \in 1..Len(vs) /\ Len(us) + 1 - 1 = Len(us)
        BY <3>1
      <4> QED BY <2>2, <4>1, ReplayStep
    <3> QED BY <2>4, <3>1, <3>2, <3>3 DEF OnDisk, us, vs
  <2>5. CASE ws[n].op # "truncate"
    BY <2>3, <2>5
  <2> QED BY <2>4, <2>5
<1> QED BY <1>3, <1>4, <1>5 DEF t

\* The appends in the queue fail: what is left of the log in memory is what the
\* truncations in the queue will leave of the disk.  The first entry that failed
\* is where the disk ends by then, or where the lowest truncation is.
LEMMA QueueFail ==
  ASSUME NEW d \in Log, NEW ws \in Seq(Write), NEW l \in Log, Queue(d, ws, l),
         ws # << >>, Head(ws).op # "truncate",
         NEW first \in WriteIndex,
         \E k \in DOMAIN ws : ws[k].op # "truncate" /\ ws[k].index = first,
         \A k \in DOMAIN ws : ws[k].op # "truncate" => ws[k].index >= first
  PROVE  Queue(d, Truncates(ws)[Len(ws)], Truncate(l, first))
<1> DEFINE c == first - 1
           n == Len(ws)
           r == Replay(d, ws)
           t == Truncates(ws)
           y(k) == Replay(d, t[k])[Len(t[k])]
<1>1. /\ n \in Nat \ {0} /\ DOMAIN ws = 1..n /\ Head(ws) = ws[1] /\ c \in Nat
      /\ first = c + 1 /\ first \in Nat \ {0}
  BY DEF WriteIndex
<1>2. \A k \in 1..n : ws[k] \in Write /\ ws[k].index \in Nat
  BY DEF Write, WriteIndex, LeaderWrite, FollowerWrite, TruncateWrite
<1>3. r[0] = d /\ r[n] = l /\ \A k \in 0..n : r[k] \in Log /\ Len(r[k]) \in Nat
  BY <1>1, ReplayStep DEF Queue, QueueEndsInLog, Log
<1>4. \A k \in 1..n : ws[k].op # "truncate" => ws[k].index = Len(r[k - 1]) + 1
  BY DEF Queue, AppendsAtEnd
<1>5. \A k \in 1..n : ws[k].op = "truncate" => c < ws[k].index
  <2> SUFFICES ASSUME NEW k \in 1..n, ws[k].op = "truncate" PROVE c < ws[k].index
    OBVIOUS
  <2>1. ~\A j \in 1..k - 1 : ws[j].op = "truncate"
    <3>1. k # 1
      BY <1>1
    <3>2. 1 \in 1..k - 1
      BY <3>1
    <3> QED BY <1>1, <3>2
  <2>2. k < n /\ ws[k + 1].op # "truncate" /\ ws[k + 1].index <= ws[k].index
    BY <2>1 DEF Queue, TruncationsPaired
  <2>3. k + 1 \in 1..n
    BY <1>1, <2>2
  <2>4. ws[k + 1].index >= first
    BY <1>1, <2>2, <2>3
  <2> HIDE DEF n
  <2> QED BY <1>1, <1>2, <2>2, <2>3, <2>4
<1>6. c <= Len(d)
  <2>1. ws[1].op # "truncate" /\ 1 \in 1..n
    BY <1>1
  <2>2. ws[1].index = Len(r[0]) + 1 /\ ws[1].index >= first
    BY <1>1, <1>4, <2>1
  <2>3. Len(d) \in Nat
    BY DEF Log
  <2> QED BY <1>1, <1>3, <2>2, <2>3
<1>7. SameUpTo(l, d, c)
  <2>1. 0 \in 0..Len(ws) /\ n \in 0..Len(ws) /\ \A k \in 0 + 1..n : k \in 1..n
    BY <1>1
  <2>2. c <= Len(r[0]) /\ \A k \in 0 + 1..n : ws[k].op = "truncate" => c < ws[k].index
    BY <1>3, <1>5, <1>6, <2>1
  <2>3. SameUpTo(r[n], r[0], c)
    BY <1>1, <2>1, <2>2, ReplayFloor
  <2> QED BY <1>3, <2>3
<1>8. Len(d) = c \/ \E k \in 1..n : ws[k].op = "truncate" /\ ws[k].index = first
  <2> SUFFICES ASSUME Len(d) # c, ~\E k \in 1..n : ws[k].op = "truncate" /\ ws[k].index = first
               PROVE  FALSE
    OBVIOUS
  <2>1. PICK j \in 1..n : ws[j].op # "truncate" /\ ws[j].index = first
    BY <1>1
  <2>2. Len(r[j - 1]) = c /\ j - 1 \in 0..n
    <3>1. j - 1 \in 0..n
      BY <1>1
    <3>2. Len(r[j - 1]) + 1 = c + 1
      BY <1>1, <1>4, <2>1
    <3> HIDE DEF r, c
    <3> QED BY <1>1, <1>3, <3>1, <3>2
  <2>3. Len(d) \in Nat /\ c + 1 <= Len(d)
    BY <1>1, <1>6 DEF Log
  <2>4. ASSUME NEW k \in 0 + 1..j - 1, ws[k].op = "truncate" PROVE c + 1 < ws[k].index
    <3>1. k \in 1..n
      BY <1>1, <2>2
    <3>2. c < ws[k].index /\ ws[k].index # c + 1 /\ ws[k].index \in Nat
      BY <1>1, <1>2, <1>5, <2>4, <3>1
    <3> QED BY <1>1, <3>2
  <2>5. 0 \in 0..Len(ws) /\ j - 1 \in 0..Len(ws) /\ c + 1 \in Nat /\ c + 1 <= Len(r[0])
    BY <1>1, <1>3, <2>2, <2>3
  <2>6. SameUpTo(r[j - 1], r[0], c + 1)
    BY <2>4, <2>5, ReplayFloor
  <2> QED BY <1>1, <2>2, <2>6 DEF SameUpTo
<1>9. /\ y(0) = d
      /\ \A k \in 0..n : y(k) \in Log
      /\ \A k \in 1..n : /\ ws[k].op = "truncate" => y(k) = Truncate(y(k - 1), ws[k].index)
                         /\ ws[k].op # "truncate" => y(k) = y(k - 1)
  BY TruncatesReplay
<1> HIDE DEF y, r, t
<1> DEFINE S == {k \in Nat : /\ SameUpTo(y(k), d, Len(y(k))) /\ c <= Len(y(k))
                             /\ \A j \in 1..k : ws[j].op = "truncate" =>
                                                  Len(y(k)) < ws[j].index}
<1>10. 0 \in S
  <2>1. Len(d) \in Nat
    BY DEF Log
  <2> QED BY <1>6, <1>9, <2>1 DEF SameUpTo
<1>11. ASSUME NEW k \in 0..n - 1, k \in S PROVE k + 1 \in S
  <2> DEFINE u == y(k)
             v == y(k + 1)
             w == ws[k + 1]
  <2>1. k + 1 \in 1..n /\ k \in 0..n /\ k + 1 - 1 = k /\ k + 1 \in Nat
    BY <1>1
  <2>2. /\ u \in Seq(Entry) /\ Len(u) \in Nat
        /\ v = IF w.op = "truncate" THEN Truncate(u, w.index) ELSE u
    <3>1. u \in Seq(Entry) /\ Len(u) \in Nat
      BY <1>9, <2>1 DEF Log
    <3>2. /\ w.op = "truncate" => v = Truncate(y(k + 1 - 1), w.index)
          /\ w.op # "truncate" => v = y(k + 1 - 1)
      BY <1>9, <2>1, SMT
    <3>3. y(k + 1 - 1) = u
      BY <2>1, Zenon
    <3> QED BY <3>1, <3>2, <3>3, Zenon
  <2>3. /\ SameUpTo(u, d, Len(u)) /\ c <= Len(u)
        /\ \A j \in 1..k : ws[j].op = "truncate" => Len(u) < ws[j].index
    BY <1>11
  <2>a. Len(d) \in Nat
    BY DEF Log
  <2>b. \A j \in 1..k + 1 : j \in 1..k \/ j = k + 1
    BY <2>1
  <2>c. \A j \in 1..k + 1 : ws[j].index \in Nat
    BY <1>1, <1>2, <2>1
  <2>4. /\ SameUpTo(v, d, Len(v)) /\ c <= Len(v)
        /\ \A j \in 1..k + 1 : ws[j].op = "truncate" => Len(v) < ws[j].index
    <3>1. CASE w.op = "truncate"
      <4>1. w.index \in Nat \ {0} /\ c < w.index
        BY <1>1, <1>2, <1>5, <2>1, <3>1
      <4> HIDE DEF u, v
      <4>2. /\ Len(v) = IF w.index - 1 <= Len(u) THEN w.index - 1 ELSE Len(u)
            /\ \A j \in 1..Len(v) : v[j] = u[j]
        BY <2>2, <3>1, <4>1, TruncateFacts
      <4>3. Len(v) <= Len(u) /\ Len(v) < w.index /\ c <= Len(v) /\ Len(v) \in Nat
        BY <1>1, <2>2, <2>3, <4>1, <4>2
      <4>4. SameUpTo(v, d, Len(v))
        BY <2>2, <2>3, <2>a, <4>2, <4>3 DEF SameUpTo
      <4>5. ASSUME NEW j \in 1..k + 1, ws[j].op = "truncate" PROVE Len(v) < ws[j].index
        <5>1. CASE j = k + 1
          BY <4>3, <5>1
        <5>2. CASE j \in 1..k
          <6>1. Len(u) < ws[j].index /\ ws[j].index \in Nat
            BY <2>3, <2>c, <4>5, <5>2
          <6> QED BY <2>2, <4>3, <6>1
        <5> QED BY <2>b, <5>1, <5>2
      <4> QED BY <4>3, <4>4, <4>5
    <3>2. CASE w.op # "truncate"
      <4>1. v = u
        BY <2>2, <3>2
      <4> HIDE DEF u, v
      <4> QED BY <2>3, <2>b, <3>2, <4>1
    <3> QED BY <3>1, <3>2
  <2> QED BY <2>1, <2>4
<1>12. n \in S
  <2> HIDE DEF S
  <2>1. n \in Nat
    BY <1>1
  <2>2. 0..n \subseteq S
    BY <1>10, <1>11, <2>1, InductionUpTo
  <2> QED BY <2>1, <2>2
<1>13. y(n) = Truncate(l, first)
  <2>1. Len(y(n)) \in Nat /\ Len(d) \in Nat /\ y(n) \in Seq(Entry) /\ l \in Seq(Entry)
    BY <1>1, <1>9 DEF Log
  <2>2. /\ SameUpTo(y(n), d, Len(y(n))) /\ c <= Len(y(n))
        /\ \A j \in 1..n : ws[j].op = "truncate" => Len(y(n)) < ws[j].index
    BY <1>12
  <2>3. Len(y(n)) = c
    <3>1. CASE Len(d) = c
      BY <1>1, <2>1, <2>2, <3>1 DEF SameUpTo
    <3>2. CASE \E k \in 1..n : ws[k].op = "truncate" /\ ws[k].index = first
      <4>1. Len(y(n)) < first
        BY <2>2, <3>2
      <4> QED BY <1>1, <2>1, <2>2, <4>1
    <3> QED BY <1>8, <3>1, <3>2
  <2>4. /\ Truncate(l, first) \in Seq(Entry) /\ Len(Truncate(l, first)) = c
        /\ \A k \in 1..Len(Truncate(l, first)) : Truncate(l, first)[k] = l[k]
    <3>1. c <= Len(l)
      BY <1>7 DEF SameUpTo
    <3> QED BY <1>1, <2>1, <3>1, TruncateFacts
  <2>5. \A k \in 1..c : y(n)[k] = Truncate(l, first)[k]
    BY <1>7, <2>2, <2>3, <2>4 DEF SameUpTo
  <2> QED BY <2>1, <2>3, <2>4, <2>5, SeqEqual
<1>14. t[n] \in Seq(Write) /\ \A k \in 1..Len(t[n]) : t[n][k].op = "truncate"
  <2>1. n \in 0..Len(ws)
    BY <1>1
  <2> QED BY <2>1, TruncatesType DEF t
<1>15. QueueEndsInLog(d, t[n], Truncate(l, first))
  BY <1>13 DEF QueueEndsInLog, y
<1>16. AppendsAtEnd(d, t[n]) /\ TruncationsPaired(t[n])
  BY <1>14 DEF AppendsAtEnd, TruncationsPaired
<1> QED BY <1>15, <1>16 DEF Queue, t

(* The invariant of the specification *)

Queues == \A i \in Server : Queue(disk[i], writes[i], log[i])

\* A step that touches the log, the disk and the queue of at most one server.
LEMMA QueuesOne ==
  ASSUME TypeInv, Queues, NEW i \in Server,
         \A k \in Server \ {i} : log'[k] = log[k] /\ writes'[k] = writes[k]
                                 /\ disk'[k] = disk[k],
         Queue(disk'[i], writes'[i], log'[i])
  PROVE  Queues'
  BY DEF Queues

LEMMA QueuesSame ==
  ASSUME Queues, UNCHANGED <<log, disk, writes>>
  PROVE  Queues'
  BY DEF Queues

LEMMA Append1Queue ==
  ASSUME TypeInv, Queues, NEW i \in Server, NEW prog, NEW due, Append1(i, prog, due),
         currentTerm[i] > 0
  PROVE  Queues'
<1> DEFINE l == Append(log[i], currentTerm[i])
           w == [op |-> "leader", index |-> Len(l), entries |-> <<currentTerm[i]>>]
<1>1. /\ log' = [log EXCEPT ![i] = l]
      /\ writes' = [writes EXCEPT ![i] = Append(@, w)] /\ disk' = disk
  BY DEF Append1
<1>2. /\ log[i] \in Log /\ Len(log[i]) \in Nat \ {0} /\ disk[i] \in Log
      /\ writes[i] \in Seq(Write)
  BY LogFacts
<1>3. currentTerm[i] \in Entry
  BY ConfFacts DEF TypeInv, TypeOK, QueuesOK, Entry
<1>4. Len(l) = Len(log[i]) + 1 /\ l = log[i] \o <<currentTerm[i]>>
  BY <1>2, <1>3, AppendProperties, AppendIsConcat, SMTT(60) DEF Log
<1>5. w \in Write
  <2>1. <<currentTerm[i]>> \in Log
    BY <1>3 DEF Log
  <2>2. Len(l) \in WriteIndex
    BY <1>2, <1>4 DEF WriteIndex
  <2> HIDE DEF l
  <2> QED BY <2>1, <2>2 DEF Write, LeaderWrite
<1>6. w.op # "truncate" /\ w.index = Len(log[i]) + 1 /\ w.entries = <<currentTerm[i]>>
  BY <1>4
<1> HIDE DEF w, l
<1>7. Queue(disk[i], Append(writes[i], w), log[i] \o w.entries)
  <2>1. Queue(disk[i], writes[i], log[i])
    BY DEF Queues
  <2> QED BY <1>2, <1>5, <1>6, <2>1, QueueAppend
<1>8. log'[i] = log[i] \o w.entries /\ writes'[i] = Append(writes[i], w) /\ disk'[i] = disk[i]
  BY <1>1, <1>4, <1>6 DEF TypeInv, TypeOK, QueuesOK
<1>9. \A k \in Server \ {i} : log'[k] = log[k] /\ writes'[k] = writes[k] /\ disk'[k] = disk[k]
  BY <1>1 DEF TypeInv, TypeOK, QueuesOK
<1> QED BY <1>7, <1>8, <1>9, QueuesOne

LEMMA recvAppendEntriesQueue ==
  ASSUME TypeInv, Queues, conf' = conf, NEW m \in msgs, recvAppendEntries(m)
  PROVE  Queues'
<1> DEFINE i == m.to
<1>1. m \in AppendEntries
  BY recvAppendEntriesCases DEF TypeInv, QueuesOK, AppendEntriesResult
<1>2. i \in Server
  BY <1>1 DEF AppendEntries
<1>3. CASE UNCHANGED <<log, disk, writes>>
  BY <1>3, QueuesSame
<1>4. CASE /\ ~Conflicts(i, m) /\ Matches(i, m) /\ NewEntries(i, m) # << >>
           /\ log' = [log EXCEPT ![i] = Kept(i, m) \o NewEntries(i, m)]
           /\ writes' = [writes EXCEPT ![i] = @ \o Truncation(i, m) \o <<WriteOf(i, m)>>]
           /\ UNCHANGED disk
  <2> DEFINE w == WriteOf(i, m)
             ws == writes[i]
             l == log[i]
             index == FirstNew(i, m)
  <2>1. /\ index \in WriteIndex /\ index <= Len(l) + 1
        /\ InConflict(i, m) <=> index <= Len(l)
        /\ NewEntries(i, m) \in Log
    BY <1>1, <1>4, NewEntriesFacts
  <2>2. w \in Write
    BY <1>1, <1>4, AppendFollowerFacts
  <2>3. w.op = "follower" /\ w.index = index /\ w.entries = NewEntries(i, m)
    BY DEF WriteOf
  <2> HIDE DEF i
  <2>4. l \in Log /\ Len(l) \in Nat /\ disk[i] \in Log /\ ws \in Seq(Write)
    BY <1>2, LogFacts
  <2>5. Queue(disk[i], ws, l)
    BY <1>2 DEF Queues
  <2>6. Queue(disk[i], ws \o Truncation(i, m) \o <<w>>, Kept(i, m) \o w.entries)
    <3>1. CASE InConflict(i, m)
      <4> DEFINE t == [op |-> "truncate", index |-> index]
      <4>1. Truncation(i, m) = <<t>> /\ Kept(i, m) = Truncate(l, index)
        BY <3>1 DEF Truncation, Kept
      <4>2. t \in Write /\ t.op = "truncate" /\ t.index = index
        BY <2>1 DEF Write, TruncateWrite
      <4> HIDE DEF t, w, index, l, ws
      <4>3. Queue(disk[i], ws \o <<t>> \o <<w>>, Truncate(l, t.index) \o w.entries)
        BY <2>1, <2>2, <2>3, <2>4, <2>5, <4>2, QueueReplace
      <4> QED BY <4>1, <4>2, <4>3
    <3>2. CASE ~InConflict(i, m)
      <4>1. Truncation(i, m) = << >> /\ Kept(i, m) = l
        BY <3>2 DEF Truncation, Kept
      <4>2. index = Len(l) + 1
        BY <2>1, <2>4, <3>2 DEF WriteIndex
      <4>3. ws \o << >> \o <<w>> = Append(ws, w)
        BY <2>4
      <4> HIDE DEF w, index, l, ws
      <4>4. Queue(disk[i], Append(ws, w), l \o w.entries)
        BY <2>2, <2>3, <2>4, <2>5, <4>2, QueueAppend
      <4> QED BY <4>1, <4>3, <4>4
    <3> QED BY <3>1, <3>2
  <2>7. /\ log'[i] = Kept(i, m) \o w.entries /\ disk'[i] = disk[i]
        /\ writes'[i] = ws \o Truncation(i, m) \o <<w>>
    BY <1>2, <1>4, <2>3 DEF TypeInv, TypeOK, QueuesOK
  <2>8. \A k \in Server \ {i} : log'[k] = log[k] /\ writes'[k] = writes[k] /\ disk'[k] = disk[k]
    BY <1>4 DEF TypeInv, TypeOK, QueuesOK
  <2> QED BY <1>2, <2>6, <2>7, <2>8, QueuesOne
<1> QED BY <1>3, <1>4, recvAppendEntriesCases DEF logVars, diskVars

LEMMA WriteCompletesQueue ==
  ASSUME TypeInv, Queues, NEW i \in Server, WriteCompletes(i)
  PROVE  Queues'
<1>1. /\ writes[i] # << >>
      /\ disk' = [disk EXCEPT ![i] = OnDisk(disk[i], Head(writes[i]))]
      /\ writes' = [writes EXCEPT ![i] = Tail(@)]
      /\ log' = log
  BY DEF WriteCompletes, TruncateCompletes, appendLeaderCb, appendFollowerCb, logVars
<1>2. /\ disk'[i] = OnDisk(disk[i], Head(writes[i])) /\ writes'[i] = Tail(writes[i])
      /\ \A k \in Server \ {i} : writes'[k] = writes[k] /\ disk'[k] = disk[k]
  BY <1>1 DEF TypeInv, TypeOK, QueuesOK
<1>3. Queue(OnDisk(disk[i], Head(writes[i])), Tail(writes[i]), log[i])
  <2>1. /\ Queue(disk[i], writes[i], log[i]) /\ disk[i] \in Log /\ writes[i] \in Seq(Write)
    BY LogFacts DEF Queues
  <2> QED BY <1>1, <2>1, QueueTail
<1> QED BY <1>1, <1>2, <1>3, QueuesOne

LEMMA WriteFailsQueue ==
  ASSUME TypeInv, Queues, NEW i \in Server, WriteFails(i)
  PROVE  Queues'
<1>1. /\ writes[i] # << >> /\ Head(writes[i]).op # "truncate"
      /\ log' = [log EXCEPT ![i] = Truncate(@, FirstFailed(i))]
      /\ writes' = [writes EXCEPT ![i] = Truncates(@)[Len(@)]]
      /\ disk' = disk
  BY DEF WriteFails, Failed, FirstFailed
<1>2. /\ log'[i] = Truncate(log[i], FirstFailed(i)) /\ disk'[i] = disk[i]
      /\ writes'[i] = Truncates(writes[i])[Len(writes[i])]
      /\ \A k \in Server \ {i} : log'[k] = log[k] /\ writes'[k] = writes[k]
                                 /\ disk'[k] = disk[k]
  BY <1>1 DEF TypeInv, TypeOK, QueuesOK
<1>3. Queue(disk[i], Truncates(writes[i])[Len(writes[i])], Truncate(log[i], FirstFailed(i)))
  <2>1. /\ FirstFailed(i) \in WriteIndex
        /\ \E k \in DOMAIN writes[i] :
             writes[i][k].op # "truncate" /\ writes[i][k].index = FirstFailed(i)
        /\ \A k \in DOMAIN writes[i] :
             writes[i][k].op # "truncate" => writes[i][k].index >= FirstFailed(i)
    BY <1>1, FailedFacts
  <2>2. /\ Queue(disk[i], writes[i], log[i]) /\ disk[i] \in Log /\ log[i] \in Log
        /\ writes[i] \in Seq(Write)
    BY LogFacts DEF Queues
  <2> QED BY <1>1, <2>1, <2>2, QueueFail
<1> QED BY <1>2, <1>3, QueuesOne

LEMMA raft_startQueue ==
  ASSUME TypeInv, Queues, NEW i \in Server, raft_start(i)
  PROVE  Queues'
<1>1. /\ log' = [log EXCEPT ![i] = disk[i]] /\ writes' = [writes EXCEPT ![i] = << >>]
      /\ disk' = disk
  BY DEF raft_start
<1>2. /\ log'[i] = disk[i] /\ disk'[i] = disk[i] /\ writes'[i] = << >>
      /\ \A k \in Server \ {i} : log'[k] = log[k] /\ writes'[k] = writes[k]
                                 /\ disk'[k] = disk[k]
  BY <1>1 DEF TypeInv, TypeOK, QueuesOK
<1>3. Queue(disk[i], << >>, disk[i])
  BY LogFacts, QueueEmpty
<1> QED BY <1>2, <1>3, QueuesOne

LEMMA InitQueues == Init => Queues
<1> SUFFICES ASSUME Init, NEW i \in Server PROVE Queue(disk[i], writes[i], log[i])
  BY DEF Queues
<1>1. disk[i] \in Log
  BY InitType, LogFacts
<1>2. log[i] = disk[i] /\ writes[i] = << >>
  BY DEF Init
<1> QED BY <1>1, <1>2, QueueEmpty

LEMMA NextQueues == TypeInv /\ Queues /\ [Next]_vars => Queues'
<1> SUFFICES ASSUME TypeInv, Queues, [Next]_vars PROVE Queues'
  OBVIOUS
<1>1. CASE UNCHANGED <<log, disk, writes>>
  BY <1>1, QueuesSame
<1>2. CASE Next
  <2>0. conf' = conf
    BY <1>2 DEF Next
  <2>1. ASSUME NEW i \in Up, NEW j \in Up, recvRequestVote(j, i) PROVE Queues'
    BY <1>1, <2>1 DEF recvRequestVote, logVars, diskVars
  <2>2. ASSUME NEW i \in Up, NEW j \in Server, replicationHeartbeat(i, j) PROVE Queues'
    BY <1>1, <2>2 DEF replicationHeartbeat, logVars, diskVars
  <2>3. ASSUME NEW i \in Up, tick(i) \/ electionStart(i) \/ checkContactQuorum(i)
        PROVE  Queues'
    BY <1>1, <2>3 DEF tick, electionStart, checkContactQuorum, logVars, diskVars
  <2>4. ASSUME NEW i \in Up, convertToLeader(i) \/ raft_apply(i) PROVE Queues'
    <3>1. i \in Server /\ currentTerm[i] > 0
      BY DEF Up, TypeInv, Roles
    <3>2. CASE convertToLeader(i)
      <4>1. Append1(i, progressBuildArray(i, Len(log[i])), Server)
        BY <3>2 DEF convertToLeader
      <4> QED BY <3>1, <4>1, Append1Queue
    <3>3. CASE raft_apply(i)
      <4>1. PICK due : Append1(i, progress[i], due)
        BY <3>3 DEF raft_apply
      <4> QED BY <3>1, <4>1, Append1Queue
    <3> QED BY <2>4, <3>2, <3>3
  <2>5. ASSUME NEW i \in Up, WriteCompletes(i) \/ WriteFails(i) \/ raft_start(i)
        PROVE  Queues'
    BY <2>5, WriteCompletesQueue, WriteFailsQueue, raft_startQueue DEF Up
  <2>6. ASSUME NEW m \in msgs, recvAppendEntries(m) PROVE Queues'
    BY <2>0, <2>6, recvAppendEntriesQueue
  <2>7. ASSUME NEW m \in msgs, recvAppendEntriesResult(m) PROVE Queues'
    BY <1>1, <2>7 DEF recvAppendEntriesResult, logVars, diskVars
  <2>8. ASSUME NEW m \in msgs, SendFails(m) \/ Lose(m) PROVE Queues'
    BY <1>1, <2>8 DEF SendFails, Lose, logVars, diskVars
  <2> QED BY <1>2, <2>1, <2>2, <2>3, <2>4, <2>5, <2>6, <2>7, <2>8 DEF Next
<1> QED BY <1>1, <1>2 DEF vars

LEMMA QueuesInvariant == Spec => []Queues
  BY TypeInvariant, InitQueues, NextQueues, PTL DEF Spec

\* Once the operations in the queue are done the disk has the log in memory: a
\* failed write takes exactly those entries out of memory that the truncations
\* left in the queue do not leave on disk.
THEOREM DiskFollowsMemory == Spec => []DiskCatchesUp
<1>1. Queues => DiskCatchesUp
  BY DEF Queues, Queue, QueueEndsInLog, DiskCatchesUp
<1> QED BY QueuesInvariant, <1>1, PTL

==============================================================================
