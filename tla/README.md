# A TLA+ model of dqlite

dqlite replicates SQLite databases with its own implementation of raft. This
directory holds TLA+ modules that model parts of it, TLC configurations that
check them, and TLAPS proofs.

## 1. Inventory

Source paths are relative to the root of the repository; the C sources are in
`src/`, raft in `src/raft/`.

| Component | State it keeps | Operations | Hard behaviour |
|---|---|---|---|
| Elections (`election.c`, `recv_request_vote*.c`, `recv_timeout_now.c`, `convert.c`, `tick.c`) | role, term, vote, known leader, votes, pre-vote flag, transfer | timers, four message handlers, transfer, start | phases of different candidates interleave; the vote is written after the term; stale answers; terms that never converge |
| Replication (`replication.c`, `progress.c`, `recv_append_entries*.c`) | log, last_stored, commit_index, last_applied, next/match index and mode per server | client entries, heartbeats, AppendEntries and its result, completion or failure of disk writes, send failures | writes complete after the term, the role or the log changed; results out of order; a failed write in the middle of a queue |
| In-memory log (`log.c`) | ring buffer, offset, snapshot position, reference counts | append, acquire, release, truncate, discard, reinstate, snapshot | wrap-around and growth with referenced entries, truncated entries that come back |
| Membership (`membership.c`, `configuration.c`) | committed and uncommitted configuration, promotion round | add, assign, remove, rollback, catch-up rounds | change truncated before commit, self-removal, sole voter |
| Snapshots (`snapshot.c`, `replication.c`, `uv_snapshot.c`) | pending snapshot, install in progress | take, send, install, restore | installs overlap with appends, votes and timeouts |
| Storage (`uv_append.c`, `uv_prepare.c`, `uv_finalize.c`, `uv_truncate.c`, `uv_segment.c`, `uv_metadata.c`) | open and closed segments, pending and writing requests, barriers, metadata files | append, truncate, set term and vote, load | crash between write, rename and sync; failure with requests queued |
| Transport (`uv_send.c`, `uv_recv.c`, `uv_tcp*.c`) | per-server connection and queue of messages | connect, send, reconnect, accept, read | connections fail with messages queued; queue limit |
| Thread pool (`lib/threadpool.c`) | ordered, unordered and barrier queues, planner state | queue work, plan, run, done, close | planner and workers race, shutdown with work queued |
| Gateway and connections (`gateway.c`, `conn.c`) | current request, prepared statements, leader | requests, their asynchronous completion, interrupt, close | disconnect or interrupt while a request is executing |
| Leader (`leader.c`, `db.c`) | SQLite connection, transaction in flight | barrier, exec, apply frames, abort | leadership lost between execution and replication |
| State machine (`fsm.c`) | databases, pending pages | apply, snapshot, restore | commands of an earlier leader, snapshot during a transaction |
| VFS (`vfs.c`, `vfs2.c`) | database pages, WAL frames, shm locks | SQLite's file calls, poll, apply, abort, checkpoint | lock protocol, WAL restart |
| Server and roles (`server.c`, `roles.c`) | life cycle, node store, role changes queued | start, stop, handover, adjust roles | stop during handover, role changes that cross |

Components interact by calls within one event loop per server (raft calls the
I/O backend, which calls back), by messages between servers, and by the thread
pool. The correctness conditions are those of raft (one leader per term, a leader
covers its voters' logs, log matching, one sequence of applied entries,
progress), of the storage (what was acknowledged survives a crash), and of the
layers above (a transaction is replicated once, or undone).

## 2. Modules

| Module | Models | Role |
|---|---|---|
| `RaftElection` | elections, pre-vote, transfer | specification, properties, mutants |
| `RaftElectionProofs` | | theorems about `RaftElection` |
| `MCRaftElection` | | initial states for TLC |
| `RaftReplication` | replication between servers, disk writes | specification, properties, mutants |
| `Induction` | | induction on natural numbers, minimum and maximum: lemmas |
| `RaftReplicationTypes`, `RaftDiskProofs`, `RaftLogMatchingProofs`, `RaftSafetyProofs` | | theorems about `RaftReplication`, each extending the one before |
| `ReplicatedLog` | what raft promises the state machines | abstract specification |
| `MCRaftReplication` | | the situations that TLC starts from |
| `RaftLog` | the ring buffer and the reference counts of `log.c` | operators on the log |
| `UvTransport` | `uv_send.c`, `uv_recv.c`, `uv_tcp*.c` and the closing of `uv.c` | operators on the connections |
| `SendLog` | one server: log, messages, writes, connections | composes the two above; specification, properties |
| `MCSendLog` | | scenarios for TLC |
| `UvStorage` | segments, barriers, truncation, snapshots and load of `uv_*.c` | specification, properties, mutants |
| `UvMetadata` | term and vote on disk | specification (used by `UvStorage`), property, mutant |
| `UvMetadataProofs` | | theorem about `UvMetadata` |
| `MCUvStorage` | | scenarios for TLC |
| `Vfs` | the VFS of `vfs.c` | operators on a database |
| `Sqlite` | SQLite in WAL mode, external | operators on a connection, over `Vfs` |
| `Fsm` | the state machine of `fsm.c` | operators on a database, over `Sqlite` |
| `Leader` | `leader.c` | actions, over `Fsm` |
| `Gateway` | `gateway.c` | actions, over `Leader` |
| `Node` | `conn.c`, `server.c`, and raft as a node sees it | composes all of them; specification, properties |
| `NodeProofs` | | theorems about `Node` |
| `MCNode` | | scenarios for TLC |

`PROJECT.json` maps every definition to the lines it models. Operators whose
comment starts with "Mutant" are versions of a definition with a plausible
mistake; every property is violated with one of them.

### RaftElection

The state is that of `struct raft` as far as elections use it; `cast` is a
history variable, the set of votes written to disk with the log of the voter at
that time. There is one action per timer (`TickFollower`, `TickCandidate`,
`TickLeaderHeartbeat`, `TickLeaderContact`, `TransferExpires`), per message
handler (`recvRequestVote`, ...), for `raft_transfer`, and for crash and restart.
The log is reduced to the position of its last entry; heartbeats carry the
leader's position, and a follower that accepts one has the leader's log.

`electionStart` writes term and vote in two steps on disk; the model has the
failure between them as an alternative. `convertToFollower` leaves a pending
transfer alone, as the code does. Messages are a set: they are delayed and
reordered, and lost if `Lossy`.

### RaftReplication

An entry is its term, a log a sequence of terms. Each server has a log in memory,
a log on disk and a queue of disk operations, which complete in order or of which
all appends fail together (`uvAliveSegmentWriteCb`). `progress` holds next_index,
match_index and the mode; snapshot mode is not modelled. Handlers that send
"if the heartbeat is due" choose that freely.

Elections are reduced: a vote is granted by looking at the candidate, so the
request and its answer need no message (a candidate's term and stored log do not
change while it is candidate, and a lost or late message is a step not taken).
A crash and the restart are one step: while it is down a server takes no steps.
A behaviour starts from one of `Configurations`: terms, votes, logs and messages, who
may time out, crash, get client requests or have a failing disk, who is down for good,
and the bounds.
A write that failed is assumed to leave nothing on disk; `UvStorage` has what it may leave.

`ReplicatedLog` is the abstraction: one sequence of entries, which every server
applies in order, from the first again after a restart. `chosen` is a history
variable, the longest sequence any server has applied.

### UvStorage and UvMetadata

`uv` is `struct uv`: the open segments in the order of `append_segments`, the pending and
the writing requests, the current barrier and those attached to segments, the queue
of segments to finalize, the pool of prepared files and the one being created, and
the truncation or snapshot the thread pool works on. `dir` is the data directory, `raft`
the log, last_stored and snapshot of raft. An entry is the stamp under which raft
appended it, so that what replaces another can be told from it.

Calls of raft (`RaftAppend`, `RaftReplace`, `RaftTake`, `RaftInstall`, `uvClose`) do the whole
of `UvAppend`, `UvTruncate`, `UvSnapshotPut` and `uvClose`; a callback of the event loop
(`PrepareDone`, `WriteDone`, `FinalizeDone`, ...) is one action with the work it reports,
except that truncation and snapshot take one step per file, as the server may stop
between them. `WriteDone` tells raft, which may take a snapshot from within the
callback. A failed `assert` of the code sets `uv.aborted`. `Restart` replaces the state by
what `uvLoadSnapshotAndEntries` finds in one of `CrashImages`: the directory with a first
part of the requests of the write in flight. A failed write (`WriteFails`) leaves such a part in the file of its
segment, until the segment is finalized and the file cut. `uv.left` is a history field, the segment
that `uvClose` leaves in the queue without anything that would finalize it.

A behaviour follows one scenario: the events it may contain and the bounds of log
and stamps. Two events name circumstances that the code does not handle and that
only the run for finding 4 contains: `overlap`, a truncation during the taking of
a snapshot or a barrier that gets ahead of one that still waits for the file of its segment, and
`fail_queued`, a failure while other segments or a barrier depend on the one that fails.

`UvMetadata` has the two files and their versions. A write may fail whether or
not it reached the disk; the version in memory goes on in any case. The term in
memory may then be ahead of raft's, and the next vote is stored with it. A vote may be replaced in the
same term, as `electionVote` does for a transferee; `tried` is a history variable, the votes that could not be
stored since the last one that was.

### RaftLog, UvTransport and SendLog

`RaftReplication` has logs as sequences and messages as values. Here the same code is
looked at from inside one server, where a message and a disk write share memory with
the log. `RaftLog` has the ring buffer (`entries`, `size`, `front`, `back`, `offset`), the hash table
of reference counts (`refs`, with its buckets, collisions and growth) and the heap, the set of
payloads that are allocated; every operation of `log.c` is an operator on that record, and a
failed assertion, a double free included, clears `ok`. An entry is its term, payload and batch.

`UvTransport` has the clients, each with its timer, its queue of pending messages, its
writes in flight, its attempt to connect (resolving, connecting, handshake, the next address)
and its old stream; the incoming connections with their handshake and the message
being read; the listener; and the handles that closing waits for. A callback that the code
invokes is put in `cbs`, and `SendLog` runs it within the same step.

`SendLog` has one action per call (`raft_apply`, `replicationProgress`, `takeSnapshot`, `raft_close`, ...),
per message handled and per callback of libuv. The other servers are abstract: a leader of a
later term has any log that agrees with what earlier leaders had and with what is
committed, and sends any part of it. A scenario says how often each event happens
and what was loaded at start. `misplaced` in a scenario allows the reinstatement of
finding 6; a message with previous index 0 reaches only a log that was not
compacted (see the remarks in section 4).

### Vfs, Sqlite, Fsm, Leader, Gateway and Node

The node above raft: two clients, a database. The loop's thread runs one callback at a time; the variable
`call` holds the functions it has still to call, so one action is one function of the
source, and events (a client, raft, the application) happen when `call` is empty. A
page is the transaction that wrote it, a transaction writes two pages, and `ref` is what the applied
transactions make of a database. SQLite is external: `Sqlite` models what it does
through the VFS when a statement is stepped, reset or finalized, with the locks, the snapshot
of a reader, the spilling of a page before the commit, and the checkpoint.

`Gateway` has every request but DESCRIBE, with the early returns of its handler, and the
callbacks of barriers and executions; `Node` adds the connection (read, handle, write, stop),
the callbacks of raft on success, loss of leadership and failed writes, `state_cb`,
snapshots of both kinds of VFS, and stopping. raft is a log of entries not yet applied,
of which the first may be applied at any time; a follower receives and truncates entries. A failed assertion of the code
clears `ok`. The model is of the default build, without `DQLITE_NEXT`: statements are stepped on the loop's thread.

## 3. Runs

| Run | Expect | Shows |
|---|---|---|
| `MCElectionSafety` | pass | types, one leader per term, leaders have the votes they count, a candidate covers the logs of its voters, votes and terms survive crashes and restarts |
| `MCElectionLiveness` | pass | two voters with different terms and logs elect a leader; with leadership transfers a vote changes within a term only in favour of the voter's own transferee |
| `MCElectionDoubleVote` | violation | finding 1 |
| `MCElectionPreVote` | violation | finding 2 |
| `MCReplication` | pass | refinement of `ReplicatedLog`, log matching, soundness of last_stored and match_index, no shutdown, memory and disk agree in the end, no follower's write on a server that is not follower |
| `MCReplicationStale` | violation | finding 3 |
| `MCUvStorage` | pass | no assertion fails, the next index is that of raft's log, a restart recovers what was confirmed, the storage comes to rest and then holds raft's log, term and vote are durable |
| `MCUvStorageLost` | violation | finding 4 |
| `MCNode` | pass | no assertion fails; readers see what was applied and keep their snapshot; what was acknowledged was applied; locks are accounted for; no statement runs before what it must see is applied; snapshots stay intact; raft never calls back a connection that is gone; every request is answered |
| `MCNodeResume` | violation | finding 5 |
| `MCSendLog` | pass | no assertion fails; reference counts equal the holders; no payload is freed in use or leaked; the ring holds the log; every message is called back once; closing ends and leaves nothing |
| `MCSendLogReinstate` | violation | finding 6 |

Bounds. In elections `MaxTerm` and `MaxInFlight` bound terms and messages
in flight, and `Elector`, `Crasher` and `Transferrer` are the servers
that time out, crash and transfer; in replication the configuration says the same, and which
servers have failing disks and get client requests. The
interesting initial states are those after a restart, with conflicting barriers
of earlier leaders in the logs, so that one or two more terms suffice for
truncation, overwriting and re-election; TLC starts there instead of spending its
states on getting there. In `MCElectionSafety` three voters restart after an election, and two of them
crash again. `MCElectionLiveness` has no crashes (nothing obliges a server to come back) and transfers: a leader can be elected
in term 5 and `MaxTerm` is 6, so that TLC reaches transferees that stand and win, and former leaders that had voted for
themselves in term 6 and vote again, for the transferee. With two voters that second vote elects no second leader; with three it does
(finding 1), which is why transfers are not in the run that checks `ElectionSafety`. `VoteStability` is checked in both runs. `MCReplication` has two configurations. In `conflict` there are two leaders after those of
the initial state, and messages of the first are delivered to followers of the
second. In `faults` a leader with client requests and its follower crash, lose messages and have failing disks, and the
third server is down; it has one term only, since with another one finding 3 shows. Two messages in flight are enough for an old and a new one to cross.
Election and replication runs but the liveness one end when the bounds are reached, so deadlock is not
checked there.

The twelve scenarios of `MCNode` each allow a few kinds of request and event, three to six requests and
one to four events, so that one transaction meets another, a reader, a checkpoint (from two
frames on), a snapshot, a change of leadership or the end of its client. Left out of them: a loss of
leadership while a prepared query yields rows (finding 5), the installation of a
snapshot over an open database, and the statements of the first remark in section 4.

The eleven scenarios of `MCSendLog` have logs of up to three entries (eight where the ring, which starts with two
slots and grows to six and fourteen, has to wrap around and grow), a hash table that starts with two buckets
so that it collides and grows, one peer with two addresses, up to three
messages of which one may wait for a connection (`MaxPending`, three in the code), one incoming connection and one trailing
entry behind a snapshot. They combine a failing disk, failing connections, a change of the peer's address, deposed leaders whose
entries are replaced or returned, compaction, snapshots taken and installed, and closing at any time.

The scenarios of `MCUvStorage` have logs of three or four entries, segments of two entries
and one entry per append (several appends are still written together), so that
segments fill up, a truncation hits the middle and the start of a segment and
snapshots make segments removable, and two replacements, restarts or failures. They are: truncations with snapshots taken
and installed; snapshots taken with restarts; truncations with restarts; failures with
snapshots; failures with restarts; closing with all kinds of work under way; terms
and votes with restarts. Not claimed: recovery from a stop while segments are
rewritten by a truncation or an installation (`RestartRecovers` excludes it), the recovery of confirmed entries while the
leftovers of a failed write precede them in another open segment, the end of a close that leaves a segment behind (both in the remarks
of section 4), and the combinations that the hazards of `PROJECT.json` list with a note.

Fairness of `SendLog`: libuv completes what it was given, fires timers and closes handles (weak
fairness of `Stores \/ Sends \/ Closes`, written with `Busy`, the condition under which one of them can happen). The calls of
raft, incoming data and failures are not fair.

Fairness of `Node`: callbacks return, responses get written or fail, a closed connection is freed, a leader applies its log or steps down (it does
when it loses contact with a majority), and a transfer ends (it times out). Nothing is assumed of clients.

Fairness of `UvStorage`: what the thread pool and the kernel were given to do ends
(weak fairness of `Callbacks`); raft's calls, failures and stops are not fair.

Fairness (`FairSpec` of `RaftElection`). The timers of servers that are up fire
(the libuv timer calls `tickCb` for ever) and a message that stays in flight is
handled: weak fairness of both. The randomised timeouts make it unlikely that
candidates collide for ever; the bound `MaxTerm` takes the place of that
assumption, as servers stop bumping the term.

## 4. Findings

1. *Two votes in one term* (`election.c:220`, run `MCElectionDoubleVote`).
   `electionVote` accepts a candidate to which this server is transferring
   leadership even if it voted for another in this term. The transfer request
   survives the loss of leadership, so a former leader can vote twice and two
   leaders are elected in one term.
2. *Pre-vote deadlock* (`recv_request_vote.c:128`, run `MCElectionPreVote`). The
   answer to a pre-vote echoes the term of the request, so a server that lags by
   two or more terms is never told; its pre-votes are refused because its term is
   old, the others' are refused by it because its log is longer.
3. *Success that is none* (`recv_append_entries.c:57`, run `MCReplicationStale`).
   The rejection of a message of an old term is encoded by the index of the
   previous entry, and 0 means success. After a failed send, a leader with no
   match_index sends from the first entry, previous index 0; if that message is
   delayed until the same server leads a later term, the rejection raises
   match_index to the length of the follower's log. The run goes on to an entry
   committed without a majority, and a server that shuts down on the
   contradiction.
4. *Lost truncation* (`uv_append.c:828`, run `MCUvStorageLost`). While a snapshot is being
   taken the barrier in `uv->barrier` does not block, and entries are appended. A
   truncation then makes a barrier of its own, attaches it to the open segment and, as
   the segment is idle, finalizes it at once: the segment leaves the queue, and nothing
   refers to the barrier. The truncation never happens, and the entries it should
   have removed stay on disk beside those that replace them.

5. *A query resumed on a finalized statement* (`gateway.c:73`, run `MCNodeResume`). When leadership is lost,
   `gateway__leader_close` completes the request in progress, except for a QUERY with a prepared statement that is yielding
   rows: the statement is finalized with the others and the leader goes, but `g->req` stays. When the batch of rows has been written,
   `gateway__resume` finds a request and steps the finalized statement.
6. *An entry under the wrong index* (`log.c:529`, run `MCSendLogReinstate`). `logReinstate` moves `back` before it
   writes the entry, so that the entry lands one slot after its own. With one entry the slot still
   holds what was there before the truncation, which is the same entry; with two, the second index gets the first
   entry's payload. It takes a leader whose write of two entries fails while a message with both is being sent, and a
   next leader that received them.

Remarks. Further circumstances in which a property fails were met while modelling. They are left out
of the passing runs, or named as exceptions in the property, and listed as hazards with a note, or, where no run could show them, only here.

* A close that never ends. `uvAppendClose` finalizes the current segment, at once if it is idle, and then the others from the last one
  back to `uvGetCurrentAliveSegment` (`uv_append.c:1020`). If the current one was idle this is by now the next segment, which nothing
  finalizes any more, and `uvMaybeFireCloseCb` waits for it. It takes two segments whose files exist and whose appends
  are held back by a barrier, for instance of a truncation. The passing run contains these behaviours, and `AlwaysSettles`
  names their end as its one exception (`SegIds(uv) = <<uv.left>>`); without the exception TLC reports the close.
* Leftovers of a failed write (`uv_append.c:280`). The file of a failed write is cut to what was confirmed only when the thread pool finalizes it,
  and meanwhile appends go to the next segment. If one of them is confirmed and the server stops before
  the finalization, `uvSegmentLoadOpen` loads the leftovers first, and the confirmed entry under a higher index. The passing run
  contains these behaviours; `RestartRecovers` claims that confirmed entries are found only
  as long as nothing was written behind leftovers, and without that condition TLC reports the loss in seven steps.

* A transaction whose statement is not executed to its end by EXEC leaves frames in the WAL that nobody polls: an
  INSERT ... RETURNING sent as EXEC ends when it is reset, a COMMIT sent as QUERY is stepped without
  polling (`leader.c:383`, `gateway.c:459`). The next writer violates the assertion of `vfsFileShmLock` that no
  transaction is left (scenarios `MCUnpolled`, `NeverAborts`).
* `VfsRestore` leaves the index of the WAL as it was, so that a connection that has the database open while a snapshot is installed
  reads frames that are no longer there (`vfs.c:2729`, event `installopen`).
* `handle_describe` answers a request with an unknown format twice, first with a failure (`gateway.c:1397`).
* `isBatchReferenced` looks only at the entries in the log; when entries were loaded in one batch and some were
  truncated while a message refers to them, the batch is freed in use (`log.c:796`, a scenario with
  `batch` and messages violates `PayloadsAlive`).
* `replicationAppend` asserts on a delayed message with previous index 0 if the log was compacted in
  the meantime (`replication.c:1061`), as the term of a compacted entry is unknown.
* A leader may apply, and take a snapshot up to, an entry that others stored and whose own write is still
  in flight; if the write then fails the entry is truncated, and `logSnapshot` asserts that its
  term is known. In `SendLog` snapshots cover stored entries only.
* `uvTcpListenOnMultipleIP` advances to `addr_infos->ai_next` whatever the current address is, so at most two addresses are bound.
* In the storage: a blocking barrier that overtakes another (deadlock), a failure with a
  second segment queued (wrong indices, or a failed assertion when its file is ready), a
  failed preparation under a barrier (the barrier never fires), and a stop during an
  installation followed by appends and a second stop (entries loaded under lower indices).

## 5. Proofs

All theorems hold for any number of servers or connections and any bounds.

### Elections (`RaftElectionProofs`)

Assumed of the constants: there are at least two voters among finitely many servers (`ServerAssumption`), the
options and initial values have their types (`OptionAssumption`, `InitAssumption`), and a vote found on
disk is for a server that has reached the vote's term (`InitVoteAssumption`: `electionStart`
writes the term before it asks for votes).

* `TypeCorrect`: `Spec => []TypeOK`. `TypeOK` is inductive; the conjuncts are
  grouped into roles, terms and transfers, and lemmas on the shape of a step
  (`TermStep`, `RoleStep`, `GrantStep`) say once what each action does to each group.
* `VotesAreStable`: `Spec => VoteStability`, from `TypeOK` and the shape lemmas.
* `LeadersAreElected`: `Spec => []LeaderWasElected`. The inductive invariant
  `ElectedInv` adds that every granted answer in flight and every vote counted was
  cast: the answer outlives the state in which it was given.
* `OneLeaderPerTerm`: without transfers, `Spec => []ElectionSafety`. The inductive
  invariant `SafetyInv` adds that a vote cast in the current term is the one in
  `votedFor`, so two votes of one server in one term are equal; two majorities
  intersect. With transfers it is false (finding 1).
* `CandidatesCoverVoters`: `Spec => []CandidateCoversVoters`. The log changes between two elections
  of a server and requests outlive an election, so the property alone is not inductive. `CoverInv` adds that
  nobody asks for or has a vote in a term that the candidate has not reached, and that
  a request of the candidate's present election carries the log it still has. A new election is
  then one for which there are no votes and no requests yet. The step lemmas are
  `RequestStep`, `LogStep` and `CastStep`.

### Replication

`RaftReplication` is proved correct from `ReplicationAssumption`: the configurations have their types and are
`Restartable`, that is, the logs, votes and messages a behaviour starts with were left by leaders of
earlier terms (`past`) which a majority had elected. These leaders had entries of terms up to their own after the bootstrap entry and had
committed nothing but that entry; a server has no entry of a term that it has not reached; and a message ends with an
entry of the term of its sender, as a leader starts with a barrier and always sends all it has. TLC evaluates the assumption on the
configurations it explores.

`Induction` derives a rule of induction on natural numbers from the least element of a set, without an operator parameter;
a property is given to it as the set of numbers that have it. With it the recursive
functions of the model (`Replay`, what the disk is after each operation in its queue; `Truncates`, the
truncations among them; `Max` and `Min` of a set) can be reasoned about.

* `RaftReplicationTypes`. `TypeCorrect`: `Spec => []TypeOK`, and `FollowerWritesSafe`: `Spec =>
  []FollowerWritesAreFollowers`. The inductive invariant `TypeInv` adds the types of queues and messages
  (`QueuesOK`), that a follower's write in flight means the server knows a leader and so does not start
  an election (`Roles`), that next and match index lie within the leader's log, that no message goes to its sender, and that the
  bootstrap entry is never removed.
* `RaftDiskProofs`. `DiskFollowsMemory`: `Spec => []DiskCatchesUp`. The invariant `Queues` says of each server that
  its queue, replayed on its disk, ends in the log in memory (`QueueEndsInLog`), that every append finds its
  predecessor at the end of the disk (`AppendsAtEnd`), and that a truncation with an append before it is
  followed by the append it made room for (`TruncationsPaired`). The last is what the failure of all
  appends at once needs: what remains of the queue still ends in the log that the callbacks leave in memory.
* `RaftLogMatchingProofs`. `LogMatchingSafe`: `Spec => []LogMatching`. The property speaks of two logs, but an entry that
  was overwritten may come back in a message. The invariant `MatchInv` therefore says that there are a history `h` of the
  log of the leader of each term and ballots `v`, such that every prefix of every log, on disk, in memory and between two operations of
  the queue, and every message is a part of `h`; that a leader's log is `h` of its term; and that a term with a leader has a majority
  of ballots for it, so that no second leader starts another history. `h` and `v` are witnesses
  in the proof, not variables.
* `RaftLogMatchingProofs`, last section. `LastStoredSafe`: `Spec /\ []OneTruncation => []LastStoredSound`. `StoredInv` says that last_stored is the length of the disk, or
  the index before the truncation in flight (`Floor`), and that a truncation behind other
  operations removes an entry that differs from the one in memory now (`CutsDiffer`), so that
  `updateLastStored`, which compares terms, does not count it. The hypothesis is needed: `r->last_stored += i`
  (`replication.c:449`) adds a number of entries. If an entry is cut off and appended again while its first write is in flight, with two truncations under way, that
  write is counted and then the second one too, and last_stored exceeds what is on disk, although `raft.h:811` calls it
  "Highest log entry persisted on disk". TLC reaches this with five servers in twelve steps; the configurations of `MCReplication`
  end before that.
* `RaftSafetyProofs`. `MatchIndexSafe`, `NeverShutdownSafe` and `ReplicatedLogImplemented`: under the hypotheses
  `[]OneTruncation` and `[][StaleFirstLost]_vars`, `Spec` implies `[]MatchIndexSound`, `[]NeverShutdown` and
  `AppliesReplicatedLog`, the specification `ReplicatedLog` under its refinement mapping.

  Each hypothesis excludes the circumstances of one defect of the code. `OneTruncation` is that of `LastStoredSafe`: a leader
  may otherwise count entries that are not on disk. Not every second truncation does harm, and in `MCReplication` TLC explores some that do not;
  the proof excludes all of them. `StaleFirstLost` says that a message with previous index 0 does not arrive at a server
  of a later term, where its refusal reads as a success (finding 3; `MCReplicationStale` shows that the
  conclusion then fails). Every behaviour of `MCReplication` satisfies it. Everything else is left in: messages of earlier leaders
  that are lost, delayed, reordered or refused, crashes at any time, failed writes, truncations by any number of leaders.

  The past is again not in the variables. The invariant `SafetyInv` says that there are `h`, as above, and `a`, where `a[j][t]` is the number of
  entries of the leader of term *t* that server *j* had on disk while it was in that term:
  - what *j* confirmed it keeps; in a later term it may lose an entry only if that entry is `Abandoned`, that is, a majority has left
    the term without confirming it, so that it will never be committed (`Confirming`);
  - answers in flight and match_index are at most what was confirmed (`Counting`);
  - a candidate's stored log covers what its voters had confirmed when they voted, but for abandoned entries (`Covered`);
  - the log of the leader of a later term has every entry of every earlier leader that is not abandoned (`Complete`);
  - every commit index, in servers, messages and writes in flight, goes back to a term in which a majority confirmed an entry that the leader
    of that term had added at or after that index (`Committing`), and what was applied is a part of that leader's log (`Applying`).

  A committed entry is not abandoned, as two majorities intersect; so all later leaders have it, no
  message conflicts with it, and two sequences of applied entries are parts of one. The steps that change `h` and `a` (an election,
  an entry appended by a leader, the end of a write) have each a lemma that gives the new witnesses.
  For the refinement, `InitAbstract` and `NextAbstract` show that each step applies the next entry of `chosen` on one
  server, extends `chosen` by it, forgets what one server had applied, or stutters.

### Metadata

`UvMetadataProofs` proves `MetadataDurability`: `MetadataSpec => []MetadataDurable` for any voters
and bounds, from `MetadataAssumption`. The property is not inductive: `IInv` adds that the versions of the
two files have different parities (so they never tie) and are at most that in memory (so
the next write is the newest), and that the memory too holds a later term, or the
current one with its vote or one of `tried`, as it is what the next vote is stored with. The exception of `tried` is needed because
`electionVote` may replace a vote (finding 1): if storing the second one fails after it reached the disk, that one is loaded.

### Node

`NodeProofs` proves `AckedSafe`: `Spec => []AckedIsApplied` and `NoDanglingSafe`: `Spec => []NoDanglingCallback` for any finite set of
connections and any scenario, from `NodeAssumption`: there are finitely many connections, `NoConn` is none of them, and
the requests are those that `gateway__handle` knows.

Neither property is inductive: both depend on what the functions that are still in `call` will do, and these were
put there by raft, by a handler or by the end of another connection. `NodeInv` states the discipline that the code keeps without
saying so anywhere:

- a request waits for one thing, a barrier of the gateway, a barrier or a transaction of its leader, a change or a transfer, or one function of
  it runs, never both (`ConnSound`, and `Sound` for each function in `call`);
- if more than one function is left to call, all of them end requests (`AllEnd`): only the loss of leadership, a failed write and
  stopping call several, and what ends a request starts no new one;
- functions that close come after those that fail requests, and the closing of raft after all the others (`InOrder`), so that when
  `gateway__leader_close` fires the callback of a transaction, raft has already forgotten the transaction or is about to;
- an entry with a callback is what its connection waits for, a connection has one such entry, and only a
  leader has any (`EntrySound`, `OneEntry`);
- a connection that closes waits for something only if the callback is in `call`;
- a transaction of a request was applied, or is in the log, or the request is about to be failed (`ValsSound`); so a
  request that goes on to a success has all of its transactions applied.

`StepInv` reduces a function of one connection to its own state, as it touches no other one; `Goes`, `Waits` and `CloseStep` are its forms for
functions that answer or call on, that start to wait, and that close. `RaftStep` is the same for events of raft, which
touch no connection; `LossStep` is its form for a loss of all requests.
The databases and SQLite do not matter here: the steps hold whatever `Vfs`, `Sqlite` and `Fsm` compute.

### Only model-checked

* Liveness (`EventuallyLeader`, `EveryRequestAnswered` and the properties of the other fair specifications), which the prover cannot do.
* The invariants of `Node` about the contents of databases (`VisibleIsApplied`, `ReadersKeepSnapshot`, `SnapshotIntact`), about locks
  (`LocksAccounted`, `NoForeignFrames`, and `NeverAborts` and `NodeTypeOK`, which include the VFS): a page is found by the last frame of a sequence, and locks
  are counted by cardinalities over the connections, through operators on `Vfs` records several layers deep. `NodeInv` is the part of their inductive invariants that
  concerns requests.
* `SendLog` and `UvStorage`, whose operators fold over sequences with an operator as argument (`FoldLeft`, `SelectSeq`): the provers
  cannot instantiate the theorems about those.
* In `RaftReplication`, what happens without the two hypotheses: the conclusions are false then.

## 6. Plan

1. `Node`: the locks of `Vfs` (`LocksAccounted`) on top of `NodeInv`, then `NoForeignFrames`.
2. `UvStorage`: the folds over segments rewritten as recursive functions, then `NextIndexTracksLog`.
3. Membership: the committed and the uncommitted configuration as state of `RaftReplication`, with quorums taken from them; `h` and `a` stay, and
   the intersection of majorities has to be shown for two configurations one change apart.

## 7. Not modelled

* Membership: configurations, catch-up rounds, the rollback of a change. Every module has a
  fixed configuration; in `Node` a change is a request with its callback.
* Sending a snapshot to a follower (`sendSnapshot`), and reading one from disk (`snapshot_get`).
* In `Node`: DESCRIBE, more than one prepared statement of a connection, pages that version 1 left pending,
  the upgrade of a connection to raft, failures of `uv_write` that are reported at once, and failures of memory allocation.
* The thread pool, `vfs2.c` and the state machines in `recv_install_snapshot.c`: no default build
  runs them.
* Roles, the node store, bootstrap and handover of `server.c` and `roles.c`, and the C client: they act through the network
  on configurations.
* The slots of `registry.h`: with one prepared statement a connection has one slot, so that the look-up of a finalized statement's slot
  below another one's, where `NAME_get` reads the id of a null pointer (`src/lib/registry.h:153-159`), does not occur.
* The hash table of the WAL index. The comment at `vfs.c:1348-1350` says that the index must be invalidated when a
  transaction is aborted, which `VfsAbort` does not do; in the model frames are found by searching the WAL up to
  mxFrame, and nothing is said about entries of the hash table that an aborted transaction has left.
* Byte formats, compression, system call wrappers, tracing, and the test fixture.
