----------------------------- MODULE MCUvStorage -----------------------------
(* Scenarios for model checking the storage. *)
EXTENDS UvStorage

\* Truncations, snapshots taken and installed, in any order in which no barrier
\* overtakes another.
Rewrites ==
  [events |-> {"append", "replace", "take", "install"}, maxIndex |-> 3, maxStamp |-> 3]

\* The server stops at any point, or its files cannot be created or written.
SnapshotCrashes ==
  [events |-> {"append", "take", "crash"}, maxIndex |-> 4, maxStamp |-> 3]

TruncateCrashes ==
  [events |-> {"append", "replace", "crash"}, maxIndex |-> 3, maxStamp |-> 3]

FailedWrites ==
  [events |-> {"append", "take", "fail"}, maxIndex |-> 3, maxStamp |-> 3]

FailedWritesCrashes ==
  [events |-> {"append", "fail", "crash"}, maxIndex |-> 4, maxStamp |-> 3]

\* The storage is closed while it has work to do.
Closings ==
  [events |-> {"append", "replace", "take", "close"}, maxIndex |-> 3, maxStamp |-> 3]

\* Terms and votes, stored with failures and reloaded.
TermsAndVotes ==
  [events |-> {"metadata", "crash"}, maxIndex |-> 1, maxStamp |-> 3]

Covered == {Rewrites, SnapshotCrashes, TruncateCrashes, FailedWrites,
            FailedWritesCrashes, Closings, TermsAndVotes}

\* A follower that takes a snapshot when it has to truncate its log.
Overlapping ==
  {[events |-> {"append", "replace", "take", "overlap"},
    maxIndex |-> 3, maxStamp |-> 2]}
==============================================================================
