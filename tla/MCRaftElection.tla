--------------------------- MODULE MCRaftElection ---------------------------
EXTENDS RaftElection, TLC

\* A cluster just bootstrapped: term 1 and the configuration entry on disk.
MCFreshTerm == [i \in Server |-> 1]
MCFreshVote == [i \in Server |-> None]
MCFreshLog == [i \in Server |-> [term |-> 1, index |-> 1]]

\* s1 was elected by everybody in term 2 and wrote its barrier, and the cluster
\* restarts before that entry is replicated.
CONSTANTS s1, s2, s3
MCRestartTerm == [i \in Server |-> 2]
MCRestartVote == [i \in Server |-> s1]
MCRestartLog == [MCFreshLog EXCEPT ![s1] = [term |-> 2, index |-> 2]]

\* s3 was leader of terms 3 and 4 with the vote of s2, and crashed each time
\* before replicating anything; s1, cut off meanwhile, still is in term 2 and
\* has the barrier entry of its own leadership there.
MCStaleTerm == s1 :> 2 @@ s2 :> 4 @@ s3 :> 4
MCStaleVote == s1 :> s1 @@ s2 :> s3 @@ s3 :> s3
MCStaleLog == s1 :> [term |-> 2, index |-> 2] @@ s2 :> [term |-> 1, index |-> 1]
                @@ s3 :> [term |-> 4, index |-> 3]
\* Two voters: s1 won term 2 and wrote its barrier, was cut off from s2, which
\* timed out twice, and learned of term 3 but not yet of term 4.
MCLaggingTerm == s1 :> 3 @@ s2 :> 4
MCLaggingVote == s1 :> None @@ s2 :> s2
MCLaggingLog == s1 :> [term |-> 2, index |-> 2] @@ s2 :> [term |-> 1, index |-> 1]
=============================================================================
