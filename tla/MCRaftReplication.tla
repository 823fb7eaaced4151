-------------------------- MODULE MCRaftReplication --------------------------
EXTENDS RaftReplication, TLC

CONSTANTS s1, s2, s3

\* A cluster just bootstrapped, with term 1 and the configuration entry on disk.
\* One server is down; the application submits entries to s1, s1 and s2 crash, and
\* messages are lost.
Faults ==
  [elector |-> {s1}, crasher |-> {s1, s2}, failing |-> {s1, s2}, client |-> {s1},
   down |-> {s3}, lossy |-> TRUE, term |-> [i \in Server |-> 1],
   vote |-> [i \in Server |-> None], log |-> [i \in Server |-> <<1>>],
   past |-> <<<<1>>, << >>>>, msgs |-> {}, maxTerm |-> 2, maxLog |-> 3]

\* s1 was leader of term 2 and s3, which did not hear of it, of term 3, each
\* with the vote of s2; both crashed before replicating their barrier, and the
\* cluster restarts.
Conflict ==
  [elector |-> {s1, s3}, crasher |-> {}, failing |-> {s3}, client |-> {},
   down |-> {}, lossy |-> FALSE, term |-> s1 :> 2 @@ s2 :> 3 @@ s3 :> 3,
   vote |-> s1 :> s1 @@ s2 :> s3 @@ s3 :> s3,
   log |-> s1 :> <<1, 2>> @@ s2 :> <<1>> @@ s3 :> <<1, 3>>,
   past |-> <<<<1>>, <<1, 2>>, <<1, 3>>, << >>, << >>>>,
   msgs |-> {}, maxTerm |-> 5, maxLog |-> 3]

MCConfigurations == [faults |-> Faults, conflict |-> Conflict]

\* As Conflict, but s1 crashed before it wrote its barrier, and a message that it
\* sent then is still in flight: sending to s3 had failed once, and since
\* progressToProbe the messages to s3 started at the first entry.
MCStale ==
  [stale |->
     [Conflict EXCEPT
        !.failing = {}, !.log[s1] = <<1>>,
        !.msgs = {[type |-> "AppendEntries", from |-> s1, to |-> s3, term |-> 2,
                   prev |-> 0, prevTerm |-> 0, entries |-> <<1, 2>>, commit |-> 1]}]]
=============================================================================
