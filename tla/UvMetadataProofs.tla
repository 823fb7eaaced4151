-------------------------- MODULE UvMetadataProofs --------------------------
(***************************************************************************)
(* The term and the vote survive every stop of the server, for any set of   *)
(* voters and any sequence of successful and failed writes.                 *)
(***************************************************************************)
EXTENDS UvMetadata, TLAPS

\* What is inductive: the versions of the two files have different parities, so
\* that they are never the same, and the memory, whose version is the greatest,
\* also says at least what raft has acted upon.
Covers(m) ==
  \/ m.term > term
  \/ m.term = term /\ (vote # 0 => m.vote \in {vote} \cup tried)

Versions ==
  /\ files[1].version % 2 = 1
  /\ files[2].version % 2 = 0
  /\ files[1].version <= metadata.version
  /\ files[2].version <= metadata.version

IInv ==
  /\ MetadataTypeOK
  /\ Versions
  /\ Covers(metadata)
  /\ Covers(uvMetadataLoad(files).found)

\* Files of different parities are never taken for a tie.
LEMMA LoadSucceeds == IInv => uvMetadataLoad(files).ok
<1> SUFFICES ASSUME IInv PROVE uvMetadataLoad(files).ok
  OBVIOUS
<1>1. files[1].version # files[2].version
  BY DEF IInv, MetadataTypeOK, Versions
<1> QED BY <1>1, Zenon DEF uvMetadataLoad

LEMMA InitIInv == MetadataInit => IInv
  BY MetadataAssumption
  DEF MetadataInit, IInv, MetadataTypeOK, Versions, Covers, Absent, uvMetadataLoad

\* A write with a version greater than both leaves either the old files or files
\* whose newest is the one written.
LEMMA StoreLemma ==
  ASSUME IInv, NEW m \in [version : Nat, term : Nat, vote : Voters \cup {0}],
         m.version = metadata.version + 1,
         NEW o \in Outcome, uvMetadataStore(m, o)
  PROVE  /\ metadata' = m
         /\ files' \in [1..2 -> [version : Nat, term : Nat, vote : Voters \cup {0}]]
         /\ Versions'
         /\ uvMetadataLoad(files)'.found = IF o.landed THEN m ELSE uvMetadataLoad(files).found
<1> USE DEF IInv, MetadataTypeOK, Versions
<1> DEFINE k == uvMetadataFileIndex(m.version)
<1>1. metadata' = m
  BY DEF uvMetadataStore
<1>2. CASE ~o.landed
  <2>1. files' = files
    BY <1>2 DEF uvMetadataStore
  <2> QED BY <1>1, <1>2, <2>1 DEF uvMetadataLoad
<1>3. CASE o.landed
  <2>1. files' = [files EXCEPT ![k] = m]
    BY <1>3 DEF uvMetadataStore
  <2>2. CASE m.version % 2 = 1
    <3>1. k = 1
      BY <2>2 DEF uvMetadataFileIndex
    <3>2. files'[1] = m /\ files'[2] = files[2]
      BY <2>1, <3>1
    <3> QED BY <1>1, <1>3, <2>1, <2>2, <3>1, <3>2 DEF uvMetadataLoad
  <2>3. CASE m.version % 2 # 1
    <3>1. k = 2 /\ m.version % 2 = 0
      BY <2>3 DEF uvMetadataFileIndex
    <3>2. files'[2] = m /\ files'[1] = files[1]
      BY <2>1, <3>1
    <3> QED BY <1>1, <1>3, <2>1, <3>1, <3>2 DEF uvMetadataLoad
  <2> QED BY <2>2, <2>3
<1> QED BY <1>2, <1>3

LEMMA NextIInv == IInv /\ [MetadataNext \/ MetadataReload]_metadataVars => IInv'
<1> SUFFICES ASSUME IInv, [MetadataNext \/ MetadataReload]_metadataVars PROVE IInv'
  OBVIOUS
<1> DEFINE Metadata == [version : Nat, term : Nat, vote : Voters \cup {0}]
<1>0. /\ metadata \in Metadata /\ files \in [1..2 -> Metadata]
      /\ term \in Nat /\ vote \in Voters \cup {0} /\ 0 \notin Voters
      /\ tried \subseteq Voters
  BY MetadataAssumption DEF IInv, MetadataTypeOK
<1>1. ASSUME NEW o \in Outcome, NEW t \in 1..MaxTerm, uvSetTerm(t, o) PROVE IInv'
  <2> DEFINE m == [version |-> metadata.version + 1, term |-> t, vote |-> 0]
  <2>1. m \in Metadata /\ m.version = metadata.version + 1
    BY <1>0, <1>1, MetadataAssumption
  <2>2. uvMetadataStore(m, o)
    BY <1>1 DEF uvSetTerm
  <2>3. /\ metadata' = m /\ files' \in [1..2 -> Metadata] /\ Versions'
        /\ uvMetadataLoad(files)'.found = IF o.landed THEN m ELSE uvMetadataLoad(files).found
    BY <2>1, <2>2, StoreLemma
  <2>4. /\ t \in Nat /\ t > term
        /\ term' = IF o.ok THEN t ELSE term
        /\ vote' = IF o.ok THEN 0 ELSE vote
        /\ tried' = IF o.ok THEN {} ELSE tried
    BY <1>1, MetadataAssumption DEF uvSetTerm
  <2>5. MetadataTypeOK'
    BY <1>0, <2>1, <2>3, <2>4 DEF MetadataTypeOK
  <2>6. Covers(metadata)'
    BY <1>0, <2>3, <2>4 DEF Covers
  <2>7. o.landed \/ ~o.ok
    BY DEF Outcome
  <2>8. Covers(uvMetadataLoad(files).found)'
    BY <1>0, <2>3, <2>4, <2>7 DEF Covers, IInv
  <2> QED BY <2>3, <2>5, <2>6, <2>8 DEF IInv
<1>2. ASSUME NEW o \in Outcome, NEW v \in Voters, uvSetVote(v, o) PROVE IInv'
  <2> DEFINE m == [version |-> metadata.version + 1, term |-> metadata.term, vote |-> v]
  <2>1. m \in Metadata /\ m.version = metadata.version + 1 /\ m.term = metadata.term /\ m.vote = v
    BY <1>0
  <2>2. uvMetadataStore(m, o)
    BY <1>2 DEF uvSetVote
  <2>3. /\ metadata' = m /\ files' \in [1..2 -> Metadata] /\ Versions'
        /\ uvMetadataLoad(files)'.found = IF o.landed THEN m ELSE uvMetadataLoad(files).found
    BY <2>1, <2>2, StoreLemma
  <2>4. /\ term' = term /\ vote' = IF o.ok THEN v ELSE vote
        /\ tried' = IF o.ok THEN {} ELSE tried \cup {v}
    BY <1>2 DEF uvSetVote
  <2>5. MetadataTypeOK'
    BY <1>0, <2>1, <2>3, <2>4 DEF MetadataTypeOK
  <2>6. Covers(metadata)'
    BY <1>0, <2>1, <2>3, <2>4 DEF Covers, IInv
  <2>7. o.landed \/ ~o.ok
    BY DEF Outcome
  <2>8. Covers(uvMetadataLoad(files).found)'
    BY <1>0, <2>1, <2>3, <2>4, <2>7 DEF Covers, IInv
  <2> QED BY <2>3, <2>5, <2>6, <2>8 DEF IInv
<1>3. CASE MetadataReload
  <2> DEFINE m == uvMetadataLoad(files).found
  <2>1. metadata' = m /\ term' = m.term /\ vote' = m.vote /\ tried' = {} /\ files' = files
    BY <1>3 DEF MetadataReload
  <2>2. m \in Metadata /\ files[1].version <= m.version /\ files[2].version <= m.version
    BY <1>0 DEF uvMetadataLoad
  <2>3. MetadataTypeOK'
    BY <1>0, <2>1, <2>2 DEF MetadataTypeOK
  <2>4. Versions'
    BY <2>1, <2>2 DEF Versions, IInv
  <2>5. uvMetadataLoad(files)' = uvMetadataLoad(files)
    BY <2>1 DEF uvMetadataLoad
  <2>6. Covers(metadata)' /\ Covers(uvMetadataLoad(files).found)'
    BY <2>1, <2>2, <2>5 DEF Covers
  <2> QED BY <2>3, <2>4, <2>6 DEF IInv
<1>4. CASE UNCHANGED metadataVars
  BY <1>4 DEF metadataVars, IInv, MetadataTypeOK, Versions, Covers, uvMetadataLoad
<1> QED BY <1>1, <1>2, <1>3, <1>4 DEF MetadataNext

\* However writes fail and whenever the server stops, the metadata files can be
\* read and hold a later term, or the current one with the vote that was given or
\* one whose storing failed since: a server that voted never comes back without its
\* vote, and with the same one unless electionVote had begun to replace it for a
\* transferee (uvSetTerm, uvSetVote, uvMetadataLoad).
THEOREM MetadataDurability == MetadataSpec => []MetadataDurable
<1>1. IInv => MetadataDurable
  BY LoadSucceeds DEF IInv, MetadataDurable, Covers
<1> QED BY <1>1, InitIInv, NextIInv, PTL DEF MetadataSpec
==============================================================================
