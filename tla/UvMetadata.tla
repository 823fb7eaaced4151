------------------------------ MODULE UvMetadata ------------------------------
(***************************************************************************)
(* The term and the vote on disk: two files, written in turn, each with a   *)
(* version number; the one with the greater version is loaded.  Writing is  *)
(* synchronous.  A write may fail, and may then have reached the disk or    *)
(* not; a file that was being created when the server stopped is shorter    *)
(* than it should be and counts as absent.  A file holds 32 bytes, which    *)
(* the disk overwrites as a whole.                                          *)
(***************************************************************************)
EXTENDS Integers

CONSTANTS
  Voters,        \* the servers this one may vote for
  MaxTerm,
  MaxVersion     \* bounds of the exploration

ASSUME MetadataAssumption ==
  /\ 0 \notin Voters
  /\ MaxTerm \in Nat /\ MaxVersion \in Nat

VARIABLES
  metadata,      \* uv->metadata
  files,         \* metadata1 and metadata2, version 0 when absent
  term,          \* r->current_term
  vote,          \* r->voted_for, 0 when none
  tried          \* history: the votes that could not be stored since the last that was

metadataVars == <<metadata, files, term, vote, tried>>

Absent == [version |-> 0, term |-> 0, vote |-> 0]

MetadataTypeOK ==
  LET Metadata == [version : Nat, term : Nat, vote : Voters \cup {0}]
  IN  /\ metadata \in Metadata /\ files \in [1..2 -> Metadata]
      /\ term \in Nat /\ vote \in Voters \cup {0}
      /\ tried \subseteq Voters

\* Mutant of uvMetadataLoad: metadata1 preferred when it exists.
uvMetadataLoadFirst(f) ==
  [ok |-> TRUE, found |-> IF f[1].version > 0 THEN f[1] ELSE f[2]]

\* uvMetadataLoad: the file with the greater version; both having the same one
\* is an error unless neither exists.
uvMetadataLoad(f) ==
  [ok |-> f[1].version # f[2].version \/ f[1].version = 0,
   found |-> IF f[1].version > f[2].version THEN f[1] ELSE f[2]]

\* uvMetadataFileIndex
uvMetadataFileIndex(version) == IF version % 2 = 1 THEN 1 ELSE 2

\* uvMetadataStore, whose outcome is one of: written, failed but written,
\* failed and not written.
Outcome == {[ok |-> TRUE, landed |-> TRUE], [ok |-> FALSE, landed |-> TRUE],
            [ok |-> FALSE, landed |-> FALSE]}

uvMetadataStore(m, o) ==
  /\ m.version <= MaxVersion
  /\ metadata' = m
  /\ files' = IF o.landed
              THEN [files EXCEPT ![uvMetadataFileIndex(m.version)] = m]
              ELSE files

\* uvSetTerm: the version and the term in memory change even if the write
\* fails; raft moves to the new term only if it succeeds.
uvSetTerm(t, o) ==
  /\ t > term
  /\ uvMetadataStore([version |-> metadata.version + 1, term |-> t, vote |-> 0], o)
  /\ term' = IF o.ok THEN t ELSE term
  /\ vote' = IF o.ok THEN 0 ELSE vote
  /\ tried' = IF o.ok THEN {} ELSE tried

\* uvSetVote: only the vote is replaced, in a term that may have failed before.
\* electionVote may replace a vote of the same term, by one for the transferee.
uvSetVote(v, o) ==
  /\ uvMetadataStore(
       [version |-> metadata.version + 1, term |-> metadata.term, vote |-> v], o)
  /\ vote' = IF o.ok THEN v ELSE vote
  /\ tried' = IF o.ok THEN {} ELSE tried \cup {v}
  /\ UNCHANGED term

\* uvInit and uvLoad after a crash.
MetadataReload ==
  LET m == uvMetadataLoad(files).found
  IN  /\ metadata' = m /\ term' = m.term /\ vote' = m.vote
      /\ tried' = {}
      /\ UNCHANGED files

\* After uvBootstrap, which sets the term to 1.
MetadataInit ==
  /\ metadata = [version |-> 1, term |-> 1, vote |-> 0]
  /\ files = <<metadata, Absent>>
  /\ term = 1 /\ vote = 0 /\ tried = {}

MetadataNext ==
  \E o \in Outcome : \/ \E t \in 1..MaxTerm : uvSetTerm(t, o)
                     \/ \E v \in Voters : uvSetVote(v, o)

\* The term and the vote by themselves, with the server stopping at any time.
MetadataSpec ==
  MetadataInit /\ [][MetadataNext \/ MetadataReload]_metadataVars

\* Whenever the server stops, the files are readable and say at least what raft
\* has acted upon: a later term, or the same term with the vote that was given; if
\* storing another vote in its place has failed since, that one may be found.  A
\* server that has voted never finds that it has not.
MetadataDurable ==
  LET m == uvMetadataLoad(files)
  IN  /\ m.ok
      /\ \/ m.found.term > term
         \/ m.found.term = term /\ (vote # 0 => m.found.vote \in {vote} \cup tried)
==============================================================================
