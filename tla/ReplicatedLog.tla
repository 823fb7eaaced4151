---------------------------- MODULE ReplicatedLog ----------------------------
(***************************************************************************)
(* What raft promises the state machines above it (fsm->apply and the       *)
(* callbacks of raft_apply and raft_barrier): there is one sequence of      *)
(* entries, chosen once and for all; every server applies its entries in    *)
(* order, and a server that restarts applies them again from the first.     *)
(***************************************************************************)
EXTENDS Sequences, SequencesExt

CONSTANTS
  Server,
  First     \* the entries every server has applied when it starts

VARIABLES
  chosen,   \* the entries that some server has ever applied
  applied   \* the entries each server has applied since it started

vars == <<chosen, applied>>

Init ==
  /\ chosen = First
  /\ applied = [i \in Server |-> First]

\* Server i applies some more entries, possibly the first to do so.
Apply(i) ==
  /\ IsPrefix(chosen, chosen')
  /\ IsStrictPrefix(applied[i], applied'[i])
  /\ IsPrefix(applied'[i], chosen')
  /\ chosen' \in {chosen, applied'[i]}
  /\ applied' = [applied EXCEPT ![i] = applied'[i]]

Restart(i) ==
  /\ applied' = [applied EXCEPT ![i] = First]
  /\ UNCHANGED chosen

Next == \E i \in Server : Apply(i) \/ Restart(i)

Spec == Init /\ [][Next]_vars
=============================================================================
