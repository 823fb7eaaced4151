----------------------------- MODULE MCSendLog -----------------------------
(* Instances of SendLog for TLC: one peer and one incoming connection. *)
EXTENDS SendLog

Events == {"apply", "applyFails", "send", "address", "elect", "writeFails", "noStart",
           "connectFails", "sendFails", "accept", "eof", "recv", "snapshot", "close"}

(* A scenario: how often the events named by f happen, others never; in g, *)
(* whether snapshots are installed and entries misplaced, the number of    *)
(* entries loaded and whether in one batch, and the bound of the log.      *)
Times(f, g) ==
    g @@ f @@ [install |-> FALSE, misplaced |-> FALSE, loaded |-> 1, batch |-> FALSE,
               maxIndex |-> 3]
           @@ [e \in Events |-> 0]

Usual == <<>>

MCScenarios ==
    { \* a leader appends and sends; its disk fails, its connection too
      Times([elect |-> 1, apply |-> 2, send |-> 3, writeFails |-> 1, sendFails |-> 1], Usual),
      Times([elect |-> 1, apply |-> 1, send |-> 1, writeFails |-> 1, sendFails |-> 1,
             close |-> 1], Usual),
      \* it is deposed, and a new leader replaces or returns its entries
      Times([elect |-> 1, apply |-> 2, send |-> 1, accept |-> 1, recv |-> 2, writeFails |-> 1],
            Usual),
      Times([elect |-> 1, apply |-> 1, send |-> 1, accept |-> 1, recv |-> 2, close |-> 1], Usual),
      \* connections to a peer fail, more messages wait than may
      Times([elect |-> 1, send |-> 3, connectFails |-> 3, noStart |-> 1, close |-> 1], Usual),
      \* the peer gets another address
      Times([elect |-> 1, send |-> 2, address |-> 1, connectFails |-> 1, sendFails |-> 1,
             close |-> 1], Usual),
      \* a snapshot is taken and the log compacted while entries are sent
      Times([elect |-> 1, apply |-> 2, applyFails |-> 1, send |-> 2, snapshot |-> 1], Usual),
      \* the ring wraps around, and grows
      Times([elect |-> 1, apply |-> 4, send |-> 1, snapshot |-> 1],
            [loaded |-> 4, maxIndex |-> 8]),
      \* a follower, with its disk failing, snapshots taken and installed
      Times([accept |-> 1, recv |-> 4, writeFails |-> 1, snapshot |-> 1, close |-> 1],
            [install |-> TRUE]),
      Times([accept |-> 1, recv |-> 2, snapshot |-> 2, close |-> 1],
            [install |-> TRUE, loaded |-> 3, batch |-> TRUE]),
      \* incoming connections end at any time
      Times([accept |-> 2, recv |-> 2, eof |-> 1, close |-> 1], Usual)
    }

(* Two entries of the server, whose write fails, come back. *)
MCReinstate ==
    {Times([elect |-> 1, apply |-> 2, send |-> 1, accept |-> 1, recv |-> 2, writeFails |-> 1],
           [misplaced |-> TRUE])}
=============================================================================
