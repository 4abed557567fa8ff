----------------------------- MODULE HashChain -----------------------------
(***************************************************************************)
(* The hash chain of both logs (conveyance-crypto/src/hashchain.rs).       *)
(*                                                                         *)
(* SHA-256 is ideal: a hash is the sequence of the events it was taken     *)
(* over, so two hashes are equal exactly when the histories behind them    *)
(* are.  The genesis hash is the empty history.                            *)
(***************************************************************************)
EXTENDS Naturals, Sequences

GENESIS_PREV_HASH == <<>>

ComputeEntryHash(prev, event) == Append(prev, event)

\* One row as stored: an event chained onto a head.
ChainRow(head, event) ==
  [event |-> event, prev_hash |-> head, hash |-> ComputeEntryHash(head, event)]

\* The hash of the newest row, or of nothing.
HeadOf(rows) ==
  IF rows = <<>> THEN GENESIS_PREV_HASH ELSE rows[Len(rows)].hash

BuildChain(events) ==
  [i \in DOMAIN events |-> ChainRow(SubSeq(events, 1, i - 1), events[i])]

\* The two ways a row fails the walk; the head before row i is the hash
\* stored in the row before it.
LinkBroken(rows, i) == rows[i].prev_hash # HeadOf(SubSeq(rows, 1, i - 1))
ContentTampered(rows, i) ==
  rows[i].hash # ComputeEntryHash(rows[i].prev_hash, rows[i].event)

\* Seeded fault: the walk recomputes every hash and follows no link.
VerifyContentOnly(rows) ==
  LET broken == {i \in DOMAIN rows : ContentTampered(rows, i)}
  IN  IF broken = {} THEN [ok |-> TRUE, index |-> 0, issue |-> "none"]
      ELSE LET i == CHOOSE i \in broken : \A j \in broken : i <= j
           IN  [ok |-> FALSE, index |-> i, issue |-> "content"]

\* The verdict of the walk: all rows, or the first row that fails and how.
VerifyChain(rows) ==
  LET broken == {i \in DOMAIN rows : LinkBroken(rows, i) \/ ContentTampered(rows, i)}
  IN  IF broken = {} THEN [ok |-> TRUE, index |-> 0, issue |-> "none"]
      ELSE LET i == CHOOSE i \in broken : \A j \in broken : i <= j
           IN  [ok |-> FALSE, index |-> i,
                issue |-> IF LinkBroken(rows, i) THEN "link" ELSE "content"]
=============================================================================
