------------------------------ MODULE MCPairing ------------------------------
(* The instances TLC checks, and a statement of the code's own comments that *)
(* its behaviour does not keep.                                              *)
EXTENDS Pairing

CONSTANTS c1, c2, p1, n1, n2

MCSkews == {-1, 0}

\* "ANY rejection or timeout at AWAITING_CONFIRM ... returns to UNPAIRED and BURNS
\* the nonce" (machine.rs:4-6): whatever ended a run that had connected to a phone,
\* its own guard knows the nonce.
FailureBurns ==
  \A c \in Ceremonies :
    pc[c].ended \in {"invalid", "confirm_timeout", "replayed"} =>
      pc[c].qr.nonce \in pc[c].guard.seen
==============================================================================
