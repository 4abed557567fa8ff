--------------------------- MODULE MessageChannel ---------------------------
(***************************************************************************)
(* What a session promises its two ends: each receives what the other      *)
(* sent, in order, without loss in the middle or repetition, until an end  *)
(* stops listening for good.                                               *)
(***************************************************************************)
EXTENDS Naturals, Sequences

CONSTANTS Sides, Messages

VARIABLES
  sent,       \* what each side handed to its session
  delivered,  \* what each side received from the other
  deaf        \* sides that have stopped listening

cvars == <<sent, delivered, deaf>>

ChannelInit ==
  /\ sent = [s \in Sides |-> <<>>]
  /\ delivered = [s \in Sides |-> <<>>]
  /\ deaf = {}

Hand(s, m) == sent' = [sent EXCEPT ![s] = Append(@, m)] /\ UNCHANGED <<delivered, deaf>>

\* The next message or several of them: one chunk may complete more than one.
Deliver(s, from) ==
  /\ s \notin deaf
  /\ \E k \in Len(delivered[s]) + 1 .. Len(sent[from]) :
       delivered' = [delivered EXCEPT ![s] = SubSeq(sent[from], 1, k)]
  /\ deaf' \in {deaf, deaf \cup {s}}
  /\ UNCHANGED sent

StopListening(s) == deaf' = deaf \cup {s} /\ UNCHANGED <<sent, delivered>>

ChannelNext ==
  \E s \in Sides : \/ \E m \in Messages : Hand(s, m)
                   \/ \E from \in Sides \ {s} : Deliver(s, from)
                   \/ StopListening(s)

ChannelSpec == ChannelInit /\ [][ChannelNext]_cvars
=============================================================================
