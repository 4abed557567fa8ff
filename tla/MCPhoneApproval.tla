-------------------------- MODULE MCPhoneApproval --------------------------
(***************************************************************************)
(* Instances of PhoneApproval: the requests go to one destination that the *)
(* log does not know yet, so the first needs authentication and a later    *)
(* one may need a tap only.                                                *)
(***************************************************************************)
EXTENDS PhoneApproval, TLC

CONSTANTS new, old

MCDestinations == {new, old}
MCDestOf == [r \in Requests |-> new]
MCPriorGrants == <<old>>

Symmetric == Permutations(Requests)
=============================================================================
