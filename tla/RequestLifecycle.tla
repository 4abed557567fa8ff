-------------------------- MODULE RequestLifecycle --------------------------
(***************************************************************************)
(* What the execution log promises about one routed call: an operation is  *)
(* executed only after it was approved, at most once, and a call that has  *)
(* reached a terminal row is closed for good.  The phases are the newest   *)
(* row a reader of the log sees for a req_id.                              *)
(*                                                                         *)
(* Two things bound the promise.  A call one of whose rows could not be    *)
(* appended may skip the phases such a row stands for, and nothing else;   *)
(* and nothing is promised of a call two daemons have worked on.           *)
(***************************************************************************)
CONSTANTS AuthRequests, ListRequests

VARIABLES
  phase,      \* [Requests -> the phase the log shows]
  missing,    \* calls with a row that could not be appended
  contested   \* calls that were open while a second daemon started up

Requests == AuthRequests \cup ListRequests

Init ==
  /\ phase = [r \in Requests |-> "unseen"]
  /\ missing = {} /\ contested = {}

Move(r, from, skipped, to) ==
  /\ \/ phase[r] \in from
     \/ r \in missing /\ phase[r] \in skipped
     \/ r \in contested'
  /\ phase' = [phase EXCEPT ![r] = to]
  /\ missing' = missing
  /\ contested \subseteq contested'

Ask(r)     == Move(r, {"unseen"}, {}, "asked")
Grant(r)   == r \in AuthRequests /\ Move(r, {"asked"}, {"unseen"}, "granted")
Refuse(r)  == r \in AuthRequests /\ Move(r, {"asked"}, {"unseen"}, "refused")
Execute(r) == Move(r, {"granted"}, {"unseen", "asked"}, "executing")
Finish(r)  == Move(r, {"executing"}, {"unseen", "asked", "granted"}, "finished")
GiveUp(r)  == Move(r, {"asked", "granted", "executing"}, {"unseen"}, "given_up")

(* A row is lost, or a second daemon starts: the log shows what it did. *)
Mishap ==
  /\ phase' = phase
  /\ missing \subseteq missing' /\ contested \subseteq contested'

Next ==
  \/ \E r \in Requests :
       \/ Ask(r) \/ Grant(r) \/ Refuse(r)
       \/ Execute(r) \/ Finish(r) \/ GiveUp(r)
  \/ Mishap

Spec == Init /\ [][Next]_<<phase, missing, contested>>
=============================================================================
