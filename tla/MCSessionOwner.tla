--------------------------- MODULE MCSessionOwner ---------------------------
(***************************************************************************)
(* Instances of SessionOwner for TLC, and statements of the code's own     *)
(* comments that its behaviour does not keep.                              *)
(***************************************************************************)
EXTENDS SessionOwner, TLC

Symmetric == Permutations(AuthRequests)

-----------------------------------------------------------------------------
(* "every path either answers its reply or re-installs a new flight, so    *)
(* ownership is linear here" (finish_approval): no caller of this process  *)
(* has its reply sender dropped while the daemon serves.                   *)
NoCallerDropped == Serving => \A r \in thisLife : reply[r] # "lost"

(* "Our log is authoritative and fail-closed: an execution that cannot be  *)
(* logged must not happen" (storage/mod.rs): the phone is sent an          *)
(* ExecuteRequest only if the row that says so was written.                *)
NoUnloggedExecution ==
  \A r \in Requests :
    (\E e \in Epochs : SentIn(r, "execute_request", e)) =>
      HasRow(trail[r], "execute_sent")

(* A req_id the sweep finds open "means the process died between those     *)
(* steps" (recovery.rs): a call that is in flight with the phone is never  *)
(* marked as timed out in the log.                                         *)
SweepSparesLiveCalls ==
  flight # NoFlight => ~HasRow(trail[flight.req], "request_timeout")
=============================================================================
