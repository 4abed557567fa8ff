--------------------------- MODULE MCExecutionLog ---------------------------
(***************************************************************************)
(* Instances of ExecutionLog: a daemon and one command beside it.          *)
(***************************************************************************)
EXTENDS ExecutionLog

CONSTANTS mail

MCServiceOf == [r \in Requests |-> mail]
AllRows == [since |-> NoHead, tool |-> NoHead, status |-> NoHead, anomalous |-> FALSE]
MCFilters ==
  {[AllRows EXCEPT !.since = [n |-> 0, unit |-> "s"], !.tool = mail, !.anomalous = TRUE],
   [AllRows EXCEPT !.since = [n |-> 1, unit |-> "none"]]}
MCBodies == {"value", Null}
=============================================================================
