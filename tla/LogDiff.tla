------------------------------ MODULE LogDiff ------------------------------
(***************************************************************************)
(* Reconciliation of the phone's approval log with the PC's execution log  *)
(* (conveyance-core/src/storage/logdiff.rs): a pure function of both logs. *)
(*                                                                         *)
(* An event is [req, type, at, service, payload].  A phone row also has    *)
(* `genuine`: whether its signature is the phone's over this very row.     *)
(* A signature inside a payload is the set of fields it was made over.     *)
(***************************************************************************)
EXTENDS Naturals, Sequences

Null == "null"      \* JSON null
NoSig == {}         \* no signature in the payload

\* What the phone signs in an ExecuteResponse: all of its fields.
WireView(status, body) == {<<"status", status>>, <<"body", body>>}

\* What diff_logs rebuilds from the logged payload: null fields are dropped.
SigningView(payload) ==
  {f \in {<<"status", payload.status>>, <<"body", payload.body>>} : f[2] # Null}

\* parse_phone_export: one line that does not parse refuses the export.
ParsePhoneExport(lines) ==
  IF \E i \in DOMAIN lines : ~lines[i].wellformed
  THEN [ok |-> FALSE, rows |-> <<>>]
  ELSE [ok |-> TRUE, rows |-> [i \in DOMAIN lines |-> lines[i].row]]

\* The rows of a log that pass a test, each at the position it had.
Keep(log, Test(_)) == [i \in {j \in DOMAIN log : Test(log[j])} |-> log[i]]

Reqs(log, types) == {log[i].req : i \in {j \in DOMAIN log : log[j].type \in types}}

\* The event that stands for a request's execution: its last execute_result,
\* or its first execute_sent when there is no result.
PcExecuted(pc, r) ==
  LET of(type) == {i \in DOMAIN pc : pc[i].req = r /\ pc[i].type = type}
  IN  IF of("execute_result") # {}
      THEN pc[CHOOSE i \in of("execute_result") : \A j \in of("execute_result") : j <= i]
      ELSE pc[CHOOSE i \in of("execute_sent") : \A j \in of("execute_sent") : i <= j]

\* Rows of the PC whose embedded response signature does not verify; a row
\* that carries none is not judged.
PcSignatureFailures(pc) ==
  {pc[i].req : i \in {j \in DOMAIN pc :
     /\ pc[j].type = "execute_result"
     /\ pc[j].payload.sig # NoSig
     /\ pc[j].payload.sig # SigningView(pc[j].payload)}}

\* Seeded fault: rows with a bad signature still count as approvals.
DiffTrustsAll(pc, phone) ==
  LET granted == Reqs(phone, {"approval_granted"})
      executed == Reqs(pc, {"execute_sent", "execute_result"})
  IN  [matched |-> granted \cap executed,
       missing_execution |-> granted \ executed,
       execution_without_approval |-> executed \ granted,
       phone_failures |-> {}, pc_failures |-> PcSignatureFailures(pc),
       timestamp_anomalies |-> {},
       open_requests |-> Reqs(phone, {"approval_request"}) \ (granted \cup executed)]

DiffLogs(pc, phone) ==
  LET trusted == Keep(phone, LAMBDA row : row.genuine)
      granted == Reqs(trusted, {"approval_granted"})
      executed == Reqs(pc, {"execute_sent", "execute_result"})
      approved_at(r) ==
        trusted[CHOOSE i \in DOMAIN trusted :
                  /\ trusted[i].req = r /\ trusted[i].type = "approval_granted"
                  /\ \A j \in DOMAIN trusted :
                       trusted[j].req = r /\ trusted[j].type = "approval_granted" => i <= j].at
  IN  [matched |-> granted \cap executed,
       missing_execution |-> granted \ executed,
       execution_without_approval |-> executed \ granted,
       phone_failures |-> {phone[i].req : i \in {j \in DOMAIN phone : ~phone[j].genuine}},
       pc_failures |-> PcSignatureFailures(pc),
       timestamp_anomalies |->
         {r \in granted \cap executed : PcExecuted(pc, r).at < approved_at(r)},
       open_requests |->
         Reqs(trusted, {"approval_request"}) \ (granted \cup executed)]

\* DiffReport::clean.
Clean(report) ==
  /\ report.execution_without_approval = {}
  /\ report.phone_failures = {} /\ report.pc_failures = {}
  /\ report.timestamp_anomalies = {}

\* `conveyance log diff`: an export that does not parse, or a PC that is not
\* paired with exactly one phone, is refused before anything is compared.
DiffCommand(lines, pairings, pc) ==
  LET export == ParsePhoneExport(lines)
  IN  IF ~export.ok THEN "export_rejected"
      ELSE IF pairings # 1 THEN "needs_one_phone"
      ELSE IF Clean(DiffLogs(pc, export.rows)) THEN "clean" ELSE "mismatch"
=============================================================================
