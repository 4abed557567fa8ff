---------------------------- MODULE ExecutionLog ----------------------------
(***************************************************************************)
(* The execution log of the PC: one SQLite file opened by a daemon and by  *)
(* `conveyance log` commands, each a process of its own                    *)
(* (conveyance-core/src/storage/logdb.rs and migrate.rs,                   *)
(* conveyance/src/logcmd.rs), and the phone's log it is reconciled with.   *)
(*                                                                         *)
(* A transaction is one step; a command that reads twice takes one step    *)
(* per read, so commits of the other processes fall in between.  A power   *)
(* loss puts the file back to any state committed since the last           *)
(* checkpoint (WAL with synchronous=NORMAL).                               *)
(***************************************************************************)
EXTENDS HashChain, LogDiff

CONSTANTS
  Daemons, Clis,  \* the processes
  Requests,       \* request ids
  ServiceOf,      \* the service of each request
  Bodies,         \* response bodies
  Filters,        \* the filters of `log query` and `log export`
  Pairings,       \* numbers of phones the PC may be paired with
  MaxRows,        \* bound: rows in the log
  MaxTime,        \* bound: seconds on the two clocks together
  MaxFaults,      \* bound: failed appends, power losses, edits of the file from outside
  NoHead,         \* chain_meta holds no head_hash row
  Malformed       \* a hash column that is not 32 bytes

ASSUME LogBounds ==
  /\ {MaxRows, MaxTime, MaxFaults} \subseteq Nat
  /\ Daemons \cap Clis = {}

VARIABLES
  db,      \* the file: user_version, tables, entries, the recorded head
  wal,     \* the states committed since the last checkpoint
  proc,    \* each process: where it is in its command, and what it has read
  phone,   \* the phone's signed log
  stage,   \* the daemon's side of each request
  now,     \* unix_now on the PC
  there,   \* unix time on the phone
  ahead,   \* history: requests granted while the phone's clock was ahead
  failures, edits, losses

clocks == <<now, there, ahead>>
vars == <<db, wal, proc, phone, stage, clocks, failures, edits, losses>>

Procs == Daemons \cup Clis
Migrations == <<"entries", "chain_meta">>
Closed == [at |-> "closed", version |-> 0, seen |-> <<>>, repair |-> FALSE,
           out |-> [kind |-> "none", value |-> <<>>]]

Event(r, type, payload) ==
  [req |-> r, type |-> type, at |-> now, service |-> ServiceOf[r], payload |-> payload]
NoPayload == [status |-> "none", body |-> "none", sig |-> NoSig]
ResultPayload(body) ==
  [status |-> "ok", body |-> body, sig |-> WireView("ok", body)]

\* A new file, or one that a build before chain_meta wrote one row to.
OldFile ==
  [version |-> 1, tables |-> {"entries"}, meta |-> NoHead,
   rows |-> BuildChain(<<[req |-> "lifecycle", type |-> "daemon_note", at |-> 0,
                          service |-> "none", payload |-> NoPayload]>>)]
NewFile == [version |-> 0, tables |-> {}, meta |-> NoHead, rows |-> <<>>]

Init ==
  /\ db \in {NewFile, OldFile}
  /\ wal = {db}
  /\ proc = [p \in Procs |-> Closed]
  /\ phone = <<>>
  /\ stage = [r \in Requests |-> "new"]
  /\ now = 0 /\ there = 0 /\ ahead = {}
  /\ failures = 0 /\ edits = 0 /\ losses = 0

-----------------------------------------------------------------------------
(* Transactions.                                                           *)

Commit(d) == db' = d /\ wal' = wal \cup {d}

Events == [i \in DOMAIN db.rows |-> db.rows[i].event]

\* Seeded fault: two writers chain onto the head they read before the lock.
AppendToOldHead(event) ==
  LET head == IF Len(db.rows) < 2 THEN GENESIS_PREV_HASH ELSE db.rows[Len(db.rows) - 1].hash
  IN  [db EXCEPT !.rows = Append(@, ChainRow(head, event)),
                 !.meta = ComputeEntryHash(head, event)]

\* The file after LogDb::append: the head is read inside the transaction
\* that stores the row and the recorded head.
Appended(event) ==
  LET row == ChainRow(HeadOf(db.rows), event)
  IN  [db EXCEPT !.rows = Append(@, row), !.meta = row.hash]

\* read_head refuses a head that is not a hash, and the append fails.
HeadReadable == HeadOf(db.rows) # Malformed

\* log_req: the row is appended, or the append fails and nobody is told.
LogReq(event) ==
  /\ Len(db.rows) < MaxRows
  /\ \/ HeadReadable /\ Commit(Appended(event)) /\ UNCHANGED failures
     \/ ~HeadReadable /\ UNCHANGED <<db, wal, failures>>
     \/ /\ failures + edits + losses < MaxFaults
        /\ failures' = failures + 1
        /\ UNCHANGED <<db, wal>>

-----------------------------------------------------------------------------
(* Opening: run_migrations reads user_version once, before its first       *)
(* transaction.                                                            *)

At(p, where) == proc[p].at = where
Goto(p, where) == proc' = [proc EXCEPT ![p].at = where]
Quiet == UNCHANGED <<phone, stage, clocks, failures, edits, losses>>

OpenLog(p) ==
  /\ At(p, "closed")
  /\ proc' = [proc EXCEPT ![p] = [Closed EXCEPT !.at = "migrating", !.version = db.version]]
  /\ UNCHANGED <<db, wal>> /\ Quiet

\* One migration: its script and the version bump in one transaction; the
\* script fails when another process has created the table.
Migrate(p) ==
  LET v == proc[p].version + 1
  IN  /\ At(p, "migrating")
      /\ v <= Len(Migrations)
      /\ IF Migrations[v] \in db.tables
         THEN /\ proc' = [proc EXCEPT ![p] = [Closed EXCEPT !.out.kind = "migration_failed"]]
              /\ UNCHANGED <<db, wal>>
         ELSE /\ Commit([db EXCEPT !.version = v, !.tables = @ \cup {Migrations[v]}])
              /\ proc' = [proc EXCEPT ![p].version = v]
      /\ Quiet

Opened(p) ==
  /\ At(p, "migrating")
  /\ proc[p].version >= Len(Migrations)
  /\ Goto(p, "open")
  /\ UNCHANGED <<db, wal>> /\ Quiet

\* A process ends, by itself or by a crash.  A daemon that ends takes its
\* requests with it; one that ends in order checkpoints first.
Exit(p) ==
  /\ ~At(p, "closed")
  /\ proc' = [proc EXCEPT ![p] = Closed]
  /\ stage' = IF p \in Daemons THEN [r \in Requests |-> IF stage[r] = "new" THEN "new" ELSE "dead"]
              ELSE stage
  /\ \/ UNCHANGED wal
     \/ At(p, "open") /\ p \in Daemons /\ wal' = {db}
  /\ UNCHANGED <<db, phone, clocks, failures, edits, losses>>

-----------------------------------------------------------------------------
(* A request, on the daemon's side and on the phone.                       *)

Serving == \E d \in Daemons : At(d, "open")

Ask(r) ==
  /\ Serving /\ stage[r] = "new"
  /\ LogReq(Event(r, "approval_request", NoPayload))
  /\ stage' = [stage EXCEPT ![r] = "asked"]
  /\ UNCHANGED <<proc, phone, clocks, edits, losses>>

PhoneLogRow(r, type) == [req |-> r, type |-> type, at |-> there, genuine |-> TRUE]
PhoneLogs(r, type) == phone' = Append(phone, PhoneLogRow(r, type))

PhoneReceives(r) ==
  /\ stage[r] = "asked"
  /\ PhoneLogs(r, "approval_request")
  /\ stage' = [stage EXCEPT ![r] = "shown"]
  /\ UNCHANGED <<db, wal, proc, clocks, failures, edits, losses>>

\* Seeded fault: the decision is announced and not committed.
DecideUnlogged(r, type) ==
  /\ stage[r] = "shown"
  /\ stage' = [stage EXCEPT ![r] = type]
  /\ UNCHANGED <<db, wal, proc, phone, clocks, failures, edits, losses>>

\* The phone commits the decision before the PC hears of it.
PhoneDecides(r, type) ==
  /\ stage[r] = "shown"
  /\ PhoneLogs(r, type)
  /\ stage' = [stage EXCEPT ![r] = type]
  /\ ahead' = ahead \cup {q \in {r} : there > now}
  /\ UNCHANGED <<db, wal, proc, now, there, failures, edits, losses>>

OnDenied(r) ==
  /\ Serving /\ stage[r] = "approval_denied"
  /\ LogReq(Event(r, "approval_denied", NoPayload))
  /\ stage' = [stage EXCEPT ![r] = "done"]
  /\ UNCHANGED <<proc, phone, clocks, edits, losses>>

OnGranted(r) ==
  /\ Serving /\ stage[r] = "approval_granted"
  /\ LogReq(Event(r, "approval_granted", NoPayload))
  /\ stage' = [stage EXCEPT ![r] = "bound"]
  /\ UNCHANGED <<proc, phone, clocks, edits, losses>>

\* The execute_sent row, and then the ExecuteRequest itself.
SendExecute(r) ==
  /\ Serving /\ stage[r] = "bound"
  /\ LogReq(Event(r, "execute_sent", NoPayload))
  /\ stage' = [stage EXCEPT ![r] = "sent"]
  /\ UNCHANGED <<proc, phone, clocks, edits, losses>>

OnResult(r) ==
  /\ Serving /\ stage[r] = "sent"
  /\ \E body \in Bodies : LogReq(Event(r, "execute_result", ResultPayload(body)))
  /\ stage' = [stage EXCEPT ![r] = "done"]
  /\ UNCHANGED <<proc, phone, clocks, edits, losses>>

\* The deadline of the request in flight, at any of its stages.
OnDeadline(r) ==
  /\ Serving /\ stage[r] \in {"asked", "shown", "approval_granted", "approval_denied", "sent"}
  /\ LogReq(Event(r, "request_timeout", NoPayload))
  /\ stage' = [stage EXCEPT ![r] = "done"]
  /\ UNCHANGED <<proc, phone, clocks, edits, losses>>

-----------------------------------------------------------------------------
(* Commands of `conveyance log`.                                           *)

Answer(p, kind, value) ==
  proc' = [proc EXCEPT ![p] = [Closed EXCEPT !.out = [kind |-> kind, value |-> value]]]

\* read_rows fails on a hash that is not 32 bytes.
RowsReadable == \A i \in DOMAIN db.rows : db.rows[i].hash # Malformed

\* verify, first read: the rows.  A broken chain is the answer at once.
VerifyRows(p, repair) ==
  /\ p \in Clis /\ At(p, "open")
  /\ IF ~RowsReadable THEN Answer(p, "error", <<>>)
     ELSE IF VerifyChain(db.rows).ok
     THEN proc' = [proc EXCEPT ![p].at = "verify_meta", ![p].seen = db.rows, ![p].repair = repair]
     ELSE Answer(p, "broken", <<>>)
  /\ UNCHANGED <<db, wal>> /\ Quiet

\* verify, second read: the recorded head.
VerifyMeta(p) ==
  /\ At(p, "verify_meta")
  /\ IF db.meta \in {NoHead, HeadOf(proc[p].seen)} THEN Answer(p, "intact", <<>>)
     ELSE IF proc[p].repair THEN Goto(p, "repair_rows")
     ELSE Answer(p, "stale", <<>>)
  /\ UNCHANGED <<db, wal>> /\ Quiet

\* repair_meta: a fresh read of the rows, refused when the chain is broken ...
RepairRows(p) ==
  /\ At(p, "repair_rows")
  /\ IF RowsReadable /\ VerifyChain(db.rows).ok
     THEN proc' = [proc EXCEPT ![p].at = "repair_write", ![p].seen = db.rows]
     ELSE Answer(p, "stale", <<>>)
  /\ UNCHANGED <<db, wal>> /\ Quiet

\* Seeded fault: the repaired head is the hash of the newest event alone.
RepairNewestOnly(p) ==
  /\ At(p, "repair_write")
  /\ Commit([db EXCEPT !.meta =
                ComputeEntryHash(GENESIS_PREV_HASH, proc[p].seen[Len(proc[p].seen)].event)])
  /\ Answer(p, "repaired", <<>>)
  /\ Quiet

\* ... and a write of the head those rows had.
RepairWrite(p) ==
  /\ At(p, "repair_write")
  /\ Commit([db EXCEPT !.meta = HeadOf(proc[p].seen)])
  /\ Answer(p, "repaired", <<>>)
  /\ Quiet

\* parse_since: a duration needs its unit; the cutoff is that long ago.
SinceParses(f) == f.since # NoHead => f.since.unit \in {"s", "m", "h", "d"}
Cutoff(f) == IF f.since = NoHead \/ f.since.n > now THEN 0 ELSE now - f.since.n

\* Row::anomalous and apply_filters.
Anomalous(e) ==
  \/ e.type \in {"request_timeout", "daemon_note"}
  \/ e.type = "execute_result" /\ e.payload.status # "ok"
Passes(e, f) ==
  /\ e.at >= Cutoff(f)
  /\ f.tool = NoHead \/ e.service = f.tool
  /\ f.status = NoHead \/ (e.type = "execute_result" /\ e.payload.status = f.status)
  /\ f.anomalous => Anomalous(e)

Query(p, f) ==
  /\ p \in Clis /\ At(p, "open")
  /\ IF SinceParses(f) THEN Answer(p, "query", SelectSeq(Events, LAMBDA e : Passes(e, f)))
     ELSE Answer(p, "error", <<>>)
  /\ UNCHANGED <<db, wal>> /\ Quiet

\* export, first read: the events that pass the filter.
ExportEvents(p, f) ==
  /\ p \in Clis /\ At(p, "open")
  /\ SinceParses(f)
  /\ proc' = [proc EXCEPT ![p].at = "export_rows",
                          ![p].seen = SelectSeq(Events, LAMBDA e : Passes(e, f))]
  /\ UNCHANGED <<db, wal>> /\ Quiet

\* The chain columns of an exported event: those of the last row that has
\* its request id and its second.
ColumnsFor(e) ==
  LET same == {i \in DOMAIN db.rows :
                 db.rows[i].event.req = e.req /\ db.rows[i].event.at = e.at}
  IN  IF same = {} THEN [event |-> e, prev_hash |-> NoHead, hash |-> NoHead]
      ELSE LET i == CHOOSE i \in same : \A j \in same : j <= i
           IN  [event |-> e, prev_hash |-> db.rows[i].prev_hash, hash |-> db.rows[i].hash]

\* export, second read: the rows, and the file is renamed into place.
ExportRows(p) ==
  /\ At(p, "export_rows")
  /\ IF ~RowsReadable THEN Answer(p, "error", <<>>)
     ELSE Answer(p, "export", [i \in DOMAIN proc[p].seen |-> ColumnsFor(proc[p].seen[i])])
  /\ UNCHANGED <<db, wal>> /\ Quiet

\* `log diff` with an export of the phone's log as it is, or cut in a line.
Diff(p, whole) ==
  /\ p \in Clis /\ At(p, "open")
  /\ \E n \in Pairings :
       LET lines == [i \in DOMAIN phone |->
                       [wellformed |-> whole \/ i < Len(phone), row |-> phone[i]]]
       IN  Answer(p, DiffCommand(lines, n, Events), <<>>)
  /\ UNCHANGED <<db, wal>> /\ Quiet

-----------------------------------------------------------------------------
(* The world outside.                                                      *)

\* Each machine has its own clock.
Tick ==
  /\ now + there < MaxTime
  /\ \/ now' = now + 1 /\ UNCHANGED there
     \/ there' = there + 1 /\ UNCHANGED now
  /\ UNCHANGED <<db, wal, proc, phone, stage, ahead, failures, edits, losses>>

PowerLoss ==
  /\ failures + edits + losses < MaxFaults
  /\ losses' = losses + 1
  /\ \E d \in wal : db' = d /\ wal' = {d}
  /\ proc' = [p \in Procs |-> Closed]
  /\ stage' = [r \in Requests |-> IF stage[r] = "new" THEN "new" ELSE "dead"]
  /\ UNCHANGED <<phone, clocks, failures, edits>>

\* Someone edits the file: alters a row, removes one that is not the newest,
\* swaps two neighbours.
Edits ==
  {[db.rows EXCEPT ![i].event.at = MaxTime + 1] : i \in DOMAIN db.rows}
    \cup {[db.rows EXCEPT ![i].hash = Malformed] : i \in DOMAIN db.rows}
    \cup {SubSeq(db.rows, 1, i - 1) \o SubSeq(db.rows, i + 1, Len(db.rows)) :
            i \in 1 .. Len(db.rows) - 1}
    \cup {[db.rows EXCEPT ![i] = db.rows[i + 1], ![i + 1] = db.rows[i]] :
            i \in 1 .. Len(db.rows) - 1}

EditFile ==
  /\ failures + edits + losses < MaxFaults
  /\ edits' = edits + 1
  /\ \E rows \in Edits : db' = [db EXCEPT !.rows = rows] /\ wal' = {db'}
  /\ UNCHANGED <<proc, phone, stage, clocks, failures, losses>>

Next ==
  \/ \E p \in Procs : \/ OpenLog(p) \/ Migrate(p) \/ Opened(p) \/ Exit(p)
                      \/ VerifyRows(p, TRUE) \/ VerifyRows(p, FALSE) \/ VerifyMeta(p)
                      \/ RepairRows(p) \/ RepairWrite(p) \/ ExportRows(p)
                      \/ Diff(p, TRUE) \/ Diff(p, FALSE)
                      \/ \E f \in Filters : Query(p, f) \/ ExportEvents(p, f)
  \/ \E r \in Requests : \/ Ask(r) \/ PhoneReceives(r) \/ OnDenied(r) \/ OnGranted(r)
                         \/ SendExecute(r) \/ OnResult(r) \/ OnDeadline(r)
                         \/ PhoneDecides(r, "approval_granted")
                         \/ PhoneDecides(r, "approval_denied")
  \/ Tick \/ PowerLoss \/ EditFile

Spec == Init /\ [][Next]_vars

-----------------------------------------------------------------------------
(* Properties.                                                             *)

\* Whatever the order of appends, commands, crashes and power losses, a file
\* nobody edited holds one unforked chain, and no verify calls it broken
\* (append's BEGIN IMMEDIATE; exit code 1 of `log verify`).
NoFork ==
  edits = 0 => /\ VerifyChain(db.rows).ok
               /\ \A p \in Procs : proc[p].out.kind # "broken"

\* The recorded head of a file nobody edited is the head of a prefix of the
\* log: a racing repair may leave an old head, never one of another history.
RecordedHeadIsPast ==
  edits = 0 => \/ db.meta = NoHead
               \/ \E k \in 0 .. Len(db.rows) : db.meta = HeadOf(SubSeq(db.rows, 1, k))

\* An altered, removed or reordered row stays visible to the walk whatever is
\* appended after it (hashchain.rs: interior rows; the newest may be cut off).
TamperEvident == edits > 0 => ~VerifyChain(db.rows).ok

\* Requests with a result row whose body is null.
NullBodies ==
  {Events[i].req : i \in {j \in DOMAIN Events : Events[j].type = "execute_result"
                                               /\ Events[j].payload.body = Null}}

\* Logs that both sides kept as they should reconcile at every moment, with
\* restarts, timeouts, appends that failed and PC power losses: diff_logs reports
\* no execution without approval and no row of the phone, a signature failure only
\* for a null body, and an execution before its approval only where the phone's
\* clock was ahead of the PC's when the user approved (DiffReport).
HonestLogsReconcile ==
  edits = 0 =>
    LET report == DiffLogs(Events, phone)
    IN  /\ report.execution_without_approval = {}
        /\ report.phone_failures = {}
        /\ report.pc_failures \subseteq NullBodies
        /\ report.timestamp_anomalies \subseteq ahead

\* What diff_logs says of its signing view: "everything the wire signature covered
\* except the signature itself" (logdiff.rs:368-369), so that a row nobody edited
\* verifies.
HonestRowsVerify == edits = 0 => PcSignatureFailures(Events) = {}

\* An execution in the PC's log whose approval is missing from the phone's
\* log, or is there under a signature that is not the phone's, is reported
\* and never matched.
ForgeryReported ==
  \A r \in Reqs(Events, {"execute_sent", "execute_result"}) :
    LET grant(row) == row.req = r /\ row.type = "approval_granted"
        missing == Keep(phone, LAMBDA row : ~grant(row))
        forged == [i \in DOMAIN phone |->
                     [phone[i] EXCEPT !.genuine = ~grant(phone[i])]]
    IN  \A other \in {missing, forged} :
          LET report == DiffLogs(Events, other)
          IN  /\ r \in report.execution_without_approval
              /\ r \notin report.matched
              /\ ~Clean(report)
=============================================================================
