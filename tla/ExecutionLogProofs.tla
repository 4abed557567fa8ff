------------------------- MODULE ExecutionLogProofs -------------------------
(***************************************************************************)
(* What ExecutionLog promises, for any processes, requests, rows, clock    *)
(* and faults: one unforked chain, a recorded head that is a past one,     *)
(* edits the walk sees, and a comparison with the phone's log that is      *)
(* clean exactly when it should be.                                        *)
(***************************************************************************)
EXTENDS ExecutionLog, WellFoundedInduction, TLAPS

-----------------------------------------------------------------------------
(* The shapes of the data.                                                 *)

Payloads == {NoPayload} \cup {ResultPayload(b) : b \in Bodies}

\* What a row may say; an edit from outside puts the time past the clock.
EventTypes ==
  {"daemon_note", "approval_request", "approval_granted", "approval_denied",
   "execute_sent", "execute_result", "request_timeout"}
LogEvents ==
  [req : Requests \cup {"lifecycle"}, type : EventTypes, at : 0 .. MaxTime + 1,
   service : {ServiceOf[r] : r \in Requests} \cup {"none"}, payload : Payloads]

Hashes == Seq(LogEvents)
LogRows == [event : LogEvents, prev_hash : Hashes, hash : Hashes \cup {Malformed}]

\* Types of the fields that matter; of the others only the place in the
\* record is fixed.
IsFile(d) ==
  d \in [version : Nat, tables : {d.tables}, meta : {d.meta}, rows : Seq(LogRows)]
IsProc(c) ==
  c \in [at : {c.at}, version : Nat, seen : {c.seen}, repair : {c.repair},
         out : [kind : {c.out.kind}, value : {c.out.value}]]
PhoneRows == [req : Requests, type : EventTypes, at : 0 .. MaxTime, genuine : BOOLEAN]

Types ==
  /\ edits \in Nat
  /\ now \in 0 .. MaxTime /\ there \in 0 .. MaxTime
  /\ db \in wal
  /\ \A d \in wal : IsFile(d)
  /\ proc = [p \in Procs |-> proc[p]]
  /\ \A p \in Procs : IsProc(proc[p])
  /\ stage = [r \in Requests |-> stage[r]]
  /\ phone \in Seq(PhoneRows)

-----------------------------------------------------------------------------
(* The chain.                                                              *)

Faulty(rows, i) == LinkBroken(rows, i) \/ ContentTampered(rows, i)
Unbroken(rows) == \A i \in DOMAIN rows : ~Faulty(rows, i)
Broken(rows) == \E i \in DOMAIN rows : Faulty(rows, i)
OnTheClock(rows) == \A i \in DOMAIN rows : rows[i].event.at <= MaxTime

\* A head this file has or has had.
PastHead(h, rows) == \E k \in 0 .. Len(rows) : h = HeadOf(SubSeq(rows, 1, k))

\* Every state a power loss may bring back is a sound file, and a repair
\* under way is about to write a head the file has had.
Chained(d) ==
  /\ Unbroken(d.rows)
  /\ OnTheClock(d.rows)
  /\ d.meta = NoHead \/ PastHead(d.meta, d.rows)
ChainInv ==
  edits = 0 =>
    /\ \A d \in wal : Chained(d)
    /\ \A p \in Procs :
         /\ proc[p].out.kind # "broken"
         /\ proc[p].at = "repair_write" => PastHead(HeadOf(proc[p].seen), db.rows)

\* After one edit no state that can come back passes the walk.
EditInv == edits = 1 => \A d \in wal : Broken(d.rows)

-----------------------------------------------------------------------------
(* The phone's log.                                                        *)

IsGrant(row, r) == row.req = r /\ row.type = "approval_granted"

\* The log grants r, by time t on the clock of the PC unless r is one of those
\* (late) whose grant bears a later time.
GrantedBy(log, r, t, late) ==
  \E i \in DOMAIN log : IsGrant(log[i], r) /\ (log[i].at <= t \/ r \in late)
Executes(e) == e.type \in {"execute_sent", "execute_result"}

\* The phone's rows are its own and in the order of its clock; a request is
\* executed, and its execution logged, only after the phone logged the grant.
Ordered ==
  /\ \A i \in DOMAIN phone : phone[i].genuine /\ phone[i].at <= there
  /\ \A i, j \in DOMAIN phone : i <= j => phone[i].at <= phone[j].at
Covered(rows) ==
  \A i \in DOMAIN rows : Executes(rows[i].event) =>
    GrantedBy(phone, rows[i].event.req, rows[i].event.at, ahead)
GrantInv ==
  /\ Ordered
  /\ \A r \in Requests :
       stage[r] \in {"approval_granted", "bound", "sent"} => GrantedBy(phone, r, now, ahead)
  /\ edits = 0 => \A d \in wal : Covered(d.rows)

Inv == Types /\ ChainInv /\ GrantInv

-----------------------------------------------------------------------------
(* Facts about chains.                                                     *)

\* The head after k rows is stored in row k.
LEMMA HeadAt ==
  ASSUME NEW rows \in Seq(LogRows), NEW k \in 0 .. Len(rows)
  PROVE  HeadOf(SubSeq(rows, 1, k)) =
           IF k = 0 THEN GENESIS_PREV_HASH ELSE rows[k].hash
<1> DEFINE s == SubSeq(rows, 1, k)
<1>1. /\ s \in Seq(LogRows)
      /\ Len(s) = k
      /\ \A i \in 1 .. k : s[i] = rows[i]
  OBVIOUS
<1>2. k = 0 => s = <<>>
  BY <1>1
<1>3. k # 0 => s # <<>> /\ s[Len(s)] = rows[k]
  BY <1>1
<1> QED
  BY <1>2, <1>3 DEF HeadOf

LEMMA HeadIsAt ==
  ASSUME NEW rows \in Seq(LogRows)
  PROVE  HeadOf(rows) = IF rows = <<>> THEN GENESIS_PREV_HASH ELSE rows[Len(rows)].hash
BY DEF HeadOf

\* A row is faulty or not by itself and the row before it.
LEMMA FaultIsLocal ==
  ASSUME NEW rows \in Seq(LogRows), NEW i \in DOMAIN rows
  PROVE  Faulty(rows, i) <=>
           \/ rows[i].prev_hash # (IF i = 1 THEN GENESIS_PREV_HASH ELSE rows[i - 1].hash)
           \/ rows[i].hash # Append(rows[i].prev_hash, rows[i].event)
<1>1. i \in 1 .. Len(rows) /\ i - 1 \in 0 .. Len(rows)
  OBVIOUS
<1>2. HeadOf(SubSeq(rows, 1, i - 1)) =
        IF i = 1 THEN GENESIS_PREV_HASH ELSE rows[i - 1].hash
  BY <1>1, HeadAt
<1> QED
  BY <1>2 DEF Faulty, LinkBroken, ContentTampered, ComputeEntryHash

\* The walk accepts exactly the rows without a fault.
LEMMA WalkIsExact ==
  ASSUME NEW rows
  PROVE  VerifyChain(rows).ok <=> Unbroken(rows)
<1> DEFINE broken == {i \in DOMAIN rows : LinkBroken(rows, i) \/ ContentTampered(rows, i)}
<1>1. Unbroken(rows) <=> broken = {}
  BY DEF Unbroken, Faulty
<1>2. CASE broken = {}
  BY <1>1, <1>2 DEF VerifyChain
<1>3. CASE broken # {}
  BY <1>1, <1>3 DEF VerifyChain
<1> QED
  BY <1>2, <1>3

\* Appending a row whose head is a hash keeps the rows typed and in place.
LEMMA RowAppended ==
  ASSUME NEW rows \in Seq(LogRows), NEW e \in LogEvents, HeadOf(rows) # Malformed,
         NEW row, row = ChainRow(HeadOf(rows), e),
         NEW more, more = Append(rows, row)
  PROVE  /\ row \in LogRows
         /\ row.event = e /\ row.prev_hash = HeadOf(rows)
         /\ row.hash = Append(row.prev_hash, row.event)
         /\ more \in Seq(LogRows)
         /\ Len(more) = Len(rows) + 1
         /\ more[Len(rows) + 1] = row
         /\ \A i \in 1 .. Len(rows) : more[i] = rows[i]
<1>1. HeadOf(rows) \in Hashes
  <2>1. CASE rows = <<>>
    BY <2>1 DEF HeadOf, GENESIS_PREV_HASH, Hashes
  <2>2. CASE rows # <<>>
    <3>1. rows[Len(rows)] \in LogRows
      BY <2>2
    <3> QED
      BY <3>1, <2>2 DEF HeadOf, LogRows
  <2> QED
    BY <2>1, <2>2
<1>2. Append(HeadOf(rows), e) \in Hashes
  BY <1>1 DEF Hashes
<1>3. /\ row \in LogRows
      /\ row.event = e /\ row.prev_hash = HeadOf(rows)
      /\ row.hash = Append(row.prev_hash, row.event)
  BY <1>1, <1>2 DEF LogRows, ChainRow, ComputeEntryHash
<1> HIDE DEF LogRows
<1> QED
  BY <1>3

\* ... leaves every fault that was there ...
LEMMA FaultStays ==
  ASSUME NEW rows \in Seq(LogRows), NEW more \in Seq(LogRows),
         Len(more) = Len(rows) + 1,
         \A i \in 1 .. Len(rows) : more[i] = rows[i],
         NEW i \in DOMAIN rows
  PROVE  i \in DOMAIN more /\ (Faulty(more, i) <=> Faulty(rows, i))
<1>1. i \in 1 .. Len(rows) /\ i \in DOMAIN more
  OBVIOUS
<1>2. more[i] = rows[i] /\ (i # 1 => more[i - 1] = rows[i - 1])
  BY <1>1
<1> QED
  BY <1>1, <1>2, FaultIsLocal

\* ... and heads the file has had stay past heads.
LEMMA PastStaysPast ==
  ASSUME NEW rows \in Seq(LogRows), NEW more \in Seq(LogRows),
         Len(more) = Len(rows) + 1,
         \A i \in 1 .. Len(rows) : more[i] = rows[i],
         NEW h, PastHead(h, rows)
  PROVE  PastHead(h, more)
<1>1. PICK k \in 0 .. Len(rows) : h = HeadOf(SubSeq(rows, 1, k))
  BY DEF PastHead
<1>2. k \in 0 .. Len(more) /\ (k # 0 => more[k] = rows[k])
  OBVIOUS
<1>3. HeadOf(SubSeq(more, 1, k)) = HeadOf(SubSeq(rows, 1, k))
  BY <1>2, HeadAt
<1> QED
  BY <1>1, <1>2, <1>3 DEF PastHead

\* The present head is one of them.
LEMMA HeadIsPast ==
  ASSUME NEW rows \in Seq(LogRows)
  PROVE  PastHead(HeadOf(rows), rows)
<1>1. Len(rows) \in 0 .. Len(rows)
  OBVIOUS
<1>2. SubSeq(rows, 1, Len(rows)) = rows
  OBVIOUS
<1> QED
  BY <1>1, <1>2 DEF PastHead

\* A sound file stays sound when a row of the present is appended.
LEMMA ChainGrows ==
  ASSUME NEW rows \in Seq(LogRows), NEW e \in LogEvents, HeadOf(rows) # Malformed,
         Unbroken(rows), OnTheClock(rows), e.at <= MaxTime,
         NEW row, row = ChainRow(HeadOf(rows), e),
         NEW more, more = Append(rows, row)
  PROVE  Unbroken(more) /\ OnTheClock(more) /\ PastHead(row.hash, more)
<1>1. /\ row \in LogRows
      /\ row.event = e /\ row.prev_hash = HeadOf(rows)
      /\ row.hash = Append(row.prev_hash, row.event)
      /\ more \in Seq(LogRows)
      /\ Len(more) = Len(rows) + 1
      /\ more[Len(rows) + 1] = row
      /\ \A i \in 1 .. Len(rows) : more[i] = rows[i]
  BY RowAppended
<1>2. DOMAIN rows = 1 .. Len(rows) /\ DOMAIN more = 1 .. Len(rows) + 1
  BY <1>1
<1>3. \A i \in 1 .. Len(rows) : ~Faulty(more, i)
  BY <1>1, <1>2, FaultStays DEF Unbroken
<1>4. ~Faulty(more, Len(rows) + 1)
  <2>1. HeadOf(rows) = IF Len(rows) + 1 = 1 THEN GENESIS_PREV_HASH ELSE more[Len(rows)].hash
    BY <1>1, HeadIsAt
  <2>2. PICK n : n = Len(rows) + 1
    OBVIOUS
  <2>3. n \in DOMAIN more /\ n - 1 = Len(rows)
    BY <1>2, <2>2
  <2>4. /\ more[n].prev_hash = (IF n = 1 THEN GENESIS_PREV_HASH ELSE more[n - 1].hash)
        /\ more[n].hash = Append(more[n].prev_hash, more[n].event)
    BY <1>1, <2>1, <2>2, <2>3
  <2>5. ~Faulty(more, n)
    BY <1>1, <2>3, <2>4, FaultIsLocal
  <2> QED
    BY <2>2, <2>5
<1>5. OnTheClock(more)
  BY <1>1, <1>2 DEF OnTheClock
<1>6. HeadOf(more) = row.hash
  <2>1. more # <<>>
    BY <1>1
  <2> QED
    BY <1>1, <2>1, HeadIsAt
<1>7. PastHead(row.hash, more)
  BY <1>1, <1>6, HeadIsPast
<1>8. Unbroken(more)
  BY <1>2, <1>3, <1>4 DEF Unbroken
<1> QED
  BY <1>5, <1>7, <1>8

-----------------------------------------------------------------------------
(* Facts about records.                                                    *)

LEMMA FileMigrated ==
  ASSUME NEW d, IsFile(d), NEW v \in Nat, NEW table,
         NEW f, f = [d EXCEPT !.version = v, !.tables = @ \cup {table}]
  PROVE  IsFile(f) /\ f.rows = d.rows /\ f.meta = d.meta
BY DEF IsFile

LEMMA FileRecords ==
  ASSUME NEW d, IsFile(d), NEW m, NEW f, f = [d EXCEPT !.meta = m]
  PROVE  IsFile(f) /\ f.rows = d.rows /\ f.meta = m
BY DEF IsFile

LEMMA FileEdited ==
  ASSUME NEW d, IsFile(d), NEW rows \in Seq(LogRows), NEW f, f = [d EXCEPT !.rows = rows]
  PROVE  IsFile(f) /\ f.rows = rows
BY DEF IsFile

LEMMA RecordIsProc ==
  ASSUME NEW at, NEW version \in Nat, NEW seen, NEW repair,
         NEW kind, NEW value, NEW out, NEW c,
         out = [kind |-> kind, value |-> value],
         c = [at |-> at, version |-> version, seen |-> seen, repair |-> repair, out |-> out]
  PROVE  IsProc(c) /\ c.at = at /\ c.seen = seen /\ c.out.kind = kind
<1>1. out \in [kind : {out.kind}, value : {out.value}] /\ out.kind = kind
  OBVIOUS
<1>2. c.at = at /\ c.seen = seen /\ c.out = out
  OBVIOUS
<1> QED
  BY <1>1, <1>2 DEF IsProc

Answered(kind, value) == [Closed EXCEPT !.out = [kind |-> kind, value |-> value]]

LEMMA AnsweredIsProc ==
  ASSUME NEW kind, NEW value, NEW c, c = Answered(kind, value)
  PROVE  IsProc(c) /\ c.at = "closed" /\ c.out.kind = kind
<1>1. PICK nil, no, out :
        nil = <<>> /\ no = FALSE /\ out = [kind |-> kind, value |-> value]
  OBVIOUS
<1>2. c = [at |-> "closed", version |-> 0, seen |-> nil, repair |-> no, out |-> out]
  BY <1>1 DEF Closed, Answered
<1>3. out \in [kind : {out.kind}, value : {out.value}] /\ out.kind = kind
  BY <1>1
<1>4. c.at = "closed" /\ c.seen = nil /\ c.repair = no /\ c.out = out
  BY <1>2
<1>5. IsProc(c)
  BY ONLY <1>2, <1>3, <1>4 DEF IsProc
<1> QED
  BY <1>3, <1>4, <1>5

LEMMA ClosedIsProc == IsProc(Closed) /\ Closed.at = "closed" /\ Closed.out.kind = "none"
<1>1. PICK nil, no, out :
        nil = <<>> /\ no = FALSE /\ out = [kind |-> "none", value |-> nil]
  OBVIOUS
<1>2. Closed = [at |-> "closed", version |-> 0, seen |-> nil, repair |-> no, out |-> out]
  BY <1>1 DEF Closed
<1> QED
  BY <1>1, <1>2, RecordIsProc

LEMMA MovedIsProc ==
  ASSUME NEW b, IsProc(b), NEW where, NEW c, c = [b EXCEPT !.at = where]
  PROVE  IsProc(c) /\ c.at = where /\ c.seen = b.seen /\ c.out.kind = b.out.kind
BY DEF IsProc

LEMMA EventTyped ==
  ASSUME Types, NEW r \in Requests, NEW type \in EventTypes, NEW payload \in Payloads,
         NEW e, e = Event(r, type, payload)
  PROVE  e \in LogEvents /\ e.req = r /\ e.type = type /\ e.at = now /\ e.at <= MaxTime
<1>1. now \in 0 .. MaxTime + 1 /\ now <= MaxTime
  BY LogBounds DEF Types
<1> QED
  BY <1>1 DEF Event, LogEvents

-----------------------------------------------------------------------------
(* What the steps that are neither a power loss nor an edit have in common. *)

\* A commit of a file that is as sound as the one before.
SoundCommit(d) ==
  /\ Commit(d)
  /\ IsFile(d)
  /\ edits = 0 => Chained(d) /\ Covered(d.rows)
  /\ edits = 0 => \A h : PastHead(h, db.rows) => PastHead(h, d.rows)
  /\ Broken(db.rows) => Broken(d.rows)
LogMoves ==
  \/ db' = db /\ wal' = wal
  \/ db' = db /\ wal' = {db}
  \/ \E d : SoundCommit(d)

SoundProc(c) ==
  /\ IsProc(c)
  /\ edits = 0 => /\ c.out.kind # "broken"
                  /\ c.at = "repair_write" => PastHead(HeadOf(c.seen), db.rows)
ProcMoves ==
  \/ proc' = proc
  \/ \E p \in Procs : \E c : SoundProc(c) /\ proc' = [proc EXCEPT ![p] = c]

PhoneMoves ==
  \/ phone' = phone
  \/ \E row \in PhoneRows :
       row.genuine /\ row.at = there /\ phone' = Append(phone, row)

StageMoves ==
  /\ stage' = [r \in Requests |-> stage'[r]]
  /\ \A r \in Requests :
       stage'[r] \in {"approval_granted", "bound", "sent"} =>
         GrantedBy(phone', r, now', ahead')

\* Both clocks run forward.
ClocksMove ==
  /\ now' \in now .. MaxTime /\ there' \in there .. MaxTime
  /\ ahead \subseteq ahead'

LEMMA ClocksRest ==
  ASSUME Types, UNCHANGED clocks
  PROVE  now' = now /\ there' = there /\ ahead' = ahead /\ ClocksMove
BY LogBounds DEF Types, clocks, ClocksMove

\* A grant that is in the phone's log stays there.
LEMMA GrantStays ==
  ASSUME Types, PhoneMoves, ahead \subseteq ahead', NEW r, NEW t, GrantedBy(phone, r, t, ahead)
  PROVE  GrantedBy(phone', r, t, ahead')
<1>1. PICK i \in DOMAIN phone : IsGrant(phone[i], r) /\ (phone[i].at <= t \/ r \in ahead)
  BY DEF GrantedBy
<1>2. i \in DOMAIN phone' /\ phone'[i] = phone[i]
  BY DEF PhoneMoves, Types
<1> QED
  BY <1>1, <1>2 DEF GrantedBy

LEMMA LaterIsFine ==
  ASSUME Types, NEW r, NEW t \in Nat, NEW u \in Nat, t <= u, GrantedBy(phone, r, t, ahead)
  PROVE  GrantedBy(phone, r, u, ahead)
<1>1. PICK i \in DOMAIN phone : IsGrant(phone[i], r) /\ (phone[i].at <= t \/ r \in ahead)
  BY DEF GrantedBy
<1>2. phone[i] \in PhoneRows
  BY DEF Types
<1>3. phone[i].at \in Nat
  BY <1>2, LogBounds DEF PhoneRows
<1>4. phone[i].at <= u \/ r \in ahead
  BY <1>1, <1>3
<1> QED
  BY <1>1, <1>4 DEF GrantedBy

\* Steps of these kinds keep the invariant.
LEMMA StepKeeps ==
  ASSUME Inv, edits' = edits, ClocksMove,
         LogMoves, ProcMoves, PhoneMoves, StageMoves
  PROVE  Inv' /\ (EditInv => EditInv')
<1> USE DEF Inv
<1>1. db' \in wal'
  BY DEF Types, LogMoves, SoundCommit, Commit
<1>2. \A d \in wal' : IsFile(d)
  BY DEF Types, LogMoves, SoundCommit, Commit
<1>3. /\ now' \in 0 .. MaxTime /\ there' \in 0 .. MaxTime /\ there <= there'
      /\ ahead \subseteq ahead'
  BY LogBounds DEF Types, ClocksMove
<1>4. phone' \in Seq(PhoneRows)
  <2>1. phone \in Seq(PhoneRows)
    BY DEF Types
  <2> HIDE DEF Inv
  <2> QED
    BY <2>1 DEF PhoneMoves
<1>5. proc' = [p \in Procs |-> proc'[p]] /\ \A p \in Procs : IsProc(proc'[p])
  <2>1. CASE proc' = proc
    BY <2>1 DEF Types
  <2>2. CASE \E p \in Procs : \E c : SoundProc(c) /\ proc' = [proc EXCEPT ![p] = c]
    BY <2>2, Zenon DEF Types, SoundProc
  <2> QED
    BY <2>1, <2>2 DEF ProcMoves
<1>6. Types'
  BY <1>1, <1>2, <1>3, <1>4, <1>5 DEF Types, StageMoves
<1>7. edits = 0 => \A d \in wal' : Chained(d)
  BY DEF LogMoves, SoundCommit, Commit, ChainInv, Types
<1>8. edits = 0 => \A p \in Procs :
        /\ proc'[p].out.kind # "broken"
        /\ proc'[p].at = "repair_write" => PastHead(HeadOf(proc'[p].seen), db.rows)
  <2>1. CASE proc' = proc
    BY <2>1 DEF ChainInv
  <2>2. CASE \E p \in Procs : \E c : SoundProc(c) /\ proc' = [proc EXCEPT ![p] = c]
    BY <2>2 DEF Types, SoundProc, ChainInv
  <2> QED
    BY <2>1, <2>2 DEF ProcMoves
<1>9. edits = 0 => \A h : PastHead(h, db.rows) => PastHead(h, db'.rows)
  BY DEF LogMoves, SoundCommit, Commit
<1>10. ChainInv'
  BY <1>7, <1>8, <1>9 DEF ChainInv
<1>11. Ordered'
  <2>1. CASE phone' = phone
    <3>1. \A i \in DOMAIN phone : phone[i] \in PhoneRows
      BY DEF Types
    <3>2. \A i \in DOMAIN phone : phone[i].at \in Nat
      BY <3>1, LogBounds DEF PhoneRows
    <3>3. \A i \in DOMAIN phone : phone[i].at <= there'
      BY <3>2, <1>3, LogBounds DEF GrantInv, Ordered, Types
    <3> QED
      BY <2>1, <3>3 DEF GrantInv, Ordered
  <2>2. CASE \E row \in PhoneRows :
               row.genuine /\ row.at = there /\ phone' = Append(phone, row)
    <3>1. PICK row \in PhoneRows :
                 row.genuine /\ row.at = there /\ phone' = Append(phone, row)
      BY <2>2
    <3>2. /\ DOMAIN phone = 1 .. Len(phone)
          /\ DOMAIN phone' = 1 .. Len(phone) + 1
          /\ \A i \in 1 .. Len(phone) : phone'[i] = phone[i]
          /\ phone'[Len(phone) + 1] = row
          /\ \A i \in 1 .. Len(phone) : phone[i] \in PhoneRows
          /\ Len(phone) \in Nat
      BY <3>1 DEF Types
    <3>3. \A i \in DOMAIN phone' : phone'[i].genuine /\ phone'[i].at <= there
      BY <3>1, <3>2 DEF GrantInv, Ordered, Types
    <3>4. \A i \in DOMAIN phone' : phone'[i].at \in Nat
      BY <3>1, <3>2, LogBounds DEF PhoneRows
    <3>5. \A i \in DOMAIN phone' : phone'[i].genuine /\ phone'[i].at <= there'
      BY <3>3, <3>4, <1>3, LogBounds DEF Types
    <3>6. \A i, j \in DOMAIN phone' : i <= j => phone'[i].at <= phone'[j].at
      <4> SUFFICES ASSUME NEW i \in DOMAIN phone', NEW j \in DOMAIN phone', i <= j
                   PROVE  phone'[i].at <= phone'[j].at
        OBVIOUS
      <4>1. CASE j = Len(phone) + 1
        BY <4>1, <3>1, <3>2, <3>3
      <4>2. CASE j \in 1 .. Len(phone)
        BY <4>2, <3>2 DEF GrantInv, Ordered
      <4> QED
        BY <4>1, <4>2, <3>2
    <3> QED
      BY <3>5, <3>6 DEF Ordered
  <2> QED
    BY <2>1, <2>2 DEF PhoneMoves
<1>12. edits = 0 => \A d \in wal' : Covered(d.rows)
  BY DEF LogMoves, SoundCommit, Commit, GrantInv, Types
<1>13. \A rows : Covered(rows) => Covered(rows)'
  BY <1>3, GrantStays DEF Covered
<1>14. GrantInv'
  BY <1>11, <1>12, <1>13 DEF GrantInv, StageMoves
<1>15. EditInv => EditInv'
  BY DEF EditInv, LogMoves, SoundCommit, Commit, Types
<1> QED
  BY <1>6, <1>10, <1>14, <1>15

\* An event that may be logged: of the present, and an execution only of a
\* request the phone has granted.
Loggable(e) ==
  /\ e \in LogEvents
  /\ e.at = now
  /\ Executes(e) => GrantedBy(phone, e.req, e.at, ahead)

LEMMA LogReqMoves ==
  ASSUME Inv, NEW e, Loggable(e), LogReq(e)
  PROVE  LogMoves
<1> USE DEF Inv
<1>1. CASE UNCHANGED <<db, wal>>
  BY <1>1 DEF LogMoves
<1>2. CASE HeadReadable /\ Commit(Appended(e))
  <2> DEFINE row == ChainRow(HeadOf(db.rows), e)
             more == Append(db.rows, row)
             d == Appended(e)
  <2>1. IsFile(db) /\ db.rows \in Seq(LogRows)
    BY DEF Types, IsFile
  <2>2. e \in LogEvents /\ e.at <= MaxTime /\ HeadOf(db.rows) # Malformed
    BY <1>2, LogBounds DEF Loggable, Types, HeadReadable
  <2>3. d = [db EXCEPT !.rows = more, !.meta = row.hash]
    BY DEF Appended
  <2> HIDE DEF row, more, d
  <2>4. row = ChainRow(HeadOf(db.rows), e) /\ more = Append(db.rows, row)
    BY DEF row, more
  <2>5. /\ row.event = e
        /\ more \in Seq(LogRows)
        /\ Len(more) = Len(db.rows) + 1
        /\ more[Len(db.rows) + 1] = row
        /\ \A i \in 1 .. Len(db.rows) : more[i] = db.rows[i]
    BY <2>1, <2>2, <2>4, RowAppended
  <2>6. IsFile(d) /\ d.rows = more /\ d.meta = row.hash
    <3>1. PICK m : m = row.hash
      OBVIOUS
    <3>2. d = [db EXCEPT !.rows = more, !.meta = m]
      BY <2>3, <3>1
    <3> QED
      BY <2>1, <2>5, <3>1, <3>2 DEF IsFile
  <2>7. edits = 0 => Chained(d)
    <3> HAVE edits = 0
    <3>1. Unbroken(db.rows) /\ OnTheClock(db.rows)
      BY DEF ChainInv, Chained, Types
    <3> QED
      BY <2>1, <2>2, <2>4, <2>6, <3>1, ChainGrows DEF Chained
  <2>8. edits = 0 => Covered(d.rows)
    <3> SUFFICES ASSUME edits = 0, NEW i \in DOMAIN more, Executes(more[i].event)
                 PROVE  GrantedBy(phone, more[i].event.req, more[i].event.at, ahead)
      BY <2>6 DEF Covered
    <3>1. CASE i = Len(db.rows) + 1
      BY <3>1, <2>5 DEF Loggable
    <3>2. CASE i \in 1 .. Len(db.rows)
      <4>1. Covered(db.rows) /\ i \in DOMAIN db.rows
        BY <2>1, <3>2 DEF GrantInv, Types
      <4>2. more[i] = db.rows[i]
        BY <2>5, <3>2
      <4> QED
        BY <4>1, <4>2 DEF Covered
    <3> QED
      BY <3>1, <3>2, <2>1, <2>5
  <2>9. \A h : PastHead(h, db.rows) => PastHead(h, d.rows)
    BY <2>1, <2>5, <2>6, PastStaysPast
  <2>10. Broken(db.rows) => Broken(d.rows)
    BY <2>1, <2>5, <2>6, FaultStays DEF Broken
  <2>11. SoundCommit(d)
    BY <1>2, <2>6, <2>7, <2>8, <2>9, <2>10 DEF SoundCommit, d
  <2> QED
    BY <2>11 DEF LogMoves
<1> QED
  BY <1>1, <1>2 DEF LogReq

-----------------------------------------------------------------------------
(* Each step is of these kinds.                                            *)

LEMMA QuietMoves ==
  ASSUME Inv, Quiet
  PROVE  edits' = edits /\ ClocksMove /\ PhoneMoves /\ StageMoves
<1>1. edits' = edits /\ phone' = phone /\ stage' = stage /\ UNCHANGED clocks
  BY DEF Quiet
<1>2. now' = now /\ ahead' = ahead /\ ClocksMove
  BY <1>1, ClocksRest DEF Inv
<1> QED
  BY <1>1, <1>2 DEF PhoneMoves, StageMoves, Inv, Types, GrantInv

LEMMA AnswerMoves ==
  ASSUME Inv, NEW p \in Procs, NEW kind, NEW value,
         edits = 0 => kind # "broken", Answer(p, kind, value)
  PROVE  ProcMoves
<1>1. PICK c : c = Answered(kind, value)
  OBVIOUS
<1>2. IsProc(c) /\ c.at = "closed" /\ c.out.kind = kind
  BY <1>1, AnsweredIsProc
<1>3. SoundProc(c)
  BY <1>2 DEF SoundProc
<1>4. proc' = [proc EXCEPT ![p] = c]
  BY <1>1 DEF Answer, Answered
<1> QED
  BY <1>3, <1>4 DEF ProcMoves

\* A process moves on within its command.
LEMMA GotoMoves ==
  ASSUME Inv, NEW p \in Procs, NEW where, where # "repair_write", Goto(p, where)
  PROVE  ProcMoves
<1>1. PICK b : b = proc[p]
  OBVIOUS
<1>2. PICK c : c = [b EXCEPT !.at = where]
  OBVIOUS
<1>3. IsProc(b) /\ (edits = 0 => b.out.kind # "broken")
  BY <1>1 DEF Inv, Types, ChainInv
<1>4. IsProc(c) /\ c.at = where /\ c.out.kind = b.out.kind
  BY <1>2, <1>3, MovedIsProc
<1>5. SoundProc(c)
  BY <1>3, <1>4 DEF SoundProc
<1>6. proc' = [proc EXCEPT ![p] = c]
  BY <1>1, <1>2 DEF Goto
<1> QED
  BY <1>5, <1>6 DEF ProcMoves

LEMMA StepOpen ==
  ASSUME Inv, NEW p \in Procs, OpenLog(p) \/ Opened(p)
  PROVE  Inv' /\ (EditInv => EditInv')
<1>1. Quiet /\ LogMoves
  BY DEF OpenLog, Opened, LogMoves
<1>2. CASE OpenLog(p)
  <2>1. PICK c : c = [Closed EXCEPT !.at = "migrating", !.version = db.version]
    OBVIOUS
  <2>2. db.version \in Nat
    BY DEF Inv, Types, IsFile
  <2>3. IsProc(c) /\ c.at = "migrating" /\ c.out.kind = "none"
    <3>1. PICK b : b = Closed
      OBVIOUS
    <3>2. IsProc(b) /\ b.out.kind = "none"
      BY <3>1, ClosedIsProc
    <3>3. c = [b EXCEPT !.at = "migrating", !.version = db.version]
      BY <2>1, <3>1
    <3> QED
      BY <2>2, <3>2, <3>3 DEF IsProc
  <2>4. SoundProc(c)
    BY <2>3 DEF SoundProc
  <2>5. proc' = [proc EXCEPT ![p] = c]
    BY <1>2, <2>1 DEF OpenLog
  <2>6. ProcMoves
    BY <2>4, <2>5 DEF ProcMoves
  <2> QED
    BY <1>1, <2>6, QuietMoves, StepKeeps
<1>3. CASE Opened(p)
  <2>1. ProcMoves
    BY <1>3, GotoMoves DEF Opened
  <2> QED
    BY <1>1, <2>1, QuietMoves, StepKeeps
<1> QED
  BY <1>2, <1>3

LEMMA StepMigrate ==
  ASSUME Inv, NEW p \in Procs, Migrate(p)
  PROVE  Inv' /\ (EditInv => EditInv')
<1>1. Quiet
  BY DEF Migrate
<1> DEFINE v == proc[p].version + 1
<1>2. CASE Migrations[v] \in db.tables
  <2>1. PICK kind : kind = "migration_failed"
    OBVIOUS
  <2>2. PICK value : value = Closed.out.value
    OBVIOUS
  <2>3. [Closed EXCEPT !.out.kind = kind] = [Closed EXCEPT !.out = [kind |-> kind, value |-> value]]
    BY <2>2 DEF Closed
  <2>4. proc' = [proc EXCEPT ![p] = [Closed EXCEPT !.out.kind = kind]] /\ UNCHANGED <<db, wal>>
    BY <1>2, <2>1 DEF Migrate
  <2>5. Answer(p, kind, value)
    BY <2>3, <2>4 DEF Answer
  <2>6. ProcMoves
    BY <2>1, <2>5, AnswerMoves
  <2> QED
    BY <1>1, <2>4, <2>6, QuietMoves, StepKeeps DEF LogMoves
<1>3. CASE Migrations[v] \notin db.tables
  <2>1. PICK b : b = proc[p]
    OBVIOUS
  <2>2. IsProc(b) /\ SoundProc(b) /\ b.version + 1 \in Nat /\ b.at = "migrating"
    <3>1. IsProc(b) /\ b.at = "migrating" /\ (edits = 0 => b.out.kind # "broken")
      BY <2>1 DEF Inv, Types, ChainInv, Migrate, At
    <3> QED
      BY <3>1 DEF SoundProc, IsProc
  <2>3. PICK c : c = [b EXCEPT !.version = b.version + 1]
    OBVIOUS
  <2>4. IsProc(c) /\ c.at = "migrating" /\ c.out = b.out
    BY <2>2, <2>3 DEF IsProc
  <2>5. SoundProc(c)
    BY <2>2, <2>4 DEF SoundProc
  <2>6. proc' = [proc EXCEPT ![p] = c]
    BY <1>3, <2>1, <2>3 DEF Migrate
  <2>7. PICK d : d = [db EXCEPT !.version = v, !.tables = @ \cup {Migrations[v]}]
    OBVIOUS
  <2>8. IsFile(d) /\ d.rows = db.rows /\ d.meta = db.meta
    <3>1. IsFile(db) /\ v \in Nat
      BY <2>1, <2>2 DEF Inv, Types
    <3> HIDE DEF v
    <3> QED
      BY <2>7, <3>1 DEF IsFile
  <2>9. SoundCommit(d)
    <3>1. Commit(d)
      BY <1>3, <2>7 DEF Migrate
    <3> QED
      BY <2>8, <3>1 DEF SoundCommit, Inv, Types, ChainInv, GrantInv, Chained
  <2> QED
    BY <1>1, <2>5, <2>6, <2>9, QuietMoves, StepKeeps DEF LogMoves, ProcMoves
<1> QED
  BY <1>2, <1>3

\* A command that has read the rows goes on with what it read.
Reads(p, where, seen) == proc' = [proc EXCEPT ![p].at = where, ![p].seen = seen]
LEMMA ReadMoves ==
  ASSUME Inv, NEW p \in Procs, NEW where, NEW seen, Reads(p, where, seen),
         where = "repair_write" => PastHead(HeadOf(seen), db.rows)
  PROVE  ProcMoves
<1>1. PICK b : b = proc[p]
  OBVIOUS
<1>2. IsProc(b) /\ (edits = 0 => b.out.kind # "broken")
  BY <1>1 DEF Inv, Types, ChainInv
<1>3. PICK c : c = [b EXCEPT !.at = where, !.seen = seen]
  OBVIOUS
<1>4. IsProc(c) /\ c.at = where /\ c.seen = seen /\ c.out.kind = b.out.kind
  BY <1>2, <1>3 DEF IsProc
<1>5. SoundProc(c)
  BY <1>2, <1>4 DEF SoundProc
<1>6. proc' = [proc EXCEPT ![p] = c]
  BY <1>1, <1>3 DEF Inv, Types, Reads
<1> QED
  BY <1>5, <1>6 DEF ProcMoves

ReadsToVerify(p, seen, repair) ==
  proc' = [proc EXCEPT ![p].at = "verify_meta", ![p].seen = seen, ![p].repair = repair]
LEMMA VerifyMoves ==
  ASSUME Inv, NEW p \in Procs, NEW seen, NEW repair, ReadsToVerify(p, seen, repair)
  PROVE  ProcMoves
<1>1. PICK b : b = proc[p]
  OBVIOUS
<1>2. IsProc(b) /\ (edits = 0 => b.out.kind # "broken")
  BY <1>1 DEF Inv, Types, ChainInv
<1>3. PICK c : c = [b EXCEPT !.at = "verify_meta", !.seen = seen, !.repair = repair]
  OBVIOUS
<1>4. IsProc(c) /\ c.at = "verify_meta" /\ c.out.kind = b.out.kind
  BY <1>2, <1>3 DEF IsProc
<1>5. SoundProc(c)
  BY <1>2, <1>4 DEF SoundProc
<1>6. proc' = [proc EXCEPT ![p] = c]
  BY <1>1, <1>3 DEF Inv, Types, ReadsToVerify
<1> QED
  BY <1>5, <1>6 DEF ProcMoves

\* A process that ends; the requests of a daemon that ends are dead.
LEMMA StepExit ==
  ASSUME Inv, NEW p \in Procs, Exit(p)
  PROVE  Inv' /\ (EditInv => EditInv')
<1>1. /\ edits' = edits /\ phone' = phone
      /\ now' = now /\ ahead' = ahead /\ ClocksMove
  BY ClocksRest DEF Exit, Inv
<1>2. LogMoves
  BY DEF Exit, LogMoves
<1>3. SoundProc(Closed)
  BY ClosedIsProc DEF SoundProc
<1>4. ProcMoves
  BY <1>3 DEF ProcMoves, Exit
<1>5. StageMoves
  <2>1. /\ stage' = [r \in Requests |-> stage'[r]]
        /\ \A r \in Requests : stage'[r] \in {stage[r], "new", "dead"}
    BY DEF Exit, Inv, Types
  <2> QED
    BY <1>1, <2>1 DEF StageMoves, Inv, GrantInv
<1> QED
  BY <1>1, <1>2, <1>4, <1>5, StepKeeps DEF PhoneMoves

\* verify, and the two reads of repair_meta.
LEMMA StepVerify ==
  ASSUME Inv, NEW p \in Procs,
         VerifyRows(p, TRUE) \/ VerifyRows(p, FALSE) \/ VerifyMeta(p) \/ RepairRows(p)
  PROVE  Inv' /\ (EditInv => EditInv')
<1>1. Quiet /\ LogMoves
  BY DEF VerifyRows, VerifyMeta, RepairRows, LogMoves
<1>2. db.rows \in Seq(LogRows) /\ (edits = 0 => VerifyChain(db.rows).ok)
  BY WalkIsExact DEF Inv, Types, IsFile, ChainInv, Chained
<1>3. ASSUME NEW repair, VerifyRows(p, repair)
      PROVE  ProcMoves
  <2>1. CASE ~RowsReadable
    BY <1>3, <2>1, AnswerMoves DEF VerifyRows
  <2>2. CASE RowsReadable /\ VerifyChain(db.rows).ok
    <3>1. ReadsToVerify(p, db.rows, repair)
      BY <1>3, <2>2 DEF VerifyRows, ReadsToVerify
    <3> QED
      BY <3>1, VerifyMoves
  <2>3. CASE RowsReadable /\ ~VerifyChain(db.rows).ok
    BY <1>2, <1>3, <2>3, AnswerMoves DEF VerifyRows
  <2> QED
    BY <2>1, <2>2, <2>3
<1>4. ASSUME VerifyMeta(p) PROVE ProcMoves
  BY <1>4, AnswerMoves, GotoMoves DEF VerifyMeta
<1>5. ASSUME RepairRows(p) PROVE ProcMoves
  <2>1. CASE RowsReadable /\ VerifyChain(db.rows).ok
    <3>1. Reads(p, "repair_write", db.rows)
      BY <1>5, <2>1 DEF RepairRows, Reads
    <3> QED
      BY <1>2, <3>1, ReadMoves, HeadIsPast
  <2>2. CASE ~(RowsReadable /\ VerifyChain(db.rows).ok)
    BY <1>5, <2>2, AnswerMoves DEF RepairRows
  <2> QED
    BY <2>1, <2>2
<1>6. ProcMoves
  BY <1>3, <1>4, <1>5
<1> QED
  BY <1>1, <1>6, QuietMoves, StepKeeps

\* repair_meta writes a head the file has had.
LEMMA StepRepairWrite ==
  ASSUME Inv, NEW p \in Procs, RepairWrite(p)
  PROVE  Inv' /\ (EditInv => EditInv')
<1>1. Quiet /\ ProcMoves
  BY AnswerMoves DEF RepairWrite
<1>2. PICK m : m = HeadOf(proc[p].seen)
  OBVIOUS
<1>3. edits = 0 => PastHead(m, db.rows)
  BY <1>2 DEF Inv, ChainInv, RepairWrite, At
<1>4. PICK d : d = [db EXCEPT !.meta = m]
  OBVIOUS
<1>5. IsFile(d) /\ d.rows = db.rows /\ d.meta = m
  <2>1. IsFile(db)
    BY DEF Inv, Types
  <2> QED
    BY <1>4, <2>1 DEF IsFile
<1>6. Commit(d)
  BY <1>2, <1>4 DEF RepairWrite
<1>7. SoundCommit(d)
  BY <1>3, <1>5, <1>6 DEF SoundCommit, Inv, Types, ChainInv, GrantInv, Chained
<1> QED
  BY <1>1, <1>7, QuietMoves, StepKeeps DEF LogMoves

\* The commands that only read.
LEMMA StepRead ==
  ASSUME Inv, NEW p \in Procs, NEW f,
         \/ Query(p, f) \/ ExportEvents(p, f) \/ ExportRows(p)
         \/ Diff(p, TRUE) \/ Diff(p, FALSE)
  PROVE  Inv' /\ (EditInv => EditInv')
<1>1. Quiet /\ LogMoves
  BY DEF Query, ExportEvents, ExportRows, Diff, LogMoves
<1>2. ASSUME Query(p, f) PROVE ProcMoves
  <2>1. PICK value : value = SelectSeq(Events, LAMBDA e : Passes(e, f))
    OBVIOUS
  <2>2. Answer(p, "query", value) \/ Answer(p, "error", <<>>)
    BY <1>2, <2>1 DEF Query
  <2> QED
    BY <2>2, AnswerMoves
<1>3. ASSUME ExportEvents(p, f) PROVE ProcMoves
  <2>1. PICK seen : seen = SelectSeq(Events, LAMBDA e : Passes(e, f))
    OBVIOUS
  <2>2. Reads(p, "export_rows", seen)
    BY <1>3, <2>1 DEF ExportEvents, Reads
  <2> QED
    BY <2>2, ReadMoves
<1>4. ASSUME ExportRows(p) PROVE ProcMoves
  <2>1. PICK value : value = [i \in DOMAIN proc[p].seen |-> ColumnsFor(proc[p].seen[i])]
    OBVIOUS
  <2>2. Answer(p, "export", value) \/ Answer(p, "error", <<>>)
    BY <1>4, <2>1 DEF ExportRows
  <2> QED
    BY <2>2, AnswerMoves
<1>5. ASSUME NEW whole, Diff(p, whole) PROVE ProcMoves
  <2>1. PICK lines, n : Answer(p, DiffCommand(lines, n, Events), <<>>)
    BY <1>5 DEF Diff
  <2>2. DiffCommand(lines, n, Events) # "broken"
    BY DEF DiffCommand
  <2> QED
    BY <2>1, <2>2, AnswerMoves
<1>6. ProcMoves
  BY <1>2, <1>3, <1>4, <1>5
<1> QED
  BY <1>1, <1>6, QuietMoves, StepKeeps

\* The daemon's side of a request: a row that may be logged, and a stage
\* that is reached after a grant only from one that is.
LEMMA StepDaemon ==
  ASSUME Inv, NEW r \in Requests,
         \/ Ask(r) \/ OnDenied(r) \/ OnGranted(r) \/ SendExecute(r) \/ OnResult(r)
         \/ OnDeadline(r)
  PROVE  Inv' /\ (EditInv => EditInv')
<1>1. /\ edits' = edits /\ phone' = phone /\ proc' = proc
      /\ now' = now /\ ahead' = ahead /\ ClocksMove
  <2>1. edits' = edits /\ phone' = phone /\ proc' = proc /\ UNCHANGED clocks
    BY DEF Ask, OnDenied, OnGranted, SendExecute, OnResult, OnDeadline
  <2> QED
    BY <2>1, ClocksRest DEF Inv
<1>2. StageMoves
  <2>1. \E next :
          /\ stage' = [stage EXCEPT ![r] = next]
          /\ next # "approval_granted"
          /\ next \in {"bound", "sent"} => stage[r] \in {"approval_granted", "bound"}
    BY DEF Ask, OnDenied, OnGranted, SendExecute, OnResult, OnDeadline
  <2> QED
    BY <1>1, <2>1 DEF StageMoves, Inv, Types, GrantInv
<1>3. NoPayload \in Payloads /\ \A body \in Bodies : ResultPayload(body) \in Payloads
  BY DEF Payloads
<1>4. \E type \in EventTypes, payload \in Payloads :
        /\ LogReq(Event(r, type, payload))
        /\ type \in {"execute_sent", "execute_result"} => stage[r] \in {"bound", "sent"}
  BY <1>3 DEF Ask, OnDenied, OnGranted, SendExecute, OnResult, OnDeadline, EventTypes
<1>5. PICK type \in EventTypes, payload \in Payloads :
        /\ LogReq(Event(r, type, payload))
        /\ type \in {"execute_sent", "execute_result"} => stage[r] \in {"bound", "sent"}
  BY <1>4
<1>6. PICK e : e = Event(r, type, payload)
  OBVIOUS
<1>7. Loggable(e)
  <2>1. e \in LogEvents /\ e.req = r /\ e.type = type /\ e.at = now
    BY <1>6, EventTyped DEF Inv
  <2> QED
    BY <1>5, <2>1 DEF Loggable, Executes, Inv, GrantInv
<1>8. LogMoves
  BY <1>5, <1>6, <1>7, LogReqMoves
<1> QED
  BY <1>1, <1>2, <1>8, StepKeeps DEF PhoneMoves, ProcMoves

\* The phone logs what it receives and what it decides; a grant is in its
\* log when the request is.
LEMMA StepPhone ==
  ASSUME Inv, NEW r \in Requests,
         \/ PhoneReceives(r)
         \/ PhoneDecides(r, "approval_granted") \/ PhoneDecides(r, "approval_denied")
  PROVE  Inv' /\ (EditInv => EditInv')
<1>1. /\ edits' = edits /\ now' = now /\ proc' = proc /\ db' = db /\ wal' = wal
      /\ ahead \subseteq ahead' /\ ClocksMove
  <2>1. /\ edits' = edits /\ proc' = proc /\ db' = db /\ wal' = wal
        /\ now' = now /\ there' = there /\ ahead \subseteq ahead'
    BY DEF PhoneReceives, PhoneDecides, clocks
  <2> QED
    BY <2>1, LogBounds DEF Inv, Types, ClocksMove
<1>2. PICK type \in EventTypes, next \in EventTypes \cup {"shown"} :
        /\ phone' = Append(phone, PhoneLogRow(r, type))
        /\ stage' = [stage EXCEPT ![r] = next]
        /\ next \notin {"bound", "sent"}
        /\ next = "approval_granted" => type = "approval_granted" /\ (there > now => r \in ahead')
  BY DEF PhoneReceives, PhoneDecides, PhoneLogs, EventTypes
<1>3. PICK row : row = PhoneLogRow(r, type)
  OBVIOUS
<1>4. row \in PhoneRows /\ row.genuine /\ row.at = there /\ row.req = r /\ row.type = type
  BY <1>3 DEF PhoneLogRow, PhoneRows, Inv, Types
<1>5. PhoneMoves
  BY <1>2, <1>3, <1>4 DEF PhoneMoves
<1>6. StageMoves
  <2> SUFFICES ASSUME NEW q \in Requests,
                      stage'[q] \in {"approval_granted", "bound", "sent"}
               PROVE  GrantedBy(phone', q, now, ahead')
    BY <1>1, <1>2 DEF StageMoves, Inv, Types
  <2>1. CASE q = r
    <3>1. IsGrant(row, r)
      BY <1>2, <1>4, <2>1 DEF IsGrant, Inv, Types
    <3>2. /\ Len(phone) + 1 \in DOMAIN phone'
          /\ phone'[Len(phone) + 1] = row
      BY <1>2, <1>3, <1>4 DEF Inv, Types
    <3>3. row.at <= now \/ r \in ahead'
      <4>1. there <= now \/ there > now
        BY LogBounds DEF Inv, Types
      <4> QED
        BY <1>2, <1>4, <2>1, <4>1 DEF Inv, Types
    <3> QED
      BY <2>1, <3>1, <3>2, <3>3 DEF GrantedBy
  <2>2. CASE q # r
    <3>1. GrantedBy(phone, q, now, ahead)
      BY <1>2, <2>2 DEF Inv, Types, GrantInv
    <3> QED
      BY <1>1, <1>5, <3>1, GrantStays DEF Inv
  <2> QED
    BY <2>1, <2>2
<1> QED
  BY <1>1, <1>5, <1>6, StepKeeps DEF LogMoves, ProcMoves

LEMMA StepTick ==
  ASSUME Inv, Tick
  PROVE  Inv' /\ (EditInv => EditInv')
<1>1. /\ edits' = edits /\ db' = db /\ wal' = wal /\ proc' = proc /\ phone' = phone
      /\ stage' = stage /\ ahead' = ahead /\ ClocksMove
      /\ now \in Nat /\ now' \in Nat /\ now <= now'
  BY LogBounds DEF Tick, Inv, Types, ClocksMove
<1>2. StageMoves
  BY <1>1, LaterIsFine DEF StageMoves, Inv, Types, GrantInv
<1> QED
  BY <1>1, <1>2, StepKeeps DEF LogMoves, ProcMoves, PhoneMoves

\* A power loss brings back a state of the log that was sound, and ends
\* every process.
LEMMA StepPowerLoss ==
  ASSUME Inv, PowerLoss
  PROVE  Inv' /\ (EditInv => EditInv')
<1> USE DEF Inv
<1>1. PICK d \in wal : db' = d /\ wal' = {d}
  BY DEF PowerLoss
<1>2. /\ edits' = edits /\ UNCHANGED <<now, there, ahead>> /\ phone' = phone
      /\ proc' = [p \in Procs |-> Closed]
      /\ stage' = [r \in Requests |-> IF stage[r] = "new" THEN "new" ELSE "dead"]
  BY DEF PowerLoss, clocks
<1>3. \A p \in Procs : proc'[p] = Closed
  BY <1>2
<1>4. proc' = [p \in Procs |-> proc'[p]]
  BY <1>2
<1>5. Types'
  BY <1>1, <1>2, <1>3, <1>4, ClosedIsProc DEF Types
<1>6. ChainInv'
  BY <1>1, <1>2, <1>3, ClosedIsProc DEF ChainInv
<1>7. \A r \in Requests : stage'[r] \in {"new", "dead"}
  BY <1>2
<1>8. Ordered' /\ \A rows : Covered(rows) => Covered(rows)'
  BY <1>2 DEF GrantInv, Ordered, Covered
<1>9. GrantInv'
  BY <1>1, <1>2, <1>7, <1>8 DEF GrantInv
<1>10. EditInv => EditInv'
  BY <1>1, <1>2 DEF EditInv
<1> QED
  BY <1>5, <1>6, <1>9, <1>10

\* What an edit may do to a row keeps the types.
LEMMA EditsAreRows ==
  ASSUME Types, NEW rows \in Edits
  PROVE  rows \in Seq(LogRows)
<1>1. IsFile(db) /\ db.rows \in Seq(LogRows)
  BY DEF Types, IsFile
<1>2. CASE \E i \in DOMAIN db.rows : rows = [db.rows EXCEPT ![i].event.at = MaxTime + 1]
  <2>1. PICK i \in DOMAIN db.rows : rows = [db.rows EXCEPT ![i].event.at = MaxTime + 1]
    BY <1>2
  <2>2. PICK row : row = db.rows[i]
    OBVIOUS
  <2>3. PICK e : e = [row.event EXCEPT !.at = MaxTime + 1]
    OBVIOUS
  <2>4. row \in LogRows /\ row.event \in LogEvents /\ MaxTime + 1 \in 0 .. MaxTime + 1
    <3>1. row \in LogRows
      BY <1>1, <2>2
    <3>2. MaxTime + 1 \in 0 .. MaxTime + 1
      BY LogBounds
    <3> QED
      BY <3>1, <3>2 DEF LogRows
  <2>5. e \in LogEvents
    BY <2>3, <2>4 DEF LogEvents
  <2>6. [row EXCEPT !.event = e] \in LogRows
    BY <2>4, <2>5 DEF LogRows
  <2>7. rows = [db.rows EXCEPT ![i] = [row EXCEPT !.event = e]]
    BY <2>1, <2>2, <2>3
  <2> QED
    BY <1>1, <2>6, <2>7
<1>3. CASE \E i \in DOMAIN db.rows : rows = [db.rows EXCEPT ![i].hash = Malformed]
  <2>1. PICK i \in DOMAIN db.rows : rows = [db.rows EXCEPT ![i].hash = Malformed]
    BY <1>3
  <2>2. db.rows[i] \in LogRows
    BY <1>1
  <2>3. [db.rows[i] EXCEPT !.hash = Malformed] \in LogRows
    BY <2>2 DEF LogRows
  <2> QED
    BY <1>1, <2>1, <2>3
<1>4. CASE \E i \in 1 .. Len(db.rows) - 1 :
             rows = SubSeq(db.rows, 1, i - 1) \o SubSeq(db.rows, i + 1, Len(db.rows))
  BY <1>1, <1>4
<1>5. CASE \E i \in 1 .. Len(db.rows) - 1 :
             rows = [db.rows EXCEPT ![i] = db.rows[i + 1], ![i + 1] = db.rows[i]]
  <2>1. PICK i \in 1 .. Len(db.rows) - 1 :
             rows = [db.rows EXCEPT ![i] = db.rows[i + 1], ![i + 1] = db.rows[i]]
    BY <1>5
  <2>2. db.rows[i] \in LogRows /\ db.rows[i + 1] \in LogRows
    BY <1>1
  <2> QED
    BY <1>1, <2>1, <2>2
<1> QED
  BY <1>2, <1>3, <1>4, <1>5 DEF Edits

LEMMA StepEdit ==
  ASSUME Inv, EditFile
  PROVE  Inv'
<1> USE DEF Inv
<1>1. PICK rows \in Edits : db' = [db EXCEPT !.rows = rows] /\ wal' = {db'}
  BY DEF EditFile
<1>2. IsFile(db')
  <2>1. IsFile(db) /\ rows \in Seq(LogRows)
    BY EditsAreRows DEF Types
  <2> QED
    BY <1>1, <2>1 DEF IsFile
<1>3. /\ edits' = edits + 1 /\ edits' \in Nat /\ edits' # 0
      /\ UNCHANGED <<proc, phone, stage, now, there, ahead>>
  BY DEF EditFile, Types, clocks
<1>4. Types'
  BY <1>1, <1>2, <1>3 DEF Types
<1>5. ChainInv'
  BY <1>3 DEF ChainInv
<1>6. GrantInv'
  BY <1>3 DEF GrantInv, Ordered
<1> QED
  BY <1>4, <1>5, <1>6

\* In an unbroken chain a row's hash is over its own event and the hash it
\* follows, and is not that hash.
LEMMA HashesDiffer ==
  ASSUME NEW rows \in Seq(LogRows), Unbroken(rows), NEW i \in 1 .. Len(rows)
  PROVE  /\ rows[i].event \in LogEvents
         /\ rows[i].prev_hash \in Hashes
         /\ rows[i].prev_hash = IF i = 1 THEN GENESIS_PREV_HASH ELSE rows[i - 1].hash
         /\ rows[i].hash = Append(rows[i].prev_hash, rows[i].event)
         /\ rows[i].hash \in Hashes
         /\ rows[i].hash # rows[i].prev_hash
<1>1. rows[i] \in LogRows /\ i \in DOMAIN rows
  OBVIOUS
<1>2. rows[i].event \in LogEvents /\ rows[i].prev_hash \in Hashes
  BY <1>1 DEF LogRows
<1>3. /\ rows[i].prev_hash = IF i = 1 THEN GENESIS_PREV_HASH ELSE rows[i - 1].hash
      /\ rows[i].hash = Append(rows[i].prev_hash, rows[i].event)
  BY <1>1, FaultIsLocal DEF Unbroken
<1>4. /\ Append(rows[i].prev_hash, rows[i].event) \in Hashes
      /\ Append(rows[i].prev_hash, rows[i].event) # rows[i].prev_hash
  BY <1>2 DEF Hashes
<1> QED
  BY <1>2, <1>3, <1>4

LEMMA AppendTellsApart ==
  ASSUME NEW h \in Hashes, NEW e \in LogEvents, NEW f \in LogEvents, e # f
  PROVE  Append(h, e) # Append(h, f)
<1>1. Append(h, e)[Len(h) + 1] = e /\ Append(h, f)[Len(h) + 1] = f
  BY DEF Hashes
<1> QED
  BY <1>1

\* Every edit of an unbroken chain leaves a fault.
LEMMA EditBreaks ==
  ASSUME Types, Unbroken(db.rows), OnTheClock(db.rows), Malformed \notin Hashes,
         NEW rows \in Edits
  PROVE  Broken(rows)
<1>1. db.rows \in Seq(LogRows) /\ rows \in Seq(LogRows)
  BY EditsAreRows DEF Types, IsFile
<1>2. DOMAIN db.rows = 1 .. Len(db.rows) /\ Len(db.rows) \in Nat
  BY <1>1
<1>3. CASE \E i \in DOMAIN db.rows : rows = [db.rows EXCEPT ![i].event.at = MaxTime + 1]
  <2>1. PICK i \in DOMAIN db.rows : rows = [db.rows EXCEPT ![i].event.at = MaxTime + 1]
    BY <1>3
  <2>2. PICK row, e : row = db.rows[i] /\ e = [row.event EXCEPT !.at = MaxTime + 1]
    OBVIOUS
  <2>3. /\ row.event \in LogEvents /\ row.prev_hash \in Hashes
        /\ row.hash = Append(row.prev_hash, row.event)
    BY <1>1, <1>2, <2>2, HashesDiffer
  <2>4. e \in LogEvents /\ e # row.event
    <3>1. row.event.at <= MaxTime
      BY <2>2 DEF OnTheClock
    <3>2. MaxTime + 1 \in 0 .. MaxTime + 1 /\ row.event.at # MaxTime + 1
      BY <2>3, <3>1, LogBounds DEF LogEvents
    <3>3. e \in LogEvents /\ e.at = MaxTime + 1
      BY <2>2, <2>3, <3>2 DEF LogEvents
    <3> QED
      BY <3>2, <3>3
  <2>5. row \in LogRows
    BY <1>1, <2>2
  <2>6. rows[i] = [row EXCEPT !.event = e] /\ i \in DOMAIN rows
    BY <1>1, <2>1, <2>2
  <2>7. rows[i].event = e /\ rows[i].prev_hash = row.prev_hash /\ rows[i].hash = row.hash
    BY <2>5, <2>6 DEF LogRows
  <2>8. rows[i].hash # Append(rows[i].prev_hash, rows[i].event)
    BY <2>3, <2>4, <2>7, AppendTellsApart
  <2> QED
    BY <1>1, <2>6, <2>8, FaultIsLocal DEF Broken
<1>4. CASE \E i \in DOMAIN db.rows : rows = [db.rows EXCEPT ![i].hash = Malformed]
  <2>1. PICK i \in DOMAIN db.rows : rows = [db.rows EXCEPT ![i].hash = Malformed]
    BY <1>4
  <2>2. PICK row : row = db.rows[i]
    OBVIOUS
  <2>3. /\ row.hash = Append(row.prev_hash, row.event) /\ row.hash \in Hashes
    BY <1>1, <1>2, <2>2, HashesDiffer
  <2>4. row \in LogRows
    BY <1>1, <2>2
  <2>5. rows[i] = [row EXCEPT !.hash = Malformed] /\ i \in DOMAIN rows
    BY <1>1, <2>1, <2>2
  <2>6. /\ rows[i].event = row.event /\ rows[i].prev_hash = row.prev_hash
        /\ rows[i].hash = Malformed
    BY <2>4, <2>5 DEF LogRows
  <2>7. rows[i].hash # Append(rows[i].prev_hash, rows[i].event)
    BY <2>3, <2>6
  <2> QED
    BY <1>1, <2>5, <2>7, FaultIsLocal DEF Broken
<1>5. ASSUME NEW i \in 1 .. Len(db.rows) - 1, i \in DOMAIN rows,
             rows[i] = db.rows[i + 1],
             i # 1 => rows[i - 1] = db.rows[i - 1]
      PROVE  Broken(rows)
  <2>1. /\ i \in 1 .. Len(db.rows) /\ i + 1 \in 1 .. Len(db.rows)
        /\ i + 1 # 1 /\ (i + 1) - 1 = i
    BY <1>2
  <2>2. /\ db.rows[i].prev_hash = IF i = 1 THEN GENESIS_PREV_HASH ELSE db.rows[i - 1].hash
        /\ db.rows[i].hash # db.rows[i].prev_hash
    BY <1>1, <2>1, HashesDiffer
  <2>3. db.rows[i + 1].prev_hash = db.rows[i].hash
    BY <1>1, <2>1, HashesDiffer
  <2>4. rows[i].prev_hash # IF i = 1 THEN GENESIS_PREV_HASH ELSE rows[i - 1].hash
    BY <1>5, <2>2, <2>3
  <2> QED
    BY <1>1, <1>5, <2>4, FaultIsLocal DEF Broken
<1>6. CASE \E i \in 1 .. Len(db.rows) - 1 :
             rows = SubSeq(db.rows, 1, i - 1) \o SubSeq(db.rows, i + 1, Len(db.rows))
  <2>1. PICK i \in 1 .. Len(db.rows) - 1 :
             rows = SubSeq(db.rows, 1, i - 1) \o SubSeq(db.rows, i + 1, Len(db.rows))
    BY <1>6
  <2>2. PICK a, b : a = SubSeq(db.rows, 1, i - 1) /\ b = SubSeq(db.rows, i + 1, Len(db.rows))
    OBVIOUS
  <2>3. a \in Seq(LogRows) /\ Len(a) = i - 1 /\ \A k \in 1 .. i - 1 : a[k] = db.rows[k]
    BY <1>1, <1>2, <2>2
  <2>4. b \in Seq(LogRows) /\ Len(b) = Len(db.rows) - i /\ b[1] = db.rows[i + 1]
    BY <1>1, <1>2, <2>2
  <2>5. /\ i \in DOMAIN rows /\ rows[i] = b[1]
        /\ i # 1 => rows[i - 1] = a[i - 1]
    <3>1. /\ rows = a \o b
          /\ Len(rows) = Len(a) + Len(b)
      BY <2>1, <2>2, <2>3, <2>4
    <3>2. /\ \A k \in 1 .. Len(a) : rows[k] = a[k]
          /\ rows[Len(a) + 1] = b[1]
      BY <2>3, <2>4, <3>1
    <3>3. i \in DOMAIN rows
      BY <1>1, <1>2, <2>3, <2>4, <3>1
    <3> QED
      BY <2>3, <3>2, <3>3
  <2> QED
    BY <1>5, <2>3, <2>4, <2>5
<1>7. CASE \E i \in 1 .. Len(db.rows) - 1 :
             rows = [db.rows EXCEPT ![i] = db.rows[i + 1], ![i + 1] = db.rows[i]]
  <2>1. PICK i \in 1 .. Len(db.rows) - 1 :
             rows = [db.rows EXCEPT ![i] = db.rows[i + 1], ![i + 1] = db.rows[i]]
    BY <1>7
  <2>2. /\ i \in DOMAIN rows /\ rows[i] = db.rows[i + 1]
        /\ i # 1 => rows[i - 1] = db.rows[i - 1]
    BY <1>1, <1>2, <2>1
  <2> QED
    BY <1>5, <2>2
<1> QED
  BY <1>3, <1>4, <1>6, <1>7 DEF Edits

LEMMA StepEditBreaks ==
  ASSUME Inv, EditInv, EditFile, Malformed \notin Hashes
  PROVE  EditInv'
<1> SUFFICES ASSUME edits' = 1
             PROVE  \A d \in wal' : Broken(d.rows)
  BY DEF EditInv
<1>1. edits = 0
  BY DEF EditFile, Inv, Types
<1>2. PICK rows \in Edits : db' = [db EXCEPT !.rows = rows] /\ wal' = {db'}
  BY DEF EditFile
<1>3. db'.rows = rows
  BY <1>2 DEF Inv, Types, IsFile
<1>4. Unbroken(db.rows) /\ OnTheClock(db.rows)
  BY <1>1 DEF Inv, Types, ChainInv, Chained
<1>5. Broken(rows)
  BY <1>4, EditBreaks DEF Inv
<1> QED
  BY <1>2, <1>3, <1>5

-----------------------------------------------------------------------------
(* Theorems.                                                               *)

LEMMA InvInit == Init => Inv /\ EditInv
<1> SUFFICES ASSUME Init PROVE Inv /\ EditInv
  OBVIOUS
<1>1. IsFile(db) /\ Chained(db) /\ Covered(db.rows)
  <2>1. CASE db = NewFile
    BY <2>1 DEF NewFile, IsFile, Chained, Unbroken, OnTheClock, Covered
  <2>2. CASE db = OldFile
    <3>1. PICK e : e = [req |-> "lifecycle", type |-> "daemon_note", at |-> 0,
                        service |-> "none", payload |-> NoPayload]
      OBVIOUS
    <3>2. e \in LogEvents /\ ~Executes(e) /\ e.at <= MaxTime
      BY <3>1, LogBounds DEF LogEvents, EventTypes, Payloads, Executes
    <3>3. PICK rows : rows = BuildChain(<<e>>)
      OBVIOUS
    <3>4. PICK one : one = <<e>>
      OBVIOUS
    <3>5. /\ DOMAIN one = 1 .. 1 /\ one[1] = e
          /\ SubSeq(one, 1, 0) = <<>> /\ one \in Seq({e})
      BY <3>4
    <3>6. PICK row : row = ChainRow(<<>>, e)
      OBVIOUS
    <3>7. /\ row \in LogRows /\ row.event = e
          /\ row.prev_hash = GENESIS_PREV_HASH
          /\ row.hash = Append(row.prev_hash, row.event)
      BY <3>2, <3>6 DEF ChainRow, LogRows, Hashes, GENESIS_PREV_HASH, ComputeEntryHash
    <3>8. /\ rows \in Seq(LogRows) /\ DOMAIN rows = {1} /\ rows[1] = row
      <4>1. rows = [i \in DOMAIN one |-> ChainRow(SubSeq(one, 1, i - 1), one[i])]
        BY <3>3, <3>4 DEF BuildChain
      <4>2. DOMAIN rows = 1 .. 1 /\ rows[1] = ChainRow(SubSeq(one, 1, 0), e)
        BY <3>5, <4>1
      <4>3. rows[1] = row
        BY <3>5, <3>6, <4>2
      <4>4. rows = [i \in 1 .. 1 |-> row]
        BY <3>5, <4>1, <4>2, <4>3
      <4>5. rows \in Seq(LogRows)
        BY <3>7, <4>4
      <4> QED
        BY <4>2, <4>3, <4>5
    <3>9. Unbroken(rows)
      BY <3>7, <3>8, FaultIsLocal DEF Unbroken
    <3>10. OnTheClock(rows) /\ Covered(rows)
      BY <3>2, <3>7, <3>8 DEF OnTheClock, Covered
    <3>11. db = [version |-> 1, tables |-> {"entries"}, meta |-> NoHead, rows |-> rows]
      BY <2>2, <3>1, <3>3 DEF OldFile
    <3>12. IsFile(db) /\ db.rows = rows /\ db.meta = NoHead
      BY <3>11, <3>8 DEF IsFile
    <3> QED
      BY <3>9, <3>10, <3>12 DEF Chained
  <2> QED
    BY <2>1, <2>2 DEF Init
<1>2. Types
  BY <1>1, ClosedIsProc, LogBounds DEF Init, Types
<1>3. ChainInv
  BY <1>1, ClosedIsProc DEF Init, ChainInv
<1>4. GrantInv
  BY <1>1 DEF Init, GrantInv, Ordered
<1>5. EditInv
  BY DEF Init, EditInv
<1> QED
  BY <1>2, <1>3, <1>4, <1>5 DEF Inv

LEMMA InvNext ==
  ASSUME Inv, [Next]_vars
  PROVE  Inv' /\ (EditInv /\ Malformed \notin Hashes => EditInv')
<1>1. CASE UNCHANGED vars
  <2>1. db' = db /\ wal' = wal /\ proc' = proc /\ phone' = phone /\ stage' = stage
        /\ edits' = edits /\ now' = now /\ ahead' = ahead /\ ClocksMove
    BY <1>1, ClocksRest DEF vars, Inv
  <2>2. StageMoves
    BY <2>1 DEF Inv, Types, StageMoves, GrantInv
  <2> QED
    BY <2>1, <2>2, StepKeeps DEF LogMoves, ProcMoves, PhoneMoves
<1>2. CASE Next
  <2>1. CASE \E p \in Procs : \/ OpenLog(p) \/ Opened(p)
    BY <2>1, StepOpen
  <2>2. CASE \E p \in Procs : Migrate(p)
    BY <2>2, StepMigrate
  <2>3. CASE \E p \in Procs : Exit(p)
    BY <2>3, StepExit
  <2>4. CASE \E p \in Procs : \/ VerifyRows(p, TRUE) \/ VerifyRows(p, FALSE)
                              \/ VerifyMeta(p) \/ RepairRows(p)
    BY <2>4, StepVerify
  <2>5. CASE \E p \in Procs : RepairWrite(p)
    BY <2>5, StepRepairWrite
  <2>6. CASE \E p \in Procs : \/ ExportRows(p) \/ Diff(p, TRUE) \/ Diff(p, FALSE)
                              \/ \E f \in Filters : Query(p, f) \/ ExportEvents(p, f)
    BY <2>6, StepRead
  <2>7. CASE \E r \in Requests : \/ Ask(r) \/ OnDenied(r) \/ OnGranted(r)
                                 \/ SendExecute(r) \/ OnResult(r) \/ OnDeadline(r)
    BY <2>7, StepDaemon
  <2>8. CASE \E r \in Requests : \/ PhoneReceives(r)
                                 \/ PhoneDecides(r, "approval_granted")
                                 \/ PhoneDecides(r, "approval_denied")
    BY <2>8, StepPhone
  <2>9. CASE Tick
    BY <2>9, StepTick
  <2>10. CASE PowerLoss
    BY <2>10, StepPowerLoss
  <2>11. CASE EditFile
    BY <2>11, StepEdit, StepEditBreaks
  <2> QED
    BY <1>2, <2>1, <2>2, <2>3, <2>4, <2>5, <2>6, <2>7, <2>8, <2>9, <2>10, <2>11
    DEF Next
<1> QED
  BY <1>1, <1>2

\* Every state that can be reached, and every one a power loss can bring back,
\* is a sound chain with a past head, covered by the phone's log.
THEOREM Invariance == Spec => []Inv
<1>1. Init => Inv
  BY InvInit
<1>2. Inv /\ [Next]_vars => Inv'
  BY InvNext
<1> QED
  BY <1>1, <1>2, PTL DEF Spec

\* A file nobody edited holds one unforked chain and no `log verify` calls it
\* broken, for any number of daemons and commands, crashes and power losses.
THEOREM OneChain == Spec => []NoFork
<1>1. Inv => NoFork
  BY WalkIsExact DEF Inv, Types, ChainInv, Chained, NoFork
<1> QED
  BY <1>1, Invariance, PTL

\* A repair that races appends, other repairs and power losses may record an
\* old head of the file, never a head of another history.
THEOREM HeadsArePast == Spec => []RecordedHeadIsPast
<1>1. Inv => RecordedHeadIsPast
  BY DEF Inv, Types, ChainInv, Chained, PastHead, RecordedHeadIsPast
<1> QED
  BY <1>1, Invariance, PTL

\* One edit from outside, at any moment and of any row but the newest's
\* removal, is found by the walk for ever after: neither appends nor repairs
\* nor power losses hide it.  A hash that is not 32 bytes is no hash; a second
\* edit can undo the first, hence at most one.
THEOREM EditsAreSeen ==
  ASSUME Malformed \notin Hashes
  PROVE  Spec /\ [](edits <= 1) => []TamperEvident
<1>1. Init => Inv /\ EditInv
  BY InvInit
<1>2. Inv /\ EditInv /\ [Next]_vars => Inv' /\ EditInv'
  BY InvNext
<1>3. Inv /\ EditInv /\ edits <= 1 => TamperEvident
  <2> SUFFICES ASSUME Inv, EditInv, edits <= 1, edits > 0
               PROVE  ~VerifyChain(db.rows).ok
    BY DEF TamperEvident
  <2>1. edits = 1 /\ db \in wal
    BY DEF Inv, Types
  <2> QED
    BY <2>1, WalkIsExact DEF EditInv, Broken, Unbroken
<1> QED
  BY <1>1, <1>2, <1>3, PTL DEF Spec

-----------------------------------------------------------------------------
(* The comparison with the phone's log.                                    *)

\* Keeping all rows keeps the log.
LEMMA KeepAll ==
  ASSUME NEW log, log = [i \in DOMAIN log |-> log[i]],
         \A i \in DOMAIN log : log[i].genuine
  PROVE  Keep(log, LAMBDA row : row.genuine) = log
<1>1. {j \in DOMAIN log : log[j].genuine} = DOMAIN log
  OBVIOUS
<1> QED
  BY <1>1, Zenon DEF Keep

\* The signature in a result's payload verifies when the body is not null.
LEMMA PayloadVerifies ==
  ASSUME NEW payload \in Payloads, payload.sig # NoSig, payload.body # Null
  PROVE  payload.sig = SigningView(payload)
<1>1. PICK body \in Bodies : payload = ResultPayload(body)
  BY DEF Payloads, NoPayload
<1>2. /\ payload.status = "ok" /\ payload.body = body
      /\ payload.sig = {<<"status", "ok">>, <<"body", body>>}
  BY <1>1 DEF ResultPayload, WireView
<1>3. "ok" # Null /\ body # Null
  BY <1>2 DEF Null
<1>4. \A f \in {<<"status", "ok">>, <<"body", body>>} : f[2] # Null
  BY <1>3
<1>5. {f \in {<<"status", "ok">>, <<"body", body>>} : f[2] # Null} =
        {<<"status", "ok">>, <<"body", body>>}
  BY <1>4
<1> QED
  BY <1>2, <1>5 DEF SigningView

\* Sets of positions have a first and a last.
LEMMA FirstOf ==
  ASSUME NEW P, P \subseteq Nat, P # {}
  PROVE  \E i \in P : \A j \in P : i <= j
<1>1. \E i \in P : \A j \in P : ~(<<j, i>> \in OpToRel(<, Nat))
  BY WFMin, NatLessThanWellFounded, Zenon
<1>2. PICK i \in P : \A j \in P : ~(<<j, i>> \in OpToRel(<, Nat))
  BY <1>1
<1>3. \A j \in P : ~(j < i)
  BY <1>2 DEF OpToRel
<1>4. \A j \in P : j \in Nat
  OBVIOUS
<1>5. \A j \in P : i <= j
  BY <1>3, <1>4
<1> QED
  BY <1>5

LEMMA LastOf ==
  ASSUME NEW n \in Nat, NEW P, P \subseteq 1 .. n, P # {}
  PROVE  \E i \in P : \A j \in P : j <= i
<1> DEFINE Q == {n - i : i \in P}
<1>1. Q \subseteq Nat /\ Q # {}
  <2>1. \A i \in P : i \in 1 .. n
    OBVIOUS
  <2>2. \A i \in P : n - i \in Nat
    BY <2>1
  <2>3. PICK i \in P : TRUE
    OBVIOUS
  <2> QED
    BY <2>2, <2>3
<1>2. PICK k \in Q : \A l \in Q : k <= l
  BY <1>1, FirstOf
<1>3. PICK i \in P : k = n - i
  OBVIOUS
<1>4. \A j \in P : n - i <= n - j
  BY <1>2, <1>3
<1>5. \A j \in P : j <= i
  BY <1>4
<1> QED
  BY <1>5

\* The event that stands for an execution is one of the request's, and an
\* execution.
LEMMA ExecutedIsExecution ==
  ASSUME NEW n \in Nat, NEW pc, DOMAIN pc = 1 .. n,
         NEW r \in Reqs(pc, {"execute_sent", "execute_result"})
  PROVE  \E i \in DOMAIN pc :
           PcExecuted(pc, r) = pc[i] /\ pc[i].req = r /\ Executes(pc[i])
<1> DEFINE of(type) == {i \in DOMAIN pc : pc[i].req = r /\ pc[i].type = type}
<1>1. CASE of("execute_result") # {}
  <2>1. PICK P : P = of("execute_result")
    OBVIOUS
  <2>2. P \subseteq 1 .. n /\ P # {}
    BY <1>1, <2>1
  <2>3. \E i \in P : \A j \in P : j <= i
    BY <2>2, LastOf
  <2>4. PICK i : i = CHOOSE k \in P : \A j \in P : j <= k
    OBVIOUS
  <2>5. i \in P
    BY <2>3, <2>4
  <2>6. PcExecuted(pc, r) = pc[i]
    BY <1>1, <2>1, <2>4 DEF PcExecuted
  <2> QED
    BY <2>1, <2>5, <2>6 DEF Executes
<1>2. CASE of("execute_result") = {}
  <2>1. PICK P : P = of("execute_sent")
    OBVIOUS
  <2>2. P \subseteq Nat /\ P # {}
    BY <1>2, <2>1 DEF Reqs
  <2>3. \E i \in P : \A j \in P : i <= j
    BY <2>2, FirstOf
  <2>4. PICK i : i = CHOOSE k \in P : \A j \in P : k <= j
    OBVIOUS
  <2>5. i \in P
    BY <2>3, <2>4
  <2>6. PcExecuted(pc, r) = pc[i]
    BY <1>2, <2>1, <2>4 DEF PcExecuted
  <2> QED
    BY <2>1, <2>5, <2>6 DEF Executes
<1> QED
  BY <1>1, <1>2

\* The first grant of a request is no later than any other.
FirstGrant(log, r) ==
  CHOOSE i \in DOMAIN log :
    /\ log[i].req = r /\ log[i].type = "approval_granted"
    /\ \A j \in DOMAIN log :
         log[j].req = r /\ log[j].type = "approval_granted" => i <= j

LEMMA FirstGrantIsEarly ==
  ASSUME Types, Ordered, NEW r, NEW t, GrantedBy(phone, r, t, {}), t \in Nat
  PROVE  ~(t < phone[FirstGrant(phone, r)].at)
<1>1. PICK k \in DOMAIN phone : IsGrant(phone[k], r) /\ phone[k].at <= t
  BY DEF GrantedBy
<1>2. PICK P : P = {i \in DOMAIN phone : IsGrant(phone[i], r)}
  OBVIOUS
<1>3. P \subseteq Nat /\ k \in P
  BY <1>1, <1>2 DEF Types
<1>4. \E i \in P : \A j \in P : i <= j
  BY <1>3, FirstOf
<1>5. PICK i : i = FirstGrant(phone, r)
  OBVIOUS
<1>6. i \in DOMAIN phone /\ i <= k
  <2>1. \E l \in DOMAIN phone :
          /\ phone[l].req = r /\ phone[l].type = "approval_granted"
          /\ \A j \in DOMAIN phone :
               phone[j].req = r /\ phone[j].type = "approval_granted" => l <= j
    BY <1>2, <1>4 DEF IsGrant
  <2>2. /\ i \in DOMAIN phone
        /\ \A j \in DOMAIN phone :
             phone[j].req = r /\ phone[j].type = "approval_granted" => i <= j
    BY <1>5, <2>1, Zenon DEF FirstGrant
  <2> QED
    BY <1>1, <2>2 DEF IsGrant
<1>7. phone[i].at <= phone[k].at
  BY <1>6 DEF Ordered
<1>8. phone[i] \in PhoneRows /\ phone[k] \in PhoneRows
  BY <1>6 DEF Types
<1>9. phone[i].at \in Nat /\ phone[k].at \in Nat
  BY <1>8, LogBounds DEF PhoneRows
<1> QED
  BY <1>1, <1>5, <1>7, <1>9

\* The report on logs nobody edited names nothing but null bodies and grants of a
\* phone whose clock was ahead.
LEMMA ReportIsClean ==
  ASSUME Inv, edits = 0
  PROVE  LET report == DiffLogs(Events, phone)
         IN  /\ report.execution_without_approval = {}
             /\ report.phone_failures = {}
             /\ report.pc_failures \subseteq NullBodies
             /\ report.timestamp_anomalies \subseteq ahead
<1> DEFINE granted == Reqs(phone, {"approval_granted"})
           executed == Reqs(Events, {"execute_sent", "execute_result"})
<1>1. PICK pc, n : pc = Events /\ n = Len(db.rows)
  OBVIOUS
<1>2. db.rows \in Seq(LogRows) /\ Covered(db.rows) /\ Ordered
  BY DEF Inv, Types, IsFile, GrantInv
<1>3. /\ n \in Nat /\ DOMAIN pc = 1 .. n
      /\ \A i \in 1 .. n : pc[i] = db.rows[i].event /\ pc[i] \in LogEvents
  <2>1. n \in Nat /\ DOMAIN pc = 1 .. n
    BY <1>1, <1>2 DEF Events
  <2>2. \A i \in 1 .. n : pc[i] = db.rows[i].event /\ db.rows[i] \in LogRows
    BY <1>1, <1>2 DEF Events
  <2> QED
    BY <2>1, <2>2 DEF LogRows
<1>4. \A i \in 1 .. n : Executes(pc[i]) => GrantedBy(phone, pc[i].req, pc[i].at, ahead)
  BY <1>1, <1>2, <1>3 DEF Covered
<1>5. \A i \in DOMAIN phone : phone[i].genuine
  BY <1>2 DEF Ordered
<1>6. Keep(phone, LAMBDA row : row.genuine) = phone
  <2>1. phone = [i \in DOMAIN phone |-> phone[i]]
    BY DEF Inv, Types
  <2> QED
    BY <1>5, <2>1, KeepAll
<1>7. executed \subseteq granted
  BY <1>1, <1>3, <1>4 DEF Reqs, Executes, GrantedBy, IsGrant
<1>8. PcSignatureFailures(pc) \subseteq NullBodies
  <2>1. \A i \in 1 .. n : pc[i].payload \in Payloads
    BY <1>3 DEF LogEvents
  <2>2. \A i \in 1 .. n : pc[i].payload.sig # NoSig /\ pc[i].payload.body # Null =>
                            pc[i].payload.sig = SigningView(pc[i].payload)
    BY <2>1, PayloadVerifies
  <2> QED
    BY <1>1, <1>3, <2>2 DEF PcSignatureFailures, NullBodies
<1>9. \A r \in granted \cap executed :
        r \in ahead \/ ~(PcExecuted(pc, r).at < phone[FirstGrant(phone, r)].at)
  <2> SUFFICES ASSUME NEW r \in executed, r \notin ahead
               PROVE  ~(PcExecuted(pc, r).at < phone[FirstGrant(phone, r)].at)
    OBVIOUS
  <2>1. PICK i \in 1 .. n : PcExecuted(pc, r) = pc[i] /\ pc[i].req = r /\ Executes(pc[i])
    BY <1>1, <1>3, ExecutedIsExecution
  <2>2. GrantedBy(phone, r, pc[i].at, {})
    BY <1>4, <2>1 DEF GrantedBy
  <2>3. pc[i].at \in Nat
    BY <1>3, LogBounds DEF LogEvents
  <2> QED
    BY <1>2, <2>1, <2>2, <2>3, FirstGrantIsEarly DEF Inv
<1>10. PICK report : report = DiffLogs(Events, phone)
  OBVIOUS
<1>11. /\ report.execution_without_approval = executed \ granted
       /\ report.phone_failures = {phone[i].req : i \in {j \in DOMAIN phone : ~phone[j].genuine}}
       /\ report.pc_failures = PcSignatureFailures(pc)
       /\ report.timestamp_anomalies =
            {r \in granted \cap executed :
               PcExecuted(pc, r).at < phone[FirstGrant(phone, r)].at}
  <2> DEFINE trusted == Keep(phone, LAMBDA row : row.genuine)
  <2>1. /\ report.execution_without_approval = executed \ Reqs(trusted, {"approval_granted"})
        /\ report.phone_failures = {phone[i].req : i \in {j \in DOMAIN phone : ~phone[j].genuine}}
        /\ report.pc_failures = PcSignatureFailures(Events)
    BY <1>10 DEF DiffLogs
  <2>2. report.timestamp_anomalies =
          {r \in Reqs(trusted, {"approval_granted"}) \cap executed :
             PcExecuted(Events, r).at < trusted[FirstGrant(trusted, r)].at}
    BY <1>10 DEF DiffLogs, FirstGrant
  <2>3. trusted = phone
    BY <1>6
  <2> HIDE DEF trusted
  <2> QED
    BY <1>1, <2>1, <2>2, <2>3
<1>12. report.phone_failures = {}
  BY <1>5, <1>11
<1> QED
  BY <1>7, <1>8, <1>9, <1>10, <1>11, <1>12

\* Logs both sides kept as they should reconcile at every moment, whatever
\* restarts, timeouts, failed appends and power losses came between and however the
\* two clocks ran: all that diff_logs ever reports of them is a null body, which it
\* drops from the signed view (logdiff.rs:383), and an approval given while the
\* phone's clock was ahead of the PC's.
THEOREM HonestLogsAreClean == Spec => []HonestLogsReconcile
<1>1. Inv => HonestLogsReconcile
  BY ReportIsClean DEF HonestLogsReconcile
<1> QED
  BY <1>1, Invariance, PTL

\* A log in which no genuine row grants r is no cover for an execution of r.
LEMMA NoCover ==
  ASSUME NEW pc, NEW log, NEW r \in Reqs(pc, {"execute_sent", "execute_result"}),
         \A i \in DOMAIN log : IsGrant(log[i], r) => ~log[i].genuine
  PROVE  LET report == DiffLogs(pc, log)
         IN  /\ r \in report.execution_without_approval
             /\ r \notin report.matched
             /\ ~Clean(report)
<1> DEFINE trusted == Keep(log, LAMBDA row : row.genuine)
           granted == Reqs(trusted, {"approval_granted"})
           executed == Reqs(pc, {"execute_sent", "execute_result"})
<1>1. \A i \in DOMAIN trusted : i \in DOMAIN log /\ log[i].genuine /\ trusted[i] = log[i]
  BY DEF Keep
<1>2. r \notin granted
  BY <1>1 DEF Reqs, IsGrant
<1>3. PICK report : report = DiffLogs(pc, log)
  OBVIOUS
<1>4. /\ report.execution_without_approval = executed \ granted
      /\ report.matched = granted \cap executed
  BY <1>3 DEF DiffLogs
<1> QED
  BY <1>2, <1>3, <1>4 DEF Clean

\* An execution in the PC's log whose approval is missing from the phone's
\* log, or is there under a signature that is not the phone's, is reported and
\* never matched, for any logs the two can have, edited ones included.
THEOREM ForgeriesAreReported == Spec => []ForgeryReported
<1>1. Types => ForgeryReported
  <2> SUFFICES ASSUME Types, NEW r \in Reqs(Events, {"execute_sent", "execute_result"})
               PROVE  LET grant(row) == row.req = r /\ row.type = "approval_granted"
                          missing == Keep(phone, LAMBDA row : ~grant(row))
                          forged == [i \in DOMAIN phone |->
                                       [phone[i] EXCEPT !.genuine = ~grant(phone[i])]]
                      IN  \A other \in {missing, forged} :
                            LET report == DiffLogs(Events, other)
                            IN  /\ r \in report.execution_without_approval
                                /\ r \notin report.matched
                                /\ ~Clean(report)
    BY DEF ForgeryReported
  <2> DEFINE grant(row) == row.req = r /\ row.type = "approval_granted"
             missing == Keep(phone, LAMBDA row : ~grant(row))
             forged == [i \in DOMAIN phone |->
                          [phone[i] EXCEPT !.genuine = ~grant(phone[i])]]
  <2>1. \A i \in DOMAIN missing : IsGrant(missing[i], r) => ~missing[i].genuine
    BY DEF Keep, IsGrant
  <2>2. \A i \in DOMAIN forged : IsGrant(forged[i], r) => ~forged[i].genuine
    <3> SUFFICES ASSUME NEW i \in DOMAIN phone, IsGrant(forged[i], r)
                 PROVE  ~forged[i].genuine
      OBVIOUS
    <3>1. phone[i] \in PhoneRows
      BY DEF Types
    <3>2. PICK row, b : row = phone[i] /\ b = ~grant(phone[i])
      OBVIOUS
    <3>3. forged[i] = [row EXCEPT !.genuine = b]
      BY <3>2
    <3>4. /\ forged[i].req = row.req /\ forged[i].type = row.type /\ forged[i].genuine = b
      BY <3>1, <3>2, <3>3 DEF PhoneRows
    <3>5. grant(phone[i])
      BY <3>2, <3>4 DEF IsGrant
    <3> QED
      BY <3>2, <3>4, <3>5
  <2> HIDE DEF missing, forged
  <2>3. \A other \in {missing, forged} :
          \A i \in DOMAIN other : IsGrant(other[i], r) => ~other[i].genuine
    BY <2>1, <2>2
  <2>4. \A other \in {missing, forged} :
          LET report == DiffLogs(Events, other)
          IN  /\ r \in report.execution_without_approval
              /\ r \notin report.matched
              /\ ~Clean(report)
    BY <2>3, NoCover
  <2> QED
    BY <2>4 DEF missing, forged
<1>2. Inv => ForgeryReported
  BY <1>1 DEF Inv
<1> QED
  BY <1>2, Invariance, PTL
=============================================================================
