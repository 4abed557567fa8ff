------------------------- MODULE PhoneApprovalProofs -------------------------
(***************************************************************************)
(* Proofs about PhoneApproval: its inductive invariant IInv, for any sets  *)
(* of requests and destinations, any history, any tier rules and any bound *)
(* on the attempts, and the safety properties that follow from it.  There  *)
(* is one lemma per action, with one step per conjunct the action can      *)
(* disturb and a last one for the conjuncts it leaves alone.               *)
(***************************************************************************)
EXTENDS PhoneApproval, SequenceTheorems, TLAPS

-----------------------------------------------------------------------------
(* The type invariant in parts, so that a step cites the parts it needs.   *)

SmType ==
  /\ sm \in [tag : {"empty"} \cup Live \cup Terminal, req : Requests \cup {NoReq},
             tier : {2, 3}, attempt : 0 .. MaxAttempts, decision : Decisions \cup {"none"}]
  /\ sm.tag # "empty" => sm.req \in Requests

TaskType ==
  task \in [Requests -> [stage : Stages, decision : Decisions \cup {"none"},
                         handle : Requests \cup {NoReq}]]

RxType ==
  /\ rx \in [req : Requests \cup {NoReq}, stage : {"idle", "history", "append", "receive"},
             tier : {2, 3}]
  /\ rx.stage # "idle" => rx.req \in Requests

RowsType == rows \in [Requests -> Seq({"request"} \cup Decisions)]
SignedType == signed \subseteq [req : Requests, handle : Requests, decision : Decisions]
WireType == wire \subseteq [req : Requests, decision : Decisions]
AttemptType == auths \cup passed \cup withdrawn \subseteq Attempts

OtherType ==
  /\ sess \in {"active", "ending", "ended"} /\ endAsked \in BOOLEAN /\ closed \in BOOLEAN
  /\ received \subseteq Requests /\ seen \subseteq Requests
  /\ current \in Requests \cup {NoReq}
  /\ grants \in Seq(Destinations)
  /\ overdue \subseteq Requests
  /\ tapped \subseteq Requests /\ denied \subseteq Requests /\ missed \subseteq Requests

TypeParts ==
  /\ SmType /\ TaskType /\ RxType /\ RowsType /\ SignedType /\ WireType /\ AttemptType
  /\ OtherType

Inv ==
  /\ TypeParts /\ RxShape /\ FreshShape /\ ReviewShape /\ BusyShape
  /\ TaskShape /\ SignedShape /\ GrantsShape
  /\ missed \subseteq overdue
  /\ ApprovalIsTheUsers /\ NoLateApproval /\ SignsWhatWasShown /\ DecisionOnRecord
  /\ ShownWasSent

\* The invariant with its type part split is the invariant.
LEMMA Parts == IInv <=> Inv
  BY DEF IInv, Inv, TypeParts, TypeOK, SmType, TaskType, RxType, RowsType, SignedType,
     WireType, AttemptType, OtherType

-----------------------------------------------------------------------------
(* The logs of a request: <<>>, <<"request">> and <<"request", decision>>. *)

\* Appending to a log of one row (ApprovalLog.append).
LEMMA Appended ==
  ASSUME NEW S, NEW d \in S, NEW e \in S
  PROVE  Append(<<e>>, d) = <<e, d>>
  <1>1. <<e>> \in Seq(S) /\ <<e, d>> \in Seq(S)
    OBVIOUS
  <1>2. Append(<<e>>, d) \in Seq(S) /\ Len(Append(<<e>>, d)) = 2
    BY <1>1
  <1>3. Append(<<e>>, d)[1] = e /\ Append(<<e>>, d)[2] = d
    BY <1>1
  <1>4. Len(<<e, d>>) = 2 /\ <<e, d>>[1] = e /\ <<e, d>>[2] = d
    OBVIOUS
  <1>5. ASSUME NEW i \in 1 .. 2 PROVE <<e, d>>[i] = Append(<<e>>, d)[i]
    <2>1. i = 1 \/ i = 2
      OBVIOUS
    <2>. QED  BY <1>3, <1>4, <2>1
  <1>6. Append(<<e>>, d) = [i \in 1 .. 2 |-> Append(<<e>>, d)[i]]
    BY <1>2
  <1>7. <<e, d>> = [i \in 1 .. 2 |-> <<e, d>>[i]]
    BY <1>1, <1>4
  <1>. QED  BY <1>5, <1>6, <1>7

\* The rows an arrival and a decision append (append, appendWithBeforeCommit).
LEMMA Logs ==
  /\ Append(<<>>, "request") = <<"request">>
  /\ <<"request">> \in Seq({"request"} \cup Decisions)
  /\ \A d \in Decisions : /\ <<"request", d>> \in Seq({"request"} \cup Decisions)
                         /\ Append(<<"request">>, d) = <<"request", d>>
  <1>1. Append(<<>>, "request") = <<"request">>
    OBVIOUS
  <1>2. <<"request">> \in Seq({"request"} \cup Decisions)
    OBVIOUS
  <1>3. ASSUME NEW d \in Decisions
        PROVE  <<"request", d>> \in Seq({"request"} \cup Decisions)
    OBVIOUS
  <1>4. ASSUME NEW d \in Decisions PROVE Append(<<"request">>, d) = <<"request", d>>
    <2>1. "request" \in {"request"} \cup Decisions /\ d \in {"request"} \cup Decisions
      OBVIOUS
    <2>. QED  BY <2>1, Appended
  <1>. QED  BY <1>1, <1>2, <1>3, <1>4

\* The three logs of a request differ.
LEMMA Distinct ==
  ASSUME NEW d
  PROVE  /\ <<>> # <<"request">> /\ <<>> # <<"request", d>>
         /\ <<"request">> # <<"request", d>>
  <1>1. Len(<<>>) = 0 /\ Len(<<"request">>) = 1 /\ Len(<<"request", d>>) = 2
    OBVIOUS
  <1>. QED  BY <1>1

-----------------------------------------------------------------------------
(* One lemma per action.                                                   *)

\* A request is decoded, or refused as a repetition (decode_inbound).
LEMMA TakeRequestKeeps ==
  ASSUME Inv, NEW r \in Requests, TakeRequest(r)
  PROVE  Inv'
  <1>. USE DEF Inv, TypeParts
  <1>1. /\ Authenticated' = Authenticated /\ TapSuffices' = TapSuffices
        /\ Precedented' = Precedented /\ Justified' = Justified
        /\ Answered' = Answered /\ Tried' = Tried
    BY DEF TakeRequest, user, Authenticated, Precedented, TapSuffices, Justified,
       Answered, Tried
  <1>2. r \notin received => rows[r] = <<>> /\ r \notin seen
    BY <1>1 DEF FreshShape, Untouched
  <1>3. SmType'
    BY <1>2, RequestsAssumption, BoundsAssumption
    DEF TakeRequest, user, FailProtocol, SessionLost, Closed, Live, Terminal, Decisions,
        RxIdle, SmType, RxType
  <1>4. RxType'
    BY <1>2, RequestsAssumption
    DEF TakeRequest, user, FailProtocol, SessionLost, Closed, Live, RxIdle, RxType
  <1>5. OtherType'
    BY <1>2, RequestsAssumption
    DEF TakeRequest, user, FailProtocol, SessionLost, Closed, Live, RxIdle, OtherType,
        RxType
  <1>6. RxShape'
    BY <1>1, <1>2
    DEF TakeRequest, user, FailProtocol, SessionLost, Closed, Live, Decisions, RxIdle,
        RxType, RowsType, OtherType, RxShape
  <1>7. FreshShape'
    <2>1. (seen \subseteq received)'
      BY <1>1, <1>2
      DEF TakeRequest, user, FailProtocol, SessionLost, Closed, FreshShape, RxShape,
          RxType, OtherType
    <2>. SUFFICES ASSUME NEW q \in Requests \ seen' PROVE Untouched(q)'
      BY <2>1 DEF FreshShape
    <2>2. q \notin seen => Untouched(q)
      BY DEF FreshShape
    <2>. QED
      BY <1>1, <1>2, <2>2
      DEF TakeRequest, user, FailProtocol, SessionLost, Closed, Untouched
  <1>8. ReviewShape'
    BY <1>1, <1>2
    DEF TakeRequest, user, FailProtocol, SessionLost, Closed, Live, Terminal, Decisions,
        RxIdle, Stages, SmType, TaskType, RxShape, ReviewShape
  <1>9. BusyShape'
    BY <1>1, <1>2
    DEF TakeRequest, user, FailProtocol, SessionLost, Closed, Live, Terminal, Decisions,
        RxIdle, Stages, SmType, TaskType, BusyShape
  <1>10. ShownWasSent'
    BY <1>1, <1>2
    DEF TakeRequest, user, FailProtocol, SessionLost, Closed, Live, Terminal, Decisions,
        RxIdle, SmType, ShownWasSent
  <1>11. /\ TaskType' /\ RowsType' /\ SignedType' /\ WireType'
         /\ AttemptType'
    BY <1>1 DEF TakeRequest, user, TaskType, RowsType, SignedType, WireType, AttemptType
  <1>12. /\ TaskShape' /\ SignedShape' /\ GrantsShape' /\ (missed \subseteq overdue)'
         /\ ApprovalIsTheUsers' /\ NoLateApproval' /\ SignsWhatWasShown' /\ DecisionOnRecord'
    BY <1>1
    DEF TakeRequest, user, TaskShape, SignedShape, GrantsShape, ApprovalIsTheUsers,
        NoLateApproval, SignsWhatWasShown, DecisionOnRecord, Progress
  <1>. QED
    BY <1>3, <1>4, <1>5, <1>6, <1>7, <1>8, <1>9, <1>10, <1>11, <1>12

\* Any other message fails the protocol (dispatch).
LEMMA TakeOtherKeeps ==
  ASSUME Inv, TakeOther
  PROVE  Inv'
  <1>. USE DEF Inv, TypeParts
  <1>1. /\ Authenticated' = Authenticated /\ TapSuffices' = TapSuffices
        /\ Precedented' = Precedented /\ Justified' = Justified
        /\ Answered' = Answered /\ Tried' = Tried
    BY DEF TakeOther, user, Authenticated, Precedented, TapSuffices, Justified, Answered,
       Tried
  <1>2. SmType'
    BY RequestsAssumption, BoundsAssumption
    DEF TakeOther, user, FailProtocol, SessionLost, Closed, Live, Terminal, Decisions,
        RxIdle, SmType, RxType
  <1>3. OtherType'
    BY RequestsAssumption
    DEF TakeOther, user, FailProtocol, SessionLost, Closed, Live, RxIdle, OtherType,
        RxType
  <1>4. ReviewShape'
    BY <1>1
    DEF TakeOther, user, FailProtocol, SessionLost, Closed, Live, Terminal, Decisions,
        RxIdle, Stages, SmType, TaskType, RxShape, ReviewShape
  <1>5. BusyShape'
    BY <1>1
    DEF TakeOther, user, FailProtocol, SessionLost, Closed, Live, Terminal, Decisions,
        RxIdle, Stages, SmType, TaskType, BusyShape
  <1>6. ShownWasSent'
    BY <1>1
    DEF TakeOther, user, FailProtocol, SessionLost, Closed, Live, Terminal, Decisions,
        RxIdle, SmType, ShownWasSent
  <1>7. /\ TaskType' /\ RxType' /\ RowsType' /\ SignedType'
        /\ WireType' /\ AttemptType'
    BY <1>1
    DEF TakeOther, user, TaskType, RxType, RowsType, SignedType, WireType, AttemptType
  <1>8. /\ RxShape' /\ FreshShape' /\ TaskShape' /\ SignedShape'
        /\ GrantsShape' /\ (missed \subseteq overdue)' /\ ApprovalIsTheUsers' /\ NoLateApproval'
        /\ SignsWhatWasShown' /\ DecisionOnRecord'
    BY <1>1
    DEF TakeOther, user, RxShape, FreshShape, TaskShape, SignedShape, GrantsShape,
        ApprovalIsTheUsers, NoLateApproval, SignsWhatWasShown, DecisionOnRecord, Progress,
        Untouched
  <1>. QED
    BY <1>2, <1>3, <1>4, <1>5, <1>6, <1>7, <1>8

\* A tier 2 request goes to a destination of the history (evaluate).
LEMMA ReadHistoryKeeps ==
  ASSUME Inv, ReadHistory
  PROVE  Inv'
  <1>. USE DEF Inv, TypeParts
  <1>1. /\ Authenticated' = Authenticated /\ TapSuffices' = TapSuffices
        /\ Precedented' = Precedented /\ Justified' = Justified
        /\ Answered' = Answered /\ Tried' = Tried
    BY DEF ReadHistory, user, Authenticated, Precedented, TapSuffices, Justified,
       Answered, Tried
  <1>2. RxType'
    BY RequestsAssumption DEF ReadHistory, user, TierOf, RxType
  <1>3. RxShape'
    <2>1. RecentDestinations \subseteq Precedented
      BY <1>1 DEF RecentDestinations, GrantsShape, OtherType
    <2>2. PICK history \in {RecentDestinations, {}} :
            rx' = [req |-> rx.req, stage |-> "append", tier |-> TierOf(rx.req, history)]
      BY DEF ReadHistory
    <2>3. rx'.tier = 2 => rx.req \in TapSuffices
      BY <1>1, <2>1, <2>2 DEF ReadHistory, TierOf, TapSuffices, RxType
    <2>. QED
      BY <1>1, <2>2, <2>3 DEF ReadHistory, RxShape, RxType
  <1>4. /\ SmType' /\ TaskType' /\ RowsType' /\ SignedType'
        /\ WireType' /\ AttemptType' /\ OtherType'
    BY <1>1
    DEF ReadHistory, user, SmType, TaskType, RowsType, SignedType, WireType, AttemptType,
        OtherType
  <1>5. /\ FreshShape' /\ ReviewShape' /\ BusyShape' /\ TaskShape'
        /\ SignedShape' /\ GrantsShape' /\ (missed \subseteq overdue)' /\ ApprovalIsTheUsers'
        /\ NoLateApproval' /\ SignsWhatWasShown' /\ DecisionOnRecord' /\ ShownWasSent'
    BY <1>1
    DEF ReadHistory, user, FreshShape, ReviewShape, BusyShape, TaskShape, SignedShape,
        GrantsShape, ApprovalIsTheUsers, NoLateApproval, SignsWhatWasShown,
        DecisionOnRecord, ShownWasSent, Progress, Untouched
  <1>. QED
    BY <1>2, <1>3, <1>4, <1>5

\* The arrival is recorded once, for a request without a row (append).
LEMMA AppendRequestKeeps ==
  ASSUME Inv, AppendRequest
  PROVE  Inv'
  <1>. USE DEF Inv, TypeParts
  <1>1. /\ Authenticated' = Authenticated /\ TapSuffices' = TapSuffices
        /\ Precedented' = Precedented /\ Justified' = Justified
        /\ Answered' = Answered /\ Tried' = Tried
    BY DEF AppendRequest, user, Authenticated, Precedented, TapSuffices, Justified,
       Answered, Tried
  <1>2. rx.req \in Requests /\ rows[rx.req] = <<>> /\ rx.req \in received \ seen
    BY <1>1 DEF AppendRequest, RxType, RxShape
  <1>3. Untouched(rx.req)
    BY <1>1, <1>2 DEF FreshShape
  <1>4. \/ rows' = rows /\ rx' = RxIdle
        \/ /\ rows' = [rows EXCEPT ![rx.req] = <<"request">>]
           /\ rx' = [req |-> rx.req, stage |-> "receive", tier |-> rx.tier]
    BY <1>1, <1>2, <1>3, Logs DEF AppendRequest
  <1>5. SmType'
    BY <1>2, <1>3, <1>4, RequestsAssumption, BoundsAssumption
    DEF AppendRequest, user, FailProtocol, SessionLost, Closed, Live, Terminal, Decisions,
        RxIdle, SmType, RxType
  <1>6. RxType'
    BY <1>2, <1>3, <1>4, RequestsAssumption
    DEF AppendRequest, user, FailProtocol, SessionLost, Closed, Live, RxIdle, RxType
  <1>7. RowsType'
    BY <1>1, <1>2, <1>3, <1>4, Logs DEF RowsType
  <1>8. OtherType'
    BY <1>2, <1>3, <1>4, RequestsAssumption
    DEF AppendRequest, user, FailProtocol, SessionLost, Closed, Live, RxIdle, OtherType,
        RxType
  <1>9. RxShape'
    BY <1>1, <1>2, <1>3, <1>4 DEF AppendRequest, RxShape, RxIdle, RowsType
  <1>10. FreshShape'
    <2>1. (seen \subseteq received)'
      BY <1>1, <1>2, <1>3, <1>4
      DEF AppendRequest, user, FailProtocol, SessionLost, Closed, FreshShape, RxShape,
          RxType, OtherType
    <2>. SUFFICES ASSUME NEW q \in Requests \ seen' PROVE Untouched(q)'
      BY <2>1 DEF FreshShape
    <2>2. q \notin seen => Untouched(q)
      BY DEF FreshShape
    <2>3. CASE q # rx.req
      <3>1. rows'[q] = rows[q]
        BY <1>1, <1>2, <1>3, <1>4, <2>3
        DEF AppendRequest, user, FailProtocol, SessionLost, Closed, TaskType, RowsType
      <3>. QED
        BY <1>1, <1>2, <1>3, <1>4, <2>2, <2>3, <3>1 DEF AppendRequest, user, Untouched
    <2>4. CASE q = rx.req
      BY <1>1, <1>2, <1>3, <1>4, <2>2, <2>4
      DEF AppendRequest, user, FailProtocol, SessionLost, Closed, Live, Decisions, RxIdle,
          Stages, TaskType, RowsType, Untouched
    <2>. QED  BY <2>3, <2>4
  <1>11. ReviewShape'
    <2>1. sm'.tag \in Live => sm' = sm
      BY DEF AppendRequest, user, FailProtocol, SessionLost, Closed, Live
    <2>2. sm'.req = sm.req /\ (sm'.tag # "empty" => sm.tag # "empty")
      BY DEF AppendRequest, user, FailProtocol, SessionLost, Closed, Live
    <2>3. sm.tag # "empty" => sm.req \in seen /\ rows'[sm.req] = rows[sm.req]
      BY <1>1, <1>2, <1>3, <1>4 DEF ReviewShape, RowsType, SmType
    <2>. QED
      BY <1>1, <1>2, <1>3, <1>4, <2>1, <2>2, <2>3
      DEF AppendRequest, user, ReviewShape, Live
  <1>12. BusyShape'
    BY <1>1, <1>2, <1>3, <1>4
    DEF AppendRequest, user, FailProtocol, SessionLost, Closed, Live, Terminal, Decisions,
        RxIdle, Stages, SmType, TaskType, BusyShape
  <1>13. TaskShape'
    <2>. SUFFICES ASSUME NEW q \in Requests PROVE Progress(q, task[q].stage, task[q].decision)'
      BY DEF TaskShape
    <2>2. Progress(q, task[q].stage, task[q].decision)
      BY DEF TaskShape
    <2>3. CASE q # rx.req
      <3>1. rows'[q] = rows[q]
        BY <1>1, <1>2, <1>3, <1>4, <2>3
        DEF AppendRequest, user, FailProtocol, SessionLost, Closed, TaskType, RowsType
      <3>. QED
        BY <1>1, <1>2, <1>3, <1>4, <2>2, <2>3, <3>1 DEF AppendRequest, user, Progress
    <2>4. CASE q = rx.req
      BY <1>1, <1>2, <1>3, <1>4, <2>2, <2>4
      DEF AppendRequest, user, FailProtocol, SessionLost, Closed, Live, Decisions, RxIdle,
          Stages, TaskType, RowsType, Progress, Untouched
    <2>. QED  BY <2>3, <2>4
  <1>14. SignedShape'
    <2>1. \A s \in signed : rows'[s.req] = rows[s.req]
      BY <1>1, <1>2, <1>3, <1>4 DEF SignedType, RowsType, Untouched, Answered
    <2>. QED
      BY <1>1, <1>2, <1>3, <1>4, <2>1 DEF AppendRequest, SignedShape
  <1>15. DecisionOnRecord'
    <2>1. ASSUME NEW w \in wire PROVE rows'[w.req] = rows[w.req]
      <3>1. rows[w.req] = <<"request", w.decision>> /\ w.req \in Requests
        BY <1>1, <1>2, <1>3, <1>4 DEF DecisionOnRecord, WireType
      <3>2. w.req # rx.req
        BY <1>1, <1>2, <1>3, <1>4, <3>1, Distinct
      <3>. QED  BY <1>1, <1>2, <1>3, <1>4, <3>1, <3>2 DEF RowsType
    <2>2. \A q \in Requests : rows'[q] = rows[q] \/ rows'[q] = <<"request">>
      BY <1>1, <1>2, <1>3, <1>4 DEF RowsType
    <2>3. signed' = signed /\ wire' = wire
      BY DEF AppendRequest
    <2>4. \A w \in wire : rows'[w.req] = <<"request", w.decision>>
      BY <1>1, <1>2, <1>3, <1>4, <2>1 DEF DecisionOnRecord
    <2>5. ASSUME NEW q \in Requests
          PROVE  \/ rows'[q] \in {<<>>, <<"request">>}
                 \/ \E s \in signed : s.req = q /\ rows'[q] = <<"request", s.decision>>
      BY <1>1, <1>2, <1>3, <1>4, <2>2, ZenonT(60) DEF DecisionOnRecord
    <2>. QED
      BY <2>3, <2>4, <2>5 DEF DecisionOnRecord
  <1>16. ShownWasSent'
    BY <1>1, <1>2, <1>3, <1>4
    DEF AppendRequest, user, FailProtocol, SessionLost, Closed, Live, Terminal, Decisions,
        RxIdle, SmType, ShownWasSent
  <1>17. TaskType' /\ SignedType' /\ WireType' /\ AttemptType'
    BY <1>1 DEF AppendRequest, user, TaskType, SignedType, WireType, AttemptType
  <1>18. /\ GrantsShape' /\ (missed \subseteq overdue)' /\ ApprovalIsTheUsers' /\ NoLateApproval'
         /\ SignsWhatWasShown'
    BY <1>1
    DEF AppendRequest, user, GrantsShape, ApprovalIsTheUsers, NoLateApproval,
        SignsWhatWasShown
  <1>. QED
    BY <1>5, <1>6, <1>7, <1>8, <1>9, <1>10, <1>11, <1>12, <1>13, <1>14, <1>15, <1>16,
       <1>17, <1>18

\* A new request is shown; a rejected one takes the session down (receive).
LEMMA ReceiveKeeps ==
  ASSUME Inv, Receive
  PROVE  Inv'
  <1>. USE DEF Inv, TypeParts
  <1>1. /\ Authenticated' = Authenticated /\ TapSuffices' = TapSuffices
        /\ Precedented' = Precedented /\ Justified' = Justified
        /\ Answered' = Answered /\ Tried' = Tried
    BY DEF Receive, user, Authenticated, Precedented, TapSuffices, Justified, Answered,
       Tried
  <1>2. /\ rx.req \in Requests /\ rx.req \in received \ seen /\ rows[rx.req] = <<"request">>
        /\ rx.tier = 2 => rx.req \in TapSuffices
    BY <1>1 DEF Receive, RxType, RxShape
  <1>3. Untouched(rx.req)
    BY <1>1, <1>2 DEF FreshShape
  <1>4. SmType'
    BY <1>2, <1>3, RequestsAssumption, BoundsAssumption
    DEF Receive, user, Active, Launch, FailProtocol, SessionLost, Closed, Live, Terminal,
        Decisions, RxIdle, SmType, RxType
  <1>5. TaskType'
    <2>1. task' = task \/ Launch(rx.req, "expired")
      BY DEF Receive
    <2>2. QED
      BY <1>2, <2>1, RequestsAssumption DEF Launch, Decisions, Stages, TaskType
  <1>6. RxType'
    BY <1>2, <1>3, RequestsAssumption
    DEF Receive, user, Active, Launch, FailProtocol, SessionLost, Closed, Live, RxIdle,
        RxType
  <1>7. OtherType'
    BY <1>2, <1>3, RequestsAssumption
    DEF Receive, user, Active, Launch, FailProtocol, SessionLost, Closed, Live, RxIdle,
        OtherType, RxType
  <1>8. RxShape'
    BY <1>1, <1>2, <1>3
    DEF Receive, user, Active, Launch, FailProtocol, SessionLost, Closed, Live, Decisions,
        RxIdle, RxType, RowsType, OtherType, RxShape
  <1>9. FreshShape'
    <2>1. (seen \subseteq received)'
      BY <1>1, <1>2, <1>3
      DEF Receive, user, Active, Launch, FailProtocol, SessionLost, Closed, FreshShape,
          RxShape, RxType, OtherType
    <2>. SUFFICES ASSUME NEW q \in Requests \ seen' PROVE Untouched(q)'
      BY <2>1 DEF FreshShape
    <2>2. q \notin seen => Untouched(q)
      BY DEF FreshShape
    <2>3. CASE q # rx.req
      <3>1. task'[q] = task[q]
        BY <1>1, <1>2, <1>3, <2>3
        DEF Receive, user, Active, Launch, FailProtocol, SessionLost, Closed, TaskType,
            RowsType
      <3>. QED
        BY <1>1, <1>2, <1>3, <2>2, <2>3, <3>1 DEF Receive, user, Untouched
    <2>4. CASE q = rx.req
      BY <1>1, <1>2, <1>3, <2>2, <2>4
      DEF Receive, user, Active, Launch, FailProtocol, SessionLost, Closed, Live,
          Decisions, RxIdle, Stages, TaskType, RowsType, Untouched
    <2>. QED  BY <2>3, <2>4
  <1>10. ReviewShape'
    BY <1>1, <1>2, <1>3
    DEF Receive, user, Active, Launch, FailProtocol, SessionLost, Closed, Live, Terminal,
        Decisions, RxIdle, Stages, SmType, TaskType, RxShape, ReviewShape, Untouched,
        OtherType
  <1>11. BusyShape'
    BY <1>1, <1>2, <1>3
    DEF Receive, user, Active, Launch, FailProtocol, SessionLost, Closed, Live, Terminal,
        Decisions, RxIdle, Stages, SmType, TaskType, BusyShape
  <1>12. TaskShape'
    <2>. SUFFICES ASSUME NEW q \in Requests PROVE Progress(q, task[q].stage, task[q].decision)'
      BY DEF TaskShape
    <2>2. Progress(q, task[q].stage, task[q].decision)
      BY DEF TaskShape
    <2>3. CASE q # rx.req
      <3>1. task'[q] = task[q]
        BY <1>1, <1>2, <1>3, <2>3
        DEF Receive, user, Active, Launch, FailProtocol, SessionLost, Closed, TaskType,
            RowsType
      <3>. QED
        BY <1>1, <1>2, <1>3, <2>2, <2>3, <3>1 DEF Receive, user, Progress
    <2>4. CASE q = rx.req
      BY <1>1, <1>2, <1>3, <2>2, <2>4
      DEF Receive, user, Active, Launch, FailProtocol, SessionLost, Closed, Live,
          Decisions, RxIdle, Stages, TaskType, RowsType, Progress, Untouched
    <2>. QED  BY <2>3, <2>4
  <1>13. ShownWasSent'
    BY <1>1, <1>2, <1>3
    DEF Receive, user, Active, Launch, FailProtocol, SessionLost, Closed, Live, Terminal,
        Decisions, RxIdle, SmType, ShownWasSent
  <1>14. RowsType' /\ SignedType' /\ WireType' /\ AttemptType'
    BY <1>1 DEF Receive, user, RowsType, SignedType, WireType, AttemptType
  <1>15. /\ SignedShape' /\ GrantsShape' /\ (missed \subseteq overdue)' /\ ApprovalIsTheUsers'
         /\ NoLateApproval' /\ SignsWhatWasShown' /\ DecisionOnRecord'
    BY <1>1
    DEF Receive, user, SignedShape, GrantsShape, ApprovalIsTheUsers, NoLateApproval,
        SignsWhatWasShown, DecisionOnRecord
  <1>. QED
    BY <1>4, <1>5, <1>6, <1>7, <1>8, <1>9, <1>10, <1>11, <1>12, <1>13, <1>14, <1>15

\* The cancelled dispatcher holds nothing (dispatch).
LEMMA CancelDispatchKeeps ==
  ASSUME Inv, CancelDispatch
  PROVE  Inv'
  <1>. USE DEF Inv, TypeParts
  <1>1. /\ Authenticated' = Authenticated /\ TapSuffices' = TapSuffices
        /\ Precedented' = Precedented /\ Justified' = Justified
        /\ Answered' = Answered /\ Tried' = Tried
    BY DEF CancelDispatch, user, Authenticated, Precedented, TapSuffices, Justified,
       Answered, Tried
  <1>2. RxType'
    BY RequestsAssumption DEF CancelDispatch, user, RxIdle, RxType
  <1>3. RxShape'
    BY <1>1
    DEF CancelDispatch, user, Decisions, RxIdle, RxType, RowsType, OtherType, RxShape
  <1>4. /\ SmType' /\ TaskType' /\ RowsType' /\ SignedType'
        /\ WireType' /\ AttemptType' /\ OtherType'
    BY <1>1
    DEF CancelDispatch, user, SmType, TaskType, RowsType, SignedType, WireType,
        AttemptType, OtherType
  <1>5. /\ FreshShape' /\ ReviewShape' /\ BusyShape' /\ TaskShape'
        /\ SignedShape' /\ GrantsShape' /\ (missed \subseteq overdue)' /\ ApprovalIsTheUsers'
        /\ NoLateApproval' /\ SignsWhatWasShown' /\ DecisionOnRecord' /\ ShownWasSent'
    BY <1>1
    DEF CancelDispatch, user, FreshShape, ReviewShape, BusyShape, TaskShape, SignedShape,
        GrantsShape, ApprovalIsTheUsers, NoLateApproval, SignsWhatWasShown,
        DecisionOnRecord, ShownWasSent, Progress, Untouched
  <1>. QED
    BY <1>2, <1>3, <1>4, <1>5

\* A tap opens an attempt numbered after all earlier ones, or commits (approve).
LEMMA ApproveKeeps ==
  ASSUME Inv, NEW r \in Requests, Approve(r)
  PROVE  Inv'
  <1>. USE DEF Inv, TypeParts
  <1>1. /\ Authenticated' = Authenticated /\ TapSuffices' = TapSuffices
        /\ Precedented' = Precedented /\ Answered' = Answered
        /\ Tried' = Tried
    BY DEF Approve, Authenticated, Precedented, TapSuffices, Answered, Tried
  <1>2. sm.req = r /\ r \in seen
    BY <1>1 DEF Approve, ReviewShape
  <1>3. /\ rows[r] = <<"request">> /\ r \notin Answered /\ r \notin denied /\ r \in tapped'
        /\ sm.tier = 2 => r \in TapSuffices
    BY <1>1, <1>2 DEF Approve, ReviewShape
  <1>4. Justified \subseteq Justified' /\ (sm.tier = 2 => r \in Justified')
    BY <1>1, <1>2, <1>3 DEF Approve, Justified
  <1>5. SmType'
    BY <1>2, <1>3, <1>4, RequestsAssumption, BoundsAssumption
    DEF Approve, ExpireOrLoseSession, InTime, Active, Closed, Committing, Moved, Launch,
        Live, Terminal, Decisions, SmType, RxType
  <1>6. TaskType'
    BY <1>2, <1>3, <1>4, RequestsAssumption
    DEF Approve, ExpireOrLoseSession, InTime, Active, Closed, Committing, Moved, Launch,
        Decisions, Stages, TaskType, OtherType
  <1>7. OtherType'
    BY <1>2, <1>3, <1>4, RequestsAssumption
    DEF Approve, ExpireOrLoseSession, InTime, Active, Closed, Committing, Moved, Launch,
        OtherType, RxType
  <1>8. FreshShape'
    <2>1. (seen \subseteq received)'
      BY <1>1, <1>2, <1>3, <1>4
      DEF Approve, ExpireOrLoseSession, InTime, Active, Closed, Committing, Moved, Launch,
          FreshShape, RxShape, RxType, OtherType
    <2>. SUFFICES ASSUME NEW q \in Requests \ seen' PROVE Untouched(q)'
      BY <2>1 DEF FreshShape
    <2>2. q \notin seen => Untouched(q)
      BY DEF FreshShape
    <2>3. CASE q # r
      <3>1. task'[q] = task[q]
        BY <1>1, <1>2, <1>3, <1>4, <2>3
        DEF Approve, ExpireOrLoseSession, InTime, Active, Closed, Committing, Moved,
            Launch, TaskType, RowsType
      <3>. QED
        BY <1>1, <1>2, <1>3, <1>4, <2>2, <2>3, <3>1 DEF Approve, Untouched
    <2>4. CASE q = r
      BY <1>1, <1>2, <1>3, <1>4, <2>2, <2>4
      DEF Approve, ExpireOrLoseSession, InTime, Active, Closed, Committing, Moved, Launch,
          Decisions, Stages, TaskType, RowsType, Untouched
    <2>. QED  BY <2>3, <2>4
  <1>9. ReviewShape'
    <2>1. sm'.tag # "review" /\ sm'.req = r
      BY <1>1, <1>2, <1>3, <1>4
      DEF Approve, ExpireOrLoseSession, InTime, Active, Closed, Committing, Moved, Launch
    <2>2. sm'.tag \in Live => current \in {NoReq, r} /\ ~closed
      BY <1>1, <1>2, <1>3, <1>4 DEF Approve, ReviewShape, Live
    <2>3. CASE sm'.tag # "auth"
      BY <1>1, <1>2, <1>3, <1>4, <2>1, <2>2, <2>3 DEF Approve, ReviewShape, Live
    <2>4. CASE sm'.tag = "auth"
      <3>1. sm'.attempt = sm.attempt + 1 /\ sm'.tier = 3 /\ sm.attempt < MaxAttempts /\ task' = task
        BY <2>4
        DEF Approve, ExpireOrLoseSession, InTime, Active, Closed, Committing, Moved,
            Launch
      <3>2. sm.attempt \in Nat /\ MaxAttempts \in Nat
        BY <1>1, <1>2, <1>3, <1>4, BoundsAssumption DEF SmType
      <3>3. \A t \in Tried : t[1] = r => t[2] \in Nat /\ t[2] <= sm.attempt
        BY <1>1, <1>2, <1>3, <1>4, BoundsAssumption
        DEF Approve, ReviewShape, Tried, AttemptType, Attempts
      <3>4. <<r, sm.attempt + 1>> \notin Tried
        <4>. SUFFICES ASSUME <<r, sm.attempt + 1>> \in Tried PROVE FALSE
          OBVIOUS
        <4>1. <<r, sm.attempt + 1>>[1] = r /\ <<r, sm.attempt + 1>>[2] = sm.attempt + 1
          OBVIOUS
        <4>2. sm.attempt + 1 <= sm.attempt
          BY <3>3, <4>1
        <4>. QED  BY <3>2, <4>2
      <3>5. <<sm'.req, sm'.attempt>> \notin passed \cup withdrawn
        BY <2>1, <3>1, <3>4 DEF Tried
      <3>6. task[r].stage = "none"
        BY <1>1, <1>2, <1>3, <1>4 DEF Approve, ReviewShape
      <3>7. sm'.attempt \in 1 .. MaxAttempts
        BY <3>1, <3>2
      <3>8. \A t \in Tried : t[1] = r => t[2] <= sm'.attempt
        BY <3>1, <3>2, <3>3
      <3>. QED
        BY <1>1, <1>2, <1>3, <1>4, <2>1, <2>2, <2>4, <3>1, <3>5, <3>6, <3>7, <3>8
        DEF Approve, ReviewShape
    <2>. QED  BY <2>3, <2>4
  <1>10. BusyShape'
    BY <1>1, <1>2, <1>3, <1>4
    DEF Approve, ExpireOrLoseSession, InTime, Active, Closed, Committing, Moved, Launch,
        Live, Terminal, Decisions, Stages, SmType, TaskType, BusyShape
  <1>11. TaskShape'
    <2>. SUFFICES ASSUME NEW q \in Requests PROVE Progress(q, task[q].stage, task[q].decision)'
      BY DEF TaskShape
    <2>2. Progress(q, task[q].stage, task[q].decision)
      BY DEF TaskShape
    <2>3. CASE q # r
      <3>1. task'[q] = task[q]
        BY <1>1, <1>2, <1>3, <1>4, <2>3
        DEF Approve, ExpireOrLoseSession, InTime, Active, Closed, Committing, Moved,
            Launch, TaskType, RowsType
      <3>. QED
        BY <1>1, <1>2, <1>3, <1>4, <2>2, <2>3, <3>1 DEF Approve, Progress
    <2>4. CASE q = r
      BY <1>1, <1>2, <1>3, <1>4, <2>2, <2>4
      DEF Approve, ExpireOrLoseSession, InTime, Active, Closed, Committing, Moved, Launch,
          Live, Terminal, Decisions, Stages, TaskType, RowsType, Progress, SmType
    <2>. QED  BY <2>3, <2>4
  <1>12. ApprovalIsTheUsers'
    BY <1>1, <1>2, <1>3, <1>4
    DEF Approve, ExpireOrLoseSession, InTime, Active, Closed, Committing, Moved, Launch,
        ApprovalIsTheUsers
  <1>13. ShownWasSent'
    BY <1>1, <1>2, <1>3, <1>4
    DEF Approve, ExpireOrLoseSession, InTime, Active, Closed, Committing, Moved, Launch,
        Live, Terminal, Decisions, SmType, ShownWasSent
  <1>14. /\ RxType' /\ RowsType' /\ SignedType' /\ WireType'
         /\ AttemptType'
    BY <1>1 DEF Approve, RxType, RowsType, SignedType, WireType, AttemptType
  <1>15. /\ RxShape' /\ SignedShape' /\ GrantsShape' /\ (missed \subseteq overdue)'
         /\ NoLateApproval' /\ SignsWhatWasShown' /\ DecisionOnRecord'
    BY <1>1
    DEF Approve, RxShape, SignedShape, GrantsShape, NoLateApproval, SignsWhatWasShown,
        DecisionOnRecord
  <1>. QED
    BY <1>5, <1>6, <1>7, <1>8, <1>9, <1>10, <1>11, <1>12, <1>13, <1>14, <1>15

\* A denial concerns a request nothing was signed for (deny).
LEMMA DenyKeeps ==
  ASSUME Inv, NEW r \in Requests, Deny(r)
  PROVE  Inv'
  <1>. USE DEF Inv, TypeParts
  <1>1. /\ Authenticated' = Authenticated /\ TapSuffices' = TapSuffices
        /\ Precedented' = Precedented /\ Answered' = Answered
        /\ Tried' = Tried
    BY DEF Deny, Authenticated, Precedented, TapSuffices, Answered, Tried
  <1>2. sm.req = r /\ r \in seen
    BY <1>1 DEF Deny, ReviewShape
  <1>3. /\ rows[r] = <<"request">> /\ r \notin Answered /\ r \notin denied
        /\ task[r].stage = "none"
    BY <1>1, <1>2 DEF Deny, ReviewShape
  <1>4. \A q \in Requests : q # r /\ q \in Justified => q \in Justified'
    BY <1>1, <1>2, <1>3 DEF Deny, Justified
  <1>5. SmType'
    BY <1>2, <1>3, <1>4, RequestsAssumption, BoundsAssumption
    DEF Deny, ExpireOrLoseSession, InTime, Active, Closed, Committing, Moved, Launch,
        Live, Terminal, Decisions, SmType, RxType
  <1>6. TaskType'
    BY <1>2, <1>3, <1>4, RequestsAssumption, SMTT(30)
    DEF Deny, ExpireOrLoseSession, InTime, Active, Closed, Committing, Moved, Launch,
        Decisions, Stages, TaskType, OtherType
  <1>7. OtherType'
    BY <1>2, <1>3, <1>4, RequestsAssumption
    DEF Deny, ExpireOrLoseSession, InTime, Active, Closed, Committing, Moved, Launch,
        OtherType, RxType
  <1>8. FreshShape'
    <2>1. (seen \subseteq received)'
      BY <1>1, <1>2, <1>3, <1>4
      DEF Deny, ExpireOrLoseSession, InTime, Active, Closed, Committing, Moved, Launch,
          FreshShape, RxShape, RxType, OtherType
    <2>. SUFFICES ASSUME NEW q \in Requests \ seen' PROVE Untouched(q)'
      BY <2>1 DEF FreshShape
    <2>2. q \notin seen => Untouched(q)
      BY DEF FreshShape
    <2>3. CASE q # r
      <3>1. task'[q] = task[q]
        BY <1>1, <1>2, <1>3, <1>4, <2>3
        DEF Deny, ExpireOrLoseSession, InTime, Active, Closed, Committing, Moved, Launch,
            TaskType, RowsType
      <3>. QED
        BY <1>1, <1>2, <1>3, <1>4, <2>2, <2>3, <3>1 DEF Deny, Untouched
    <2>4. CASE q = r
      BY <1>1, <1>2, <1>3, <1>4, <2>2, <2>4
      DEF Deny, ExpireOrLoseSession, InTime, Active, Closed, Committing, Moved, Launch,
          Decisions, Stages, TaskType, RowsType, Untouched
    <2>. QED  BY <2>3, <2>4
  <1>9. ReviewShape'
    BY <1>1, <1>2, <1>3, <1>4
    DEF Deny, ExpireOrLoseSession, InTime, Active, Closed, Committing, Moved, Launch,
        Live, Terminal, Decisions, RxIdle, Stages, SmType, TaskType, RxShape, ReviewShape
  <1>10. BusyShape'
    BY <1>1, <1>2, <1>3, <1>4
    DEF Deny, ExpireOrLoseSession, InTime, Active, Closed, Committing, Moved, Launch,
        Live, Terminal, Decisions, Stages, SmType, TaskType, BusyShape
  <1>11. TaskShape'
    <2>. SUFFICES ASSUME NEW q \in Requests PROVE Progress(q, task[q].stage, task[q].decision)'
      BY DEF TaskShape
    <2>2. Progress(q, task[q].stage, task[q].decision)
      BY DEF TaskShape
    <2>3. CASE q # r
      <3>1. task'[q] = task[q]
        BY <1>1, <1>2, <1>3, <1>4, <2>3
        DEF Deny, ExpireOrLoseSession, InTime, Active, Closed, Committing, Moved, Launch,
            TaskType, RowsType
      <3>. QED
        BY <1>1, <1>2, <1>3, <1>4, <2>2, <2>3, <3>1 DEF Deny, Progress
    <2>4. CASE q = r
      BY <1>1, <1>2, <1>3, <1>4, <2>2, <2>4
      DEF Deny, ExpireOrLoseSession, InTime, Active, Closed, Committing, Moved, Launch,
          Decisions, Stages, TaskType, RowsType, Progress
    <2>. QED  BY <2>3, <2>4
  <1>12. ApprovalIsTheUsers'
    <2>1. \A s \in signed : s.req # r /\ s.req \in Requests
      BY <1>1, <1>2, <1>3, <1>4 DEF Answered, SignedType
    <2>. QED
      BY <1>1, <1>2, <1>3, <1>4, <2>1 DEF Deny, ApprovalIsTheUsers, Justified
  <1>13. ShownWasSent'
    BY <1>1, <1>2, <1>3, <1>4
    DEF Deny, ExpireOrLoseSession, InTime, Active, Closed, Committing, Moved, Launch,
        Live, Terminal, Decisions, SmType, ShownWasSent
  <1>14. /\ RxType' /\ RowsType' /\ SignedType' /\ WireType'
         /\ AttemptType'
    BY <1>1 DEF Deny, RxType, RowsType, SignedType, WireType, AttemptType
  <1>15. /\ RxShape' /\ SignedShape' /\ GrantsShape' /\ (missed \subseteq overdue)'
         /\ NoLateApproval' /\ SignsWhatWasShown' /\ DecisionOnRecord'
    BY <1>1
    DEF Deny, RxShape, SignedShape, GrantsShape, NoLateApproval, SignsWhatWasShown,
        DecisionOnRecord
  <1>. QED
    BY <1>5, <1>6, <1>7, <1>8, <1>9, <1>10, <1>11, <1>12, <1>13, <1>14, <1>15

\* The attempt handed to the vault is the open one (authenticateTier3).
LEMMA AuthenticateKeeps ==
  ASSUME Inv, NEW r \in Requests, Authenticate(r)
  PROVE  Inv'
  <1>. USE DEF Inv, TypeParts
  <1>1. /\ Authenticated' = Authenticated /\ TapSuffices' = TapSuffices
        /\ Precedented' = Precedented /\ Justified' = Justified
        /\ Answered' = Answered
    BY DEF Authenticate, user, Authenticated, Precedented, TapSuffices, Justified,
       Answered
  <1>2. sm.req = r /\ r \in seen
    BY <1>1 DEF Authenticate, ReviewShape
  <1>3. <<r, sm.attempt>> \in Attempts
    BY <1>1, <1>2, BoundsAssumption DEF Authenticate, ReviewShape, SmType, Attempts
  <1>4. Tried' = Tried \cup {<<r, sm.attempt>>}
    BY <1>1, <1>2, <1>3 DEF Authenticate, user, Tried
  <1>5. AttemptType'
    BY <1>1, <1>2, <1>3, <1>4 DEF Authenticate, user, AttemptType
  <1>6. FreshShape'
    <2>1. (seen \subseteq received)'
      BY <1>1, <1>2, <1>3, <1>4
      DEF Authenticate, user, FreshShape, RxShape, RxType, OtherType
    <2>. SUFFICES ASSUME NEW q \in Requests \ seen' PROVE Untouched(q)'
      BY <2>1 DEF FreshShape
    <2>2. q \notin seen => Untouched(q)
      BY DEF FreshShape
    <2>. QED
      BY <1>1, <1>2, <1>3, <1>4, <2>2 DEF Authenticate, user, Untouched
  <1>7. ReviewShape'
    <2>1. \A t \in Tried' : t[1] = r => t[2] <= sm.attempt
      BY <1>1, <1>2, <1>3, <1>4, BoundsAssumption DEF Authenticate, ReviewShape, SmType
    <2>. QED
      BY <1>1, <1>2, <1>3, <1>4, <2>1 DEF Authenticate, user, ReviewShape
  <1>8. /\ SmType' /\ TaskType' /\ RxType' /\ RowsType'
        /\ SignedType' /\ WireType' /\ OtherType'
    BY <1>1
    DEF Authenticate, user, SmType, TaskType, RxType, RowsType, SignedType, WireType,
        OtherType
  <1>9. /\ RxShape' /\ BusyShape' /\ TaskShape' /\ SignedShape'
        /\ GrantsShape' /\ (missed \subseteq overdue)' /\ ApprovalIsTheUsers' /\ NoLateApproval'
        /\ SignsWhatWasShown' /\ DecisionOnRecord' /\ ShownWasSent'
    BY <1>1
    DEF Authenticate, user, RxShape, BusyShape, TaskShape, SignedShape, GrantsShape,
        ApprovalIsTheUsers, NoLateApproval, SignsWhatWasShown, DecisionOnRecord,
        ShownWasSent, Progress
  <1>. QED
    BY <1>5, <1>6, <1>7, <1>8, <1>9

\* An answer counts only for the open attempt (completeAuthentication).
LEMMA VaultAnswersKeeps ==
  ASSUME Inv, NEW a \in auths, NEW success \in BOOLEAN, VaultAnswers(a, success)
  PROVE  Inv'
  <1>. USE DEF Inv, TypeParts
  <1>1. Answered' = Answered
    BY DEF VaultAnswers, Answered
  <1>2. a \in Tried /\ Tried' \subseteq Tried
    BY <1>1 DEF VaultAnswers, Tried
  <1>3. sm.tag = "auth" => sm.req \in seen /\ sm.req \in Requests
    BY <1>1, <1>2 DEF ReviewShape, SmType
  <1>4. passed \subseteq passed' /\ Authenticated \subseteq Authenticated'
    BY <1>1, <1>2, <1>3 DEF VaultAnswers, Authenticated
  <1>5. Precedented \subseteq Precedented'
    BY <1>1, <1>2, <1>3, <1>4 DEF VaultAnswers, Precedented
  <1>6. TapSuffices \subseteq TapSuffices'
    BY <1>1, <1>2, <1>3, <1>4, <1>5 DEF VaultAnswers, TapSuffices
  <1>7. Justified \subseteq Justified'
    BY <1>1, <1>2, <1>3, <1>4, <1>5, <1>6 DEF VaultAnswers, Justified
  <1>8. sm.tag = "auth" => /\ rows[sm.req] = <<"request">> /\ sm.req \notin Answered
                           /\ sm.req \in tapped \ denied /\ task[sm.req].stage = "none"
    BY <1>1, <1>2, <1>3, <1>4, <1>5, <1>6, <1>7 DEF ReviewShape
  <1>9. a = <<a[1], a[2]>> /\ a[1] \in Requests
    BY <1>1, <1>2, <1>3, <1>4, <1>5, <1>6, <1>7, <1>8 DEF AttemptType, Attempts
  <1>10. sm.tag = "auth" /\ sm.req = a[1] /\ sm.attempt = a[2] /\ success => sm.req \in Justified'
    BY <1>1, <1>2, <1>3, <1>4, <1>5, <1>6, <1>7, <1>8, <1>9
    DEF VaultAnswers, ReviewShape, Justified, Authenticated
  <1>11. SmType'
    BY <1>2, <1>3, <1>4, <1>5, <1>6, <1>7, <1>8, <1>9, <1>10, RequestsAssumption,
       BoundsAssumption
    DEF VaultAnswers, CompleteAuthentication, ExpireOrLoseSession, InTime, Active, Closed,
        Committing, Moved, Launch, Live, Terminal, Decisions, SmType, RxType
  <1>12. TaskType'
    <2>1. task' = task \/ \E d \in Decisions : Launch(sm.req, d)
      BY DEF VaultAnswers, CompleteAuthentication, ExpireOrLoseSession, Decisions
    <2>2. ASSUME NEW d \in Decisions, Launch(sm.req, d) PROVE TaskType'
      BY <2>2 DEF Launch, TaskType, Stages
    <2>. QED  BY <2>1, <2>2 DEF TaskType
  <1>13. AttemptType'
    BY <1>2, <1>3, <1>4, <1>5, <1>6, <1>7, <1>8, <1>9, <1>10, BoundsAssumption
    DEF VaultAnswers, CompleteAuthentication, ExpireOrLoseSession, InTime, Active, Closed,
        Committing, Moved, Launch, Live, Terminal, Decisions, AttemptType, SmType
  <1>14. RxShape'
    BY <1>1, <1>2, <1>3, <1>4, <1>5, <1>6, <1>7, <1>8, <1>9, <1>10
    DEF VaultAnswers, RxShape
  <1>15. FreshShape'
    <2>1. (seen \subseteq received)'
      BY <1>1, <1>2, <1>3, <1>4, <1>5, <1>6, <1>7, <1>8, <1>9, <1>10
      DEF VaultAnswers, CompleteAuthentication, ExpireOrLoseSession, InTime, Active,
          Closed, Committing, Moved, Launch, FreshShape, RxShape, RxType, OtherType
    <2>. SUFFICES ASSUME NEW q \in Requests \ seen' PROVE Untouched(q)'
      BY <2>1 DEF FreshShape
    <2>2. q \notin seen => Untouched(q)
      BY DEF FreshShape
    <2>3. CASE q # sm.req
      <3>1. task'[q] = task[q]
        BY <1>1, <1>2, <1>3, <1>4, <1>5, <1>6, <1>7, <1>8, <1>9, <1>10, <2>3
        DEF VaultAnswers, CompleteAuthentication, ExpireOrLoseSession, InTime, Active,
            Closed, Committing, Moved, Launch, TaskType, RowsType
      <3>. QED
        BY <1>1, <1>2, <1>3, <1>4, <1>5, <1>6, <1>7, <1>8, <1>9, <1>10, <2>2, <2>3, <3>1
        DEF VaultAnswers, Untouched
    <2>4. CASE q = sm.req
      BY <1>1, <1>2, <1>3, <1>4, <1>5, <1>6, <1>7, <1>8, <1>9, <1>10, <2>2, <2>4
      DEF VaultAnswers, CompleteAuthentication, ExpireOrLoseSession, InTime, Active,
          Closed, Committing, Moved, Launch, Decisions, Stages, TaskType, RowsType,
          Untouched
    <2>. QED  BY <2>3, <2>4
  <1>16. ReviewShape'
    <2>1. sm'.req = sm.req /\ (sm'.tag # "empty" => sm.tag # "empty")
      BY DEF VaultAnswers, CompleteAuthentication, ExpireOrLoseSession, InTime, Active,
         Closed, Committing, Moved, Launch
    <2>2. sm'.tag \in Live => sm.tag \in Live
      BY DEF VaultAnswers, CompleteAuthentication, ExpireOrLoseSession, InTime, Active,
         Closed, Committing, Moved, Launch, Live
    <2>3. CASE sm' = sm /\ task' = task
      <3>1. sm.tag = "auth" => <<sm.req, sm.attempt>> # a
        BY <1>1, <1>2, <1>3, <1>4, <1>5, <1>6, <1>7, <1>8, <1>9, <1>10, <2>3
        DEF VaultAnswers, CompleteAuthentication, ExpireOrLoseSession, InTime, Active,
            Closed, Committing, Moved, Launch
      <3>2. sm.tag = "auth" => <<sm.req, sm.attempt>> \notin passed'
        BY <1>1, <1>2, <1>3, <1>4, <1>5, <1>6, <1>7, <1>8, <1>9, <1>10, <3>1
        DEF VaultAnswers, ReviewShape
      <3>. QED
        BY <1>1, <1>2, <1>3, <1>4, <1>5, <1>6, <1>7, <1>8, <1>9, <1>10, <2>3, <3>2
        DEF VaultAnswers, ReviewShape
    <2>4. CASE sm.tag = "auth" /\ sm'.tag = "review" /\ sm' = Moved("review", sm.decision) /\ task' = task
      BY <1>1, <1>2, <1>3, <1>4, <1>5, <1>6, <1>7, <1>8, <1>9, <1>10, <2>4
      DEF VaultAnswers, ReviewShape, Moved, Live
    <2>5. CASE sm'.tag \notin {"review", "auth"} /\ sm.tag = "auth"
      BY <1>1, <1>2, <1>3, <1>4, <1>5, <1>6, <1>7, <1>8, <1>9, <1>10, <2>1, <2>2, <2>5
      DEF VaultAnswers, ReviewShape, Live
    <2>. QED
      BY <2>3, <2>4, <2>5
      DEF VaultAnswers, CompleteAuthentication, ExpireOrLoseSession, InTime, Active,
          Closed, Committing, Moved, Launch
  <1>17. BusyShape'
    BY <1>1, <1>2, <1>3, <1>4, <1>5, <1>6, <1>7, <1>8, <1>9, <1>10
    DEF VaultAnswers, CompleteAuthentication, ExpireOrLoseSession, InTime, Active, Closed,
        Committing, Moved, Launch, Live, Terminal, Decisions, Stages, SmType, TaskType,
        BusyShape
  <1>18. TaskShape'
    <2>. SUFFICES ASSUME NEW q \in Requests PROVE Progress(q, task[q].stage, task[q].decision)'
      BY DEF TaskShape
    <2>2. Progress(q, task[q].stage, task[q].decision)
      BY DEF TaskShape
    <2>3. CASE q # sm.req
      <3>1. task'[q] = task[q]
        BY <1>1, <1>2, <1>3, <1>4, <1>5, <1>6, <1>7, <1>8, <1>9, <1>10, <2>3
        DEF VaultAnswers, CompleteAuthentication, ExpireOrLoseSession, InTime, Active,
            Closed, Committing, Moved, Launch, TaskType, RowsType
      <3>. QED
        BY <1>1, <1>2, <1>3, <1>4, <1>5, <1>6, <1>7, <1>8, <1>9, <1>10, <2>2, <2>3, <3>1
        DEF VaultAnswers, Progress
    <2>4. CASE q = sm.req
      BY <1>1, <1>2, <1>3, <1>4, <1>5, <1>6, <1>7, <1>8, <1>9, <1>10, <2>2, <2>4
      DEF VaultAnswers, CompleteAuthentication, ExpireOrLoseSession, InTime, Active,
          Closed, Committing, Moved, Launch, Decisions, Stages, TaskType, RowsType,
          Progress
    <2>. QED  BY <2>3, <2>4
  <1>19. GrantsShape'
    BY <1>1, <1>2, <1>3, <1>4, <1>5, <1>6, <1>7, <1>8, <1>9, <1>10
    DEF VaultAnswers, GrantsShape
  <1>20. ApprovalIsTheUsers'
    <2>1. \A s \in signed : s.decision = "approved" => s.req \in Justified
      BY <1>1, <1>2, <1>3, <1>4, <1>5, <1>6, <1>7, <1>8, <1>9, <1>10
      DEF ApprovalIsTheUsers, Justified
    <2>. QED
      BY <1>1, <1>2, <1>3, <1>4, <1>5, <1>6, <1>7, <1>8, <1>9, <1>10, <2>1
      DEF VaultAnswers, ApprovalIsTheUsers, Justified
  <1>21. ShownWasSent'
    BY <1>1, <1>2, <1>3, <1>4, <1>5, <1>6, <1>7, <1>8, <1>9, <1>10
    DEF VaultAnswers, CompleteAuthentication, ExpireOrLoseSession, InTime, Active, Closed,
        Committing, Moved, Launch, Live, Terminal, Decisions, SmType, ShownWasSent
  <1>22. /\ RxType' /\ RowsType' /\ SignedType' /\ WireType'
         /\ OtherType'
    BY <1>1 DEF VaultAnswers, RxType, RowsType, SignedType, WireType, OtherType
  <1>23. /\ SignedShape' /\ (missed \subseteq overdue)' /\ NoLateApproval' /\ SignsWhatWasShown'
         /\ DecisionOnRecord'
    BY <1>1
    DEF VaultAnswers, SignedShape, NoLateApproval, SignsWhatWasShown, DecisionOnRecord
  <1>. QED
    BY <1>11, <1>12, <1>13, <1>14, <1>15, <1>16, <1>17, <1>18, <1>19, <1>20, <1>21, <1>22,
       <1>23

\* A withdrawn attempt has not passed (cancelTier3Authentication).
LEMMA CancelTier3AuthenticationKeeps ==
  ASSUME Inv, NEW r \in Requests, CancelTier3Authentication(r)
  PROVE  Inv'
  <1>. USE DEF Inv, TypeParts
  <1>1. Answered' = Answered
    BY DEF CancelTier3Authentication, Answered
  <1>2. sm.req = r /\ r \in seen
    BY <1>1 DEF CancelTier3Authentication, ReviewShape
  <1>3. <<r, sm.attempt>> \in Attempts /\ <<r, sm.attempt>> \notin passed
    BY <1>1, <1>2, BoundsAssumption
    DEF CancelTier3Authentication, ReviewShape, SmType, Attempts
  <1>4. Tried' = Tried \cup {<<r, sm.attempt>>}
    BY <1>1, <1>2, <1>3 DEF CancelTier3Authentication, Tried
  <1>5. Authenticated' = Authenticated
    BY <1>1, <1>2, <1>3, <1>4 DEF CancelTier3Authentication, Authenticated
  <1>6. Precedented' = Precedented
    BY <1>1, <1>2, <1>3, <1>4, <1>5 DEF CancelTier3Authentication, Precedented
  <1>7. TapSuffices' = TapSuffices
    BY <1>1, <1>2, <1>3, <1>4, <1>5, <1>6 DEF TapSuffices
  <1>8. Justified' = Justified
    BY <1>1, <1>2, <1>3, <1>4, <1>5, <1>6, <1>7 DEF CancelTier3Authentication, Justified
  <1>9. rows[r] = <<"request">> /\ r \notin Answered /\ task[r].stage = "none"
    BY <1>1, <1>2, <1>3, <1>4, <1>5, <1>6, <1>7, <1>8
    DEF CancelTier3Authentication, ReviewShape
  <1>10. SmType'
    BY <1>2, <1>3, <1>4, <1>5, <1>6, <1>7, <1>8, <1>9, RequestsAssumption,
       BoundsAssumption
    DEF CancelTier3Authentication, CompleteAuthentication, ExpireOrLoseSession, InTime,
        Active, Closed, Committing, Moved, Launch, Live, Terminal, Decisions, SmType,
        RxType
  <1>11. TaskType'
    BY <1>2, <1>3, <1>4, <1>5, <1>6, <1>7, <1>8, <1>9, RequestsAssumption
    DEF CancelTier3Authentication, CompleteAuthentication, ExpireOrLoseSession, InTime,
        Active, Closed, Committing, Moved, Launch, Decisions, Stages, TaskType, OtherType
  <1>12. AttemptType'
    BY <1>1, <1>2, <1>3, <1>4, <1>5, <1>6, <1>7, <1>8, <1>9
    DEF CancelTier3Authentication, AttemptType
  <1>13. FreshShape'
    <2>1. (seen \subseteq received)'
      BY <1>1, <1>2, <1>3, <1>4, <1>5, <1>6, <1>7, <1>8, <1>9
      DEF CancelTier3Authentication, CompleteAuthentication, ExpireOrLoseSession, InTime,
          Active, Closed, Committing, Moved, Launch, FreshShape, RxShape, RxType,
          OtherType
    <2>. SUFFICES ASSUME NEW q \in Requests \ seen' PROVE Untouched(q)'
      BY <2>1 DEF FreshShape
    <2>2. q \notin seen => Untouched(q)
      BY DEF FreshShape
    <2>3. CASE q # r
      <3>1. task'[q] = task[q]
        BY <1>1, <1>2, <1>3, <1>4, <1>5, <1>6, <1>7, <1>8, <1>9, <2>3
        DEF CancelTier3Authentication, CompleteAuthentication, ExpireOrLoseSession,
            InTime, Active, Closed, Committing, Moved, Launch, TaskType, RowsType
      <3>. QED
        BY <1>1, <1>2, <1>3, <1>4, <1>5, <1>6, <1>7, <1>8, <1>9, <2>2, <2>3, <3>1
        DEF CancelTier3Authentication, Untouched
    <2>4. CASE q = r
      BY <1>1, <1>2, <1>3, <1>4, <1>5, <1>6, <1>7, <1>8, <1>9, <2>2, <2>4
      DEF CancelTier3Authentication, CompleteAuthentication, ExpireOrLoseSession, InTime,
          Active, Closed, Committing, Moved, Launch, Decisions, Stages, TaskType,
          RowsType, Untouched
    <2>. QED  BY <2>3, <2>4
  <1>14. ReviewShape'
    <2>1. sm'.req = r /\ sm'.tag # "auth" /\ sm'.tag # "empty"
      BY <1>1, <1>2, <1>3, <1>4, <1>5, <1>6, <1>7, <1>8, <1>9
      DEF CancelTier3Authentication, CompleteAuthentication, ExpireOrLoseSession, InTime,
          Active, Closed, Committing, Moved, Launch
    <2>2. sm'.tag \in Live => current \in {NoReq, r} /\ ~closed
      BY <1>1, <1>2, <1>3, <1>4, <1>5, <1>6, <1>7, <1>8, <1>9
      DEF CancelTier3Authentication, ReviewShape, Live
    <2>3. CASE sm'.tag # "review"
      BY <1>1, <1>2, <1>3, <1>4, <1>5, <1>6, <1>7, <1>8, <1>9, <2>1, <2>2, <2>3
      DEF CancelTier3Authentication, ReviewShape
    <2>4. CASE sm'.tag = "review"
      <3>1. task' = task /\ sm'.attempt = sm.attempt /\ sm'.tier = sm.tier
        BY <2>4
        DEF CancelTier3Authentication, CompleteAuthentication, ExpireOrLoseSession,
            InTime, Active, Closed, Committing, Moved, Launch
      <3>2. \A t \in Tried' : t[1] = r => t[2] <= sm.attempt
        BY <1>1, <1>2, <1>3, <1>4, <1>5, <1>6, <1>7, <1>8, <1>9, BoundsAssumption
        DEF CancelTier3Authentication, ReviewShape, SmType
      <3>. QED
        BY <1>1, <1>2, <1>3, <1>4, <1>5, <1>6, <1>7, <1>8, <1>9, <2>1, <2>2, <2>4, <3>1,
           <3>2
        DEF CancelTier3Authentication, ReviewShape
    <2>. QED  BY <2>3, <2>4
  <1>15. BusyShape'
    BY <1>1, <1>2, <1>3, <1>4, <1>5, <1>6, <1>7, <1>8, <1>9
    DEF CancelTier3Authentication, CompleteAuthentication, ExpireOrLoseSession, InTime,
        Active, Closed, Committing, Moved, Launch, Live, Terminal, Decisions, Stages,
        SmType, TaskType, BusyShape
  <1>16. TaskShape'
    <2>. SUFFICES ASSUME NEW q \in Requests PROVE Progress(q, task[q].stage, task[q].decision)'
      BY DEF TaskShape
    <2>2. Progress(q, task[q].stage, task[q].decision)
      BY DEF TaskShape
    <2>3. CASE q # r
      <3>1. task'[q] = task[q]
        BY <1>1, <1>2, <1>3, <1>4, <1>5, <1>6, <1>7, <1>8, <1>9, <2>3
        DEF CancelTier3Authentication, CompleteAuthentication, ExpireOrLoseSession,
            InTime, Active, Closed, Committing, Moved, Launch, TaskType, RowsType
      <3>. QED
        BY <1>1, <1>2, <1>3, <1>4, <1>5, <1>6, <1>7, <1>8, <1>9, <2>2, <2>3, <3>1
        DEF CancelTier3Authentication, Progress
    <2>4. CASE q = r
      BY <1>1, <1>2, <1>3, <1>4, <1>5, <1>6, <1>7, <1>8, <1>9, <2>2, <2>4
      DEF CancelTier3Authentication, CompleteAuthentication, ExpireOrLoseSession, InTime,
          Active, Closed, Committing, Moved, Launch, Decisions, Stages, TaskType,
          RowsType, Progress
    <2>. QED  BY <2>3, <2>4
  <1>17. ShownWasSent'
    BY <1>1, <1>2, <1>3, <1>4, <1>5, <1>6, <1>7, <1>8, <1>9
    DEF CancelTier3Authentication, CompleteAuthentication, ExpireOrLoseSession, InTime,
        Active, Closed, Committing, Moved, Launch, Live, Terminal, Decisions, SmType,
        ShownWasSent
  <1>18. /\ RxType' /\ RowsType' /\ SignedType' /\ WireType'
         /\ OtherType'
    BY <1>1, <1>2, <1>3, <1>4, <1>5, <1>6, <1>7, <1>8, <1>9
    DEF CancelTier3Authentication, RxType, RowsType, SignedType, WireType, OtherType
  <1>19. /\ RxShape' /\ SignedShape' /\ GrantsShape' /\ (missed \subseteq overdue)'
         /\ ApprovalIsTheUsers' /\ NoLateApproval' /\ SignsWhatWasShown' /\ DecisionOnRecord'
    BY <1>1, <1>2, <1>3, <1>4, <1>5, <1>6, <1>7, <1>8, <1>9
    DEF CancelTier3Authentication, RxShape, SignedShape, GrantsShape, ApprovalIsTheUsers,
        NoLateApproval, SignsWhatWasShown, DecisionOnRecord
  <1>. QED
    BY <1>10, <1>11, <1>12, <1>13, <1>14, <1>15, <1>16, <1>17, <1>18, <1>19

\* A deadline missed before the last check stays with an unsigned request.
LEMMA DeadlinePassesKeeps ==
  ASSUME Inv, NEW r \in Requests, DeadlinePasses(r)
  PROVE  Inv'
  <1>. USE DEF Inv, TypeParts
  <1>1. /\ Authenticated' = Authenticated /\ TapSuffices' = TapSuffices
        /\ Precedented' = Precedented /\ Justified' = Justified
        /\ Answered' = Answered /\ Tried' = Tried
    BY DEF DeadlinePasses, Authenticated, Precedented, TapSuffices, Justified, Answered,
       Tried
  <1>2. OtherType'
    BY RequestsAssumption DEF DeadlinePasses, Live, OtherType, RxType
  <1>3. TaskShape'
    <2>. SUFFICES ASSUME NEW q \in Requests PROVE Progress(q, task[q].stage, task[q].decision)'
      BY DEF TaskShape
    <2>2. Progress(q, task[q].stage, task[q].decision)
      BY DEF TaskShape
    <2>. QED
      BY <1>1, <2>2 DEF DeadlinePasses, Progress
  <1>4. (missed \subseteq overdue)'
    BY <1>1 DEF DeadlinePasses, Live, OtherType
  <1>5. NoLateApproval'
    BY <1>1 DEF DeadlinePasses, Live, NoLateApproval
  <1>6. /\ SmType' /\ TaskType' /\ RxType' /\ RowsType'
        /\ SignedType' /\ WireType' /\ AttemptType'
    BY <1>1
    DEF DeadlinePasses, SmType, TaskType, RxType, RowsType, SignedType, WireType,
        AttemptType
  <1>7. /\ RxShape' /\ FreshShape' /\ ReviewShape' /\ BusyShape'
        /\ SignedShape' /\ GrantsShape' /\ ApprovalIsTheUsers' /\ SignsWhatWasShown'
        /\ DecisionOnRecord' /\ ShownWasSent'
    BY <1>1
    DEF DeadlinePasses, RxShape, FreshShape, ReviewShape, BusyShape, SignedShape,
        GrantsShape, ApprovalIsTheUsers, SignsWhatWasShown, DecisionOnRecord,
        ShownWasSent, Untouched
  <1>. QED
    BY <1>2, <1>3, <1>4, <1>5, <1>6, <1>7

\* The timer turns a pending request into an expiry (expire).
LEMMA ExpireKeeps ==
  ASSUME Inv, NEW r \in Requests, Expire(r)
  PROVE  Inv'
  <1>. USE DEF Inv, TypeParts
  <1>1. /\ Authenticated' = Authenticated /\ TapSuffices' = TapSuffices
        /\ Precedented' = Precedented /\ Justified' = Justified
        /\ Answered' = Answered /\ Tried' = Tried
    BY DEF Expire, user, Authenticated, Precedented, TapSuffices, Justified, Answered,
       Tried
  <1>2. sm.req = r /\ r \in seen
    BY <1>1 DEF Expire, ReviewShape
  <1>3. rows[r] = <<"request">> /\ r \notin Answered /\ task[r].stage = "none"
    BY <1>1, <1>2 DEF Expire, ReviewShape
  <1>4. SmType'
    BY <1>2, <1>3, RequestsAssumption, BoundsAssumption
    DEF Expire, user, ExpireOrLoseSession, Active, Closed, Committing, Moved, Launch,
        Live, Terminal, Decisions, SmType, RxType
  <1>5. TaskType'
    BY <1>2, <1>3, RequestsAssumption
    DEF Expire, user, ExpireOrLoseSession, Active, Closed, Committing, Moved, Launch,
        Decisions, Stages, TaskType, OtherType
  <1>6. FreshShape'
    <2>1. (seen \subseteq received)'
      BY <1>1, <1>2, <1>3
      DEF Expire, user, ExpireOrLoseSession, Active, Closed, Committing, Moved, Launch,
          FreshShape, RxShape, RxType, OtherType
    <2>. SUFFICES ASSUME NEW q \in Requests \ seen' PROVE Untouched(q)'
      BY <2>1 DEF FreshShape
    <2>2. q \notin seen => Untouched(q)
      BY DEF FreshShape
    <2>3. CASE q # r
      <3>1. task'[q] = task[q]
        BY <1>1, <1>2, <1>3, <2>3
        DEF Expire, user, ExpireOrLoseSession, Active, Closed, Committing, Moved, Launch,
            TaskType, RowsType
      <3>. QED
        BY <1>1, <1>2, <1>3, <2>2, <2>3, <3>1 DEF Expire, user, Untouched
    <2>4. CASE q = r
      BY <1>1, <1>2, <1>3, <2>2, <2>4
      DEF Expire, user, ExpireOrLoseSession, Active, Closed, Committing, Moved, Launch,
          Decisions, Stages, TaskType, RowsType, Untouched
    <2>. QED  BY <2>3, <2>4
  <1>7. ReviewShape'
    BY <1>1, <1>2, <1>3
    DEF Expire, user, ExpireOrLoseSession, Active, Closed, Committing, Moved, Launch,
        Live, Terminal, Decisions, RxIdle, Stages, SmType, TaskType, RxShape, ReviewShape
  <1>8. BusyShape'
    BY <1>1, <1>2, <1>3
    DEF Expire, user, ExpireOrLoseSession, Active, Closed, Committing, Moved, Launch,
        Live, Terminal, Decisions, Stages, SmType, TaskType, BusyShape
  <1>9. TaskShape'
    <2>. SUFFICES ASSUME NEW q \in Requests PROVE Progress(q, task[q].stage, task[q].decision)'
      BY DEF TaskShape
    <2>2. Progress(q, task[q].stage, task[q].decision)
      BY DEF TaskShape
    <2>3. CASE q # r
      <3>1. task'[q] = task[q]
        BY <1>1, <1>2, <1>3, <2>3
        DEF Expire, user, ExpireOrLoseSession, Active, Closed, Committing, Moved, Launch,
            TaskType, RowsType
      <3>. QED
        BY <1>1, <1>2, <1>3, <2>2, <2>3, <3>1 DEF Expire, user, Progress
    <2>4. CASE q = r
      BY <1>1, <1>2, <1>3, <2>2, <2>4
      DEF Expire, user, ExpireOrLoseSession, Active, Closed, Committing, Moved, Launch,
          Decisions, Stages, TaskType, RowsType, Progress
    <2>. QED  BY <2>3, <2>4
  <1>10. ShownWasSent'
    BY <1>1, <1>2, <1>3
    DEF Expire, user, ExpireOrLoseSession, Active, Closed, Committing, Moved, Launch,
        Live, Terminal, Decisions, SmType, ShownWasSent
  <1>11. /\ RxType' /\ RowsType' /\ SignedType' /\ WireType'
         /\ AttemptType' /\ OtherType'
    BY <1>1
    DEF Expire, user, RxType, RowsType, SignedType, WireType, AttemptType, OtherType
  <1>12. /\ RxShape' /\ SignedShape' /\ GrantsShape' /\ (missed \subseteq overdue)'
         /\ ApprovalIsTheUsers' /\ NoLateApproval' /\ SignsWhatWasShown' /\ DecisionOnRecord'
    BY <1>1
    DEF Expire, user, RxShape, SignedShape, GrantsShape, ApprovalIsTheUsers,
        NoLateApproval, SignsWhatWasShown, DecisionOnRecord
  <1>. QED
    BY <1>4, <1>5, <1>6, <1>7, <1>8, <1>9, <1>10, <1>11, <1>12

\* currentRequest is the request of the task, or is gone (beforeFinalize).
LEMMA BeforeFinalizeKeeps ==
  ASSUME Inv, NEW r \in Requests, BeforeFinalize(r)
  PROVE  Inv'
  <1>. USE DEF Inv, TypeParts
  <1>1. /\ Authenticated' = Authenticated /\ TapSuffices' = TapSuffices
        /\ Precedented' = Precedented /\ Justified' = Justified
        /\ Answered' = Answered /\ Tried' = Tried
    BY DEF BeforeFinalize, user, Authenticated, Precedented, TapSuffices, Justified,
       Answered, Tried
  <1>2. Holds(r, "committing") => sm.req = r /\ current \in {NoReq, r}
    BY <1>1 DEF Holds, ReviewShape, Live
  <1>3. SmType'
    BY <1>2, RequestsAssumption, BoundsAssumption
    DEF BeforeFinalize, user, Holds, Active, Late, NoTask, TurnIntoExpiry, Committing,
        Moved, Launch, SessionLost, Closed, Live, Terminal, Decisions, SmType, RxType
  <1>4. TaskType'
    BY <1>2, RequestsAssumption
    DEF BeforeFinalize, user, Holds, Active, Late, NoTask, TurnIntoExpiry, Committing,
        Moved, Launch, SessionLost, Closed, Live, Decisions, Stages, TaskType, OtherType
  <1>5. FreshShape'
    <2>1. (seen \subseteq received)'
      BY <1>1, <1>2
      DEF BeforeFinalize, user, Holds, Active, Late, NoTask, TurnIntoExpiry, Committing,
          Moved, Launch, SessionLost, Closed, FreshShape, RxShape, RxType, OtherType
    <2>. SUFFICES ASSUME NEW q \in Requests \ seen' PROVE Untouched(q)'
      BY <2>1 DEF FreshShape
    <2>2. q \notin seen => Untouched(q)
      BY DEF FreshShape
    <2>3. CASE q # r
      <3>1. task'[q] = task[q]
        BY <1>1, <1>2, <2>3
        DEF BeforeFinalize, user, Holds, Active, Late, NoTask, TurnIntoExpiry, Committing,
            Moved, Launch, SessionLost, Closed, TaskType, RowsType
      <3>. QED
        BY <1>1, <1>2, <2>2, <2>3, <3>1 DEF BeforeFinalize, user, Untouched
    <2>4. CASE q = r
      BY <1>1, <1>2, <2>2, <2>4
      DEF BeforeFinalize, user, Holds, Active, Late, NoTask, TurnIntoExpiry, Committing,
          Moved, Launch, SessionLost, Closed, Live, Decisions, Stages, TaskType, RowsType,
          Untouched
    <2>. QED  BY <2>3, <2>4
  <1>6. ReviewShape'
    BY <1>1, <1>2
    DEF BeforeFinalize, user, Holds, Active, Late, NoTask, TurnIntoExpiry, Committing,
        Moved, Launch, SessionLost, Closed, Live, Terminal, Decisions, RxIdle, Stages,
        SmType, TaskType, RxShape, ReviewShape
  <1>7. BusyShape'
    BY <1>1, <1>2
    DEF BeforeFinalize, user, Holds, Active, Late, NoTask, TurnIntoExpiry, Committing,
        Moved, Launch, SessionLost, Closed, Live, Terminal, Decisions, Stages, SmType,
        TaskType, BusyShape
  <1>8. TaskShape'
    <2>. SUFFICES ASSUME NEW q \in Requests PROVE Progress(q, task[q].stage, task[q].decision)'
      BY DEF TaskShape
    <2>2. Progress(q, task[q].stage, task[q].decision)
      BY DEF TaskShape
    <2>3. CASE q # r
      <3>1. task'[q] = task[q]
        BY <1>1, <1>2, <2>3
        DEF BeforeFinalize, user, Holds, Active, Late, NoTask, TurnIntoExpiry, Committing,
            Moved, Launch, SessionLost, Closed, TaskType, RowsType
      <3>. QED
        BY <1>1, <1>2, <2>2, <2>3, <3>1 DEF BeforeFinalize, user, Progress
    <2>4. CASE q = r
      BY <1>1, <1>2, <2>2, <2>4
      DEF BeforeFinalize, user, Holds, Active, Late, NoTask, TurnIntoExpiry, Committing,
          Moved, Launch, SessionLost, Closed, Live, Decisions, Stages, TaskType, RowsType,
          Progress
    <2>. QED  BY <2>3, <2>4
  <1>9. ShownWasSent'
    BY <1>1, <1>2
    DEF BeforeFinalize, user, Holds, Active, Late, NoTask, TurnIntoExpiry, Committing,
        Moved, Launch, SessionLost, Closed, Live, Terminal, Decisions, SmType,
        ShownWasSent
  <1>10. /\ RxType' /\ RowsType' /\ SignedType' /\ WireType'
         /\ AttemptType' /\ OtherType'
    BY <1>1
    DEF BeforeFinalize, user, RxType, RowsType, SignedType, WireType, AttemptType,
        OtherType
  <1>11. /\ RxShape' /\ SignedShape' /\ GrantsShape' /\ (missed \subseteq overdue)'
         /\ ApprovalIsTheUsers' /\ NoLateApproval' /\ SignsWhatWasShown' /\ DecisionOnRecord'
    BY <1>1
    DEF BeforeFinalize, user, RxShape, SignedShape, GrantsShape, ApprovalIsTheUsers,
        NoLateApproval, SignsWhatWasShown, DecisionOnRecord
  <1>. QED
    BY <1>3, <1>4, <1>5, <1>6, <1>7, <1>8, <1>9, <1>10, <1>11

\* The transaction begins (appendWithBeforeCommit).
LEMMA StageRowKeeps ==
  ASSUME Inv, NEW r \in Requests, StageRow(r)
  PROVE  Inv'
  <1>. USE DEF Inv, TypeParts
  <1>1. /\ Authenticated' = Authenticated /\ TapSuffices' = TapSuffices
        /\ Precedented' = Precedented /\ Justified' = Justified
        /\ Answered' = Answered /\ Tried' = Tried
    BY DEF StageRow, user, Authenticated, Precedented, TapSuffices, Justified, Answered,
       Tried
  <1>2. TaskType'
    BY RequestsAssumption
    DEF StageRow, user, SetStage, Decisions, Stages, TaskType, OtherType
  <1>3. FreshShape'
    <2>1. (seen \subseteq received)'
      BY <1>1 DEF StageRow, user, SetStage, FreshShape, RxShape, RxType, OtherType
    <2>. SUFFICES ASSUME NEW q \in Requests \ seen' PROVE Untouched(q)'
      BY <2>1 DEF FreshShape
    <2>2. q \notin seen => Untouched(q)
      BY DEF FreshShape
    <2>3. CASE q # r
      <3>1. task'[q] = task[q]
        BY <1>1, <2>3 DEF StageRow, user, SetStage, TaskType, RowsType
      <3>. QED
        BY <1>1, <2>2, <2>3, <3>1 DEF StageRow, user, Untouched
    <2>4. CASE q = r
      BY <1>1, <2>2, <2>4
      DEF StageRow, user, SetStage, Decisions, Stages, TaskType, RowsType, Untouched
    <2>. QED  BY <2>3, <2>4
  <1>4. ReviewShape'
    BY <1>1
    DEF StageRow, user, SetStage, Live, Terminal, Decisions, RxIdle, Stages, SmType,
        TaskType, RxShape, ReviewShape
  <1>5. BusyShape'
    BY <1>1
    DEF StageRow, user, SetStage, Live, Terminal, Decisions, Stages, SmType, TaskType,
        BusyShape
  <1>6. TaskShape'
    <2>. SUFFICES ASSUME NEW q \in Requests PROVE Progress(q, task[q].stage, task[q].decision)'
      BY DEF TaskShape
    <2>2. Progress(q, task[q].stage, task[q].decision)
      BY DEF TaskShape
    <2>3. CASE q # r
      <3>1. task'[q] = task[q]
        BY <1>1, <2>3 DEF StageRow, user, SetStage, TaskType, RowsType
      <3>. QED
        BY <1>1, <2>2, <2>3, <3>1 DEF StageRow, user, Progress
    <2>4. CASE q = r
      BY <1>1, <2>2, <2>4
      DEF StageRow, user, SetStage, Decisions, Stages, TaskType, RowsType, Progress
    <2>. QED  BY <2>3, <2>4
  <1>7. /\ SmType' /\ RxType' /\ RowsType' /\ SignedType'
        /\ WireType' /\ AttemptType' /\ OtherType'
    BY <1>1
    DEF StageRow, user, SmType, RxType, RowsType, SignedType, WireType, AttemptType,
        OtherType
  <1>8. /\ RxShape' /\ SignedShape' /\ GrantsShape' /\ (missed \subseteq overdue)'
        /\ ApprovalIsTheUsers' /\ NoLateApproval' /\ SignsWhatWasShown' /\ DecisionOnRecord'
        /\ ShownWasSent'
    BY <1>1
    DEF StageRow, user, RxShape, SignedShape, GrantsShape, ApprovalIsTheUsers,
        NoLateApproval, SignsWhatWasShown, DecisionOnRecord, ShownWasSent
  <1>. QED
    BY <1>2, <1>3, <1>4, <1>5, <1>6, <1>7, <1>8

\* The last check lets only timely approvals through (beforeSign).
LEMMA BeforeSignKeeps ==
  ASSUME Inv, NEW r \in Requests, BeforeSign(r)
  PROVE  Inv'
  <1>. USE DEF Inv, TypeParts
  <1>1. /\ Authenticated' = Authenticated /\ TapSuffices' = TapSuffices
        /\ Precedented' = Precedented /\ Justified' = Justified
        /\ Answered' = Answered /\ Tried' = Tried
    BY DEF BeforeSign, user, Authenticated, Precedented, TapSuffices, Justified, Answered,
       Tried
  <1>2. SmType'
    BY RequestsAssumption, BoundsAssumption
    DEF BeforeSign, user, Holds, Active, Late, Closed, TurnIntoExpiry, Committing, Moved,
        Launch, SetStage, Live, Terminal, Decisions, SmType, RxType
  <1>3. TaskType'
    BY RequestsAssumption
    DEF BeforeSign, user, Holds, Active, Late, Closed, TurnIntoExpiry, Committing, Moved,
        Launch, SetStage, Decisions, Stages, TaskType, OtherType
  <1>4. FreshShape'
    <2>1. (seen \subseteq received)'
      BY <1>1
      DEF BeforeSign, user, Holds, Active, Late, Closed, TurnIntoExpiry, Committing,
          Moved, Launch, SetStage, FreshShape, RxShape, RxType, OtherType
    <2>. SUFFICES ASSUME NEW q \in Requests \ seen' PROVE Untouched(q)'
      BY <2>1 DEF FreshShape
    <2>2. q \notin seen => Untouched(q)
      BY DEF FreshShape
    <2>3. CASE q # r
      <3>1. task'[q] = task[q]
        BY <1>1, <2>3
        DEF BeforeSign, user, Holds, Active, Late, Closed, TurnIntoExpiry, Committing,
            Moved, Launch, SetStage, TaskType, RowsType
      <3>. QED
        BY <1>1, <2>2, <2>3, <3>1 DEF BeforeSign, user, Untouched
    <2>4. CASE q = r
      BY <1>1, <2>2, <2>4
      DEF BeforeSign, user, Holds, Active, Late, Closed, TurnIntoExpiry, Committing,
          Moved, Launch, SetStage, Decisions, Stages, TaskType, RowsType, Untouched
    <2>. QED  BY <2>3, <2>4
  <1>5. ReviewShape'
    BY <1>1
    DEF BeforeSign, user, Holds, Active, Late, Closed, TurnIntoExpiry, Committing, Moved,
        Launch, SetStage, Live, Terminal, Decisions, RxIdle, Stages, SmType, TaskType,
        RxShape, ReviewShape
  <1>6. BusyShape'
    BY <1>1
    DEF BeforeSign, user, Holds, Active, Late, Closed, TurnIntoExpiry, Committing, Moved,
        Launch, SetStage, Live, Terminal, Decisions, Stages, SmType, TaskType, BusyShape
  <1>7. TaskShape'
    <2>. SUFFICES ASSUME NEW q \in Requests PROVE Progress(q, task[q].stage, task[q].decision)'
      BY DEF TaskShape
    <2>2. Progress(q, task[q].stage, task[q].decision)
      BY DEF TaskShape
    <2>3. CASE q # r
      <3>1. task'[q] = task[q]
        BY <1>1, <2>3
        DEF BeforeSign, user, Holds, Active, Late, Closed, TurnIntoExpiry, Committing,
            Moved, Launch, SetStage, TaskType, RowsType
      <3>. QED
        BY <1>1, <2>2, <2>3, <3>1 DEF BeforeSign, user, Progress
    <2>4. CASE q = r
      BY <1>1, <2>2, <2>4
      DEF BeforeSign, user, Holds, Active, Late, Closed, TurnIntoExpiry, Committing,
          Moved, Launch, SetStage, Decisions, Stages, TaskType, RowsType, Progress
    <2>. QED  BY <2>3, <2>4
  <1>8. ShownWasSent'
    BY <1>1
    DEF BeforeSign, user, Holds, Active, Late, Closed, TurnIntoExpiry, Committing, Moved,
        Launch, SetStage, Live, Terminal, Decisions, SmType, ShownWasSent
  <1>9. /\ RxType' /\ RowsType' /\ SignedType' /\ WireType'
        /\ AttemptType' /\ OtherType'
    BY <1>1
    DEF BeforeSign, user, RxType, RowsType, SignedType, WireType, AttemptType, OtherType
  <1>10. /\ RxShape' /\ SignedShape' /\ GrantsShape' /\ (missed \subseteq overdue)'
         /\ ApprovalIsTheUsers' /\ NoLateApproval' /\ SignsWhatWasShown' /\ DecisionOnRecord'
    BY <1>1
    DEF BeforeSign, user, RxShape, SignedShape, GrantsShape, ApprovalIsTheUsers,
        NoLateApproval, SignsWhatWasShown, DecisionOnRecord
  <1>. QED
    BY <1>2, <1>3, <1>4, <1>5, <1>6, <1>7, <1>8, <1>9, <1>10

\* The one signature of a request is for what was decided (signedResponse).
LEMMA SignedResponseKeeps ==
  ASSUME Inv, NEW r \in Requests, SignedResponse(r)
  PROVE  Inv'
  <1>. USE DEF Inv, TypeParts
  <1>1. Tried' = Tried
    BY DEF SignedResponse, user, Tried
  <1>2. Progress(r, "checked", task[r].decision)
    BY <1>1 DEF SignedResponse, TaskShape
  <1>3. /\ task[r].handle = r /\ task[r].decision \in Decisions /\ r \notin Answered
        /\ rows[r] = <<"request">>
    BY <1>1, <1>2 DEF Progress
  <1>4. r \in seen
    BY <1>1, <1>2, <1>3 DEF SignedResponse, FreshShape, Untouched
  <1>5. \/ signed' = signed
        \/ signed' = signed \cup {[req |-> r, handle |-> r, decision |-> task[r].decision]}
    BY <1>1, <1>2, <1>3, <1>4 DEF SignedResponse
  <1>6. Answered \subseteq Answered' /\ Answered' \subseteq Answered \cup {r}
    BY <1>1, <1>2, <1>3, <1>4, <1>5 DEF Answered
  <1>7. Authenticated' = Authenticated
    BY <1>1, <1>2, <1>3, <1>4, <1>5, <1>6 DEF SignedResponse, user, Authenticated
  <1>8. Precedented \subseteq Precedented'
    BY <1>1, <1>2, <1>3, <1>4, <1>5, <1>6, <1>7 DEF Precedented
  <1>9. TapSuffices \subseteq TapSuffices'
    BY <1>1, <1>2, <1>3, <1>4, <1>5, <1>6, <1>7, <1>8 DEF TapSuffices
  <1>10. Justified \subseteq Justified'
    BY <1>1, <1>2, <1>3, <1>4, <1>5, <1>6, <1>7, <1>8, <1>9
    DEF SignedResponse, user, Justified
  <1>11. TaskType'
    BY <1>2, <1>3, <1>4, <1>5, <1>6, <1>7, <1>8, <1>9, <1>10, RequestsAssumption
    DEF SignedResponse, user, SetStage, Decisions, Stages, TaskType, OtherType
  <1>12. SignedType'
    BY <1>1, <1>2, <1>3, <1>4, <1>5, <1>6, <1>7, <1>8, <1>9, <1>10 DEF SignedType
  <1>13. RxShape'
    BY <1>1, <1>2, <1>3, <1>4, <1>5, <1>6, <1>7, <1>8, <1>9, <1>10
    DEF SignedResponse, RxShape
  <1>14. FreshShape'
    <2>1. (seen \subseteq received)'
      BY <1>1, <1>2, <1>3, <1>4, <1>5, <1>6, <1>7, <1>8, <1>9, <1>10
      DEF SignedResponse, user, SetStage, FreshShape, RxShape, RxType, OtherType
    <2>. SUFFICES ASSUME NEW q \in Requests \ seen' PROVE Untouched(q)'
      BY <2>1 DEF FreshShape
    <2>2. q \notin seen => Untouched(q)
      BY DEF FreshShape
    <2>3. CASE q # r
      <3>1. task'[q] = task[q]
        BY <1>1, <1>2, <1>3, <1>4, <1>5, <1>6, <1>7, <1>8, <1>9, <1>10, <2>3
        DEF SignedResponse, user, SetStage, TaskType, RowsType
      <3>. QED
        BY <1>1, <1>2, <1>3, <1>4, <1>5, <1>6, <1>7, <1>8, <1>9, <1>10, <2>2, <2>3, <3>1
        DEF SignedResponse, user, Untouched
    <2>4. CASE q = r
      BY <1>1, <1>2, <1>3, <1>4, <1>5, <1>6, <1>7, <1>8, <1>9, <1>10, <2>2, <2>4
      DEF SignedResponse, user, SetStage, Decisions, Stages, TaskType, RowsType, Untouched
    <2>. QED  BY <2>3, <2>4
  <1>15. ReviewShape'
    <2>1. sm.tag \in {"review", "auth"} => sm.req # r
      BY <1>1, <1>2, <1>3, <1>4, <1>5, <1>6, <1>7, <1>8, <1>9, <1>10
      DEF SignedResponse, ReviewShape
    <2>2. sm.tag \in {"review", "auth"} => task'[sm.req] = task[sm.req] /\ sm.req \notin Answered'
      BY <1>1, <1>2, <1>3, <1>4, <1>5, <1>6, <1>7, <1>8, <1>9, <1>10, <2>1
      DEF SignedResponse, SetStage, TaskType, SmType, ReviewShape
    <2>. QED
      BY <1>1, <1>2, <1>3, <1>4, <1>5, <1>6, <1>7, <1>8, <1>9, <1>10, <2>2
      DEF SignedResponse, user, ReviewShape
  <1>16. BusyShape'
    BY <1>1, <1>2, <1>3, <1>4, <1>5, <1>6, <1>7, <1>8, <1>9, <1>10
    DEF SignedResponse, user, SetStage, Live, Terminal, Decisions, Stages, SmType,
        TaskType, BusyShape
  <1>17. TaskShape'
    <2>. SUFFICES ASSUME NEW q \in Requests PROVE Progress(q, task[q].stage, task[q].decision)'
      BY DEF TaskShape
    <2>2. Progress(q, task[q].stage, task[q].decision)
      BY DEF TaskShape
    <2>3. CASE q # r
      <3>1. task'[q] = task[q]
        BY <1>1, <1>2, <1>3, <1>4, <1>5, <1>6, <1>7, <1>8, <1>9, <1>10, <2>3
        DEF SignedResponse, user, SetStage, TaskType, RowsType
      <3>. QED
        BY <1>1, <1>2, <1>3, <1>4, <1>5, <1>6, <1>7, <1>8, <1>9, <1>10, <2>2, <2>3, <3>1
        DEF SignedResponse, user, Progress
    <2>4. CASE q = r
      BY <1>1, <1>2, <1>3, <1>4, <1>5, <1>6, <1>7, <1>8, <1>9, <1>10, <2>2, <2>4
      DEF SignedResponse, user, SetStage, Decisions, Stages, TaskType, RowsType, Progress
    <2>. QED  BY <2>3, <2>4
  <1>18. SignedShape'
    <2>1. \A s \in signed : s.req # r
      BY <1>1, <1>2, <1>3, <1>4, <1>5, <1>6, <1>7, <1>8, <1>9, <1>10 DEF Answered
    <2>2. rows' = rows
      BY DEF SignedResponse
    <2>3. \A s, t \in signed' : s.req = t.req => s = t
      BY <1>1, <1>2, <1>3, <1>4, <1>5, <1>6, <1>7, <1>8, <1>9, <1>10, <2>1 DEF SignedShape
    <2>4. \A s \in signed' : rows[s.req] \in {<<"request">>, <<"request", s.decision>>}
      <3>1. \A s \in signed : rows[s.req] \in {<<"request">>, <<"request", s.decision>>}
        BY <1>1, <1>2, <1>3, <1>4, <1>5, <1>6, <1>7, <1>8, <1>9, <1>10 DEF SignedShape
      <3>2. \A s \in signed' \ signed : s.req = r
        BY <1>1, <1>2, <1>3, <1>4, <1>5, <1>6, <1>7, <1>8, <1>9, <1>10
      <3>. QED  BY <1>1, <1>2, <1>3, <1>4, <1>5, <1>6, <1>7, <1>8, <1>9, <1>10, <3>1, <3>2
    <2>. QED
      BY <2>2, <2>3, <2>4 DEF SignedShape
  <1>19. GrantsShape'
    BY <1>1, <1>2, <1>3, <1>4, <1>5, <1>6, <1>7, <1>8, <1>9, <1>10
    DEF SignedResponse, GrantsShape
  <1>20. ApprovalIsTheUsers'
    <2>1. \A s \in signed : s.decision = "approved" => s.req \in Justified
      BY <1>1, <1>2, <1>3, <1>4, <1>5, <1>6, <1>7, <1>8, <1>9, <1>10
      DEF ApprovalIsTheUsers, Justified
    <2>2. task[r].decision = "approved" => r \in Justified
      BY <1>1, <1>2, <1>3, <1>4, <1>5, <1>6, <1>7, <1>8, <1>9, <1>10 DEF Progress
    <2>3. \A s \in signed' : s.decision = "approved" => s.req \in Justified'
      BY <1>1, <1>2, <1>3, <1>4, <1>5, <1>6, <1>7, <1>8, <1>9, <1>10, <2>1, <2>2
    <2>. QED
      BY <2>3 DEF ApprovalIsTheUsers, Justified
  <1>21. NoLateApproval'
    <2>1. task[r].decision = "approved" => r \notin missed
      BY <1>1, <1>2, <1>3, <1>4, <1>5, <1>6, <1>7, <1>8, <1>9, <1>10 DEF Progress
    <2>. QED
      BY <1>1, <1>2, <1>3, <1>4, <1>5, <1>6, <1>7, <1>8, <1>9, <1>10, <2>1
      DEF SignedResponse, user, NoLateApproval
  <1>22. SignsWhatWasShown'
    BY <1>1, <1>2, <1>3, <1>4, <1>5, <1>6, <1>7, <1>8, <1>9, <1>10 DEF SignsWhatWasShown
  <1>23. DecisionOnRecord'
    BY <1>1, <1>2, <1>3, <1>4, <1>5, <1>6, <1>7, <1>8, <1>9, <1>10
    DEF SignedResponse, DecisionOnRecord
  <1>24. /\ SmType' /\ RxType' /\ RowsType' /\ WireType'
         /\ AttemptType' /\ OtherType'
    BY <1>1
    DEF SignedResponse, user, SmType, RxType, RowsType, WireType, AttemptType, OtherType
  <1>25. (missed \subseteq overdue)' /\ ShownWasSent'
    BY <1>1 DEF SignedResponse, user, ShownWasSent
  <1>. QED
    BY <1>11, <1>12, <1>13, <1>14, <1>15, <1>16, <1>17, <1>18, <1>19, <1>20, <1>21, <1>22,
       <1>23, <1>24, <1>25

\* The row committed is the decision signed (appendWithBeforeCommit).
LEMMA CommitKeeps ==
  ASSUME Inv, NEW r \in Requests, Commit(r)
  PROVE  Inv'
  <1>. USE DEF Inv, TypeParts
  <1>1. /\ Authenticated' = Authenticated /\ TapSuffices' = TapSuffices
        /\ Precedented' = Precedented /\ Justified' = Justified
        /\ Answered' = Answered /\ Tried' = Tried
    BY DEF Commit, user, Authenticated, Precedented, TapSuffices, Justified, Answered,
       Tried
  <1>2. Progress(r, "signed", task[r].decision)
    BY <1>1 DEF Commit, TaskShape
  <1>3. /\ task[r].decision \in Decisions /\ rows[r] = <<"request">>
        /\ [req |-> r, handle |-> r, decision |-> task[r].decision] \in signed
    BY <1>1, <1>2 DEF Progress
  <1>4. r \in seen
    BY <1>1, <1>2, <1>3 DEF Commit, FreshShape, Untouched
  <1>5. rows' \in {rows, [rows EXCEPT ![r] = <<"request", task[r].decision>>]}
    BY <1>1, <1>2, <1>3, <1>4, Logs DEF Commit
  <1>6. \A q \in Requests \ {r} : task'[q] = task[q] /\ rows'[q] = rows[q]
    BY <1>1, <1>2, <1>3, <1>4, <1>5 DEF Commit, SetStage, TaskType, RowsType
  <1>7. \/ task'[r] = [stage |-> "failed", decision |-> task[r].decision, handle |-> task[r].handle]
        \/ /\ task'[r] = [stage |-> "committed", decision |-> task[r].decision,
                          handle |-> task[r].handle]
           /\ rows'[r] = <<"request", task[r].decision>>
    BY <1>1, <1>2, <1>3, <1>4, <1>5, <1>6, Logs DEF Commit, SetStage, TaskType, RowsType
  <1>8. grants' = grants \/ (grants' = Append(grants, DestOf[r]) /\ task[r].decision = "approved")
    BY <1>1, <1>2, <1>3, <1>4, <1>5, <1>6, <1>7 DEF Commit
  <1>9. TaskType'
    BY <1>2, <1>3, <1>4, <1>5, <1>6, <1>7, <1>8, RequestsAssumption
    DEF Commit, user, SetStage, Decisions, Stages, TaskType, OtherType
  <1>10. RowsType'
    BY <1>1, <1>2, <1>3, <1>4, <1>5, <1>6, <1>7, <1>8, Logs DEF RowsType
  <1>11. OtherType'
    <2>1. grants \in Seq(Destinations) /\ DestOf[r] \in Destinations
      BY <1>1, <1>2, <1>3, <1>4, <1>5, <1>6, <1>7, <1>8, RequestsAssumption DEF OtherType
    <2>2. Append(grants, DestOf[r]) \in Seq(Destinations)
      BY <2>1, AppendProperties
    <2>3. grants' \in Seq(Destinations)
      BY <1>1, <1>2, <1>3, <1>4, <1>5, <1>6, <1>7, <1>8, <2>1, <2>2
    <2>. QED
      BY <1>1, <1>2, <1>3, <1>4, <1>5, <1>6, <1>7, <1>8, <2>3 DEF Commit, user, OtherType
  <1>12. RxShape'
    <2>1. rx.stage # "idle" => rx.req # r /\ rx.req \in Requests
      BY <1>1, <1>2, <1>3, <1>4, <1>5, <1>6, <1>7, <1>8 DEF RxShape, RxType
    <2>. QED
      BY <1>1, <1>2, <1>3, <1>4, <1>5, <1>6, <1>7, <1>8, <2>1 DEF Commit, RxShape
  <1>13. FreshShape'
    <2>1. (seen \subseteq received)'
      BY <1>1, <1>2, <1>3, <1>4, <1>5, <1>6, <1>7, <1>8
      DEF Commit, user, SetStage, FreshShape, RxShape, RxType, OtherType
    <2>. SUFFICES ASSUME NEW q \in Requests \ seen' PROVE Untouched(q)'
      BY <2>1 DEF FreshShape
    <2>2. q \notin seen => Untouched(q)
      BY DEF FreshShape
    <2>3. CASE q # r
      <3>1. task'[q] = task[q] /\ rows'[q] = rows[q]
        BY <1>1, <1>2, <1>3, <1>4, <1>5, <1>6, <1>7, <1>8, <2>3
        DEF Commit, user, SetStage, TaskType, RowsType
      <3>. QED
        BY <1>1, <1>2, <1>3, <1>4, <1>5, <1>6, <1>7, <1>8, <2>2, <2>3, <3>1
        DEF Commit, user, Untouched
    <2>4. CASE q = r
      BY <1>1, <1>2, <1>3, <1>4, <1>5, <1>6, <1>7, <1>8, <2>2, <2>4
      DEF Commit, user, SetStage, Decisions, Stages, TaskType, RowsType, Untouched
    <2>. QED  BY <2>3, <2>4
  <1>14. ReviewShape'
    <2>1. sm.tag \in {"review", "auth"} => sm.req # r /\ sm.req \in Requests
      BY <1>1, <1>2, <1>3, <1>4, <1>5, <1>6, <1>7, <1>8 DEF Commit, ReviewShape, SmType
    <2>. QED
      BY <1>1, <1>2, <1>3, <1>4, <1>5, <1>6, <1>7, <1>8, <2>1
      DEF Commit, user, ReviewShape
  <1>15. BusyShape'
    BY <1>1, <1>2, <1>3, <1>4, <1>5, <1>6, <1>7, <1>8
    DEF Commit, user, SetStage, Live, Terminal, Decisions, Stages, SmType, TaskType,
        BusyShape
  <1>16. TaskShape'
    <2>. SUFFICES ASSUME NEW q \in Requests PROVE Progress(q, task[q].stage, task[q].decision)'
      BY DEF TaskShape
    <2>1. Progress(q, task[q].stage, task[q].decision)
      BY <1>1, <1>2, <1>3, <1>4, <1>5, <1>6, <1>7, <1>8 DEF TaskShape
    <2>2. CASE q # r
      BY <1>1, <1>2, <1>3, <1>4, <1>5, <1>6, <1>7, <1>8, <2>1, <2>2
      DEF Commit, user, Progress
    <2>3. CASE q = r
      BY <1>1, <1>2, <1>3, <1>4, <1>5, <1>6, <1>7, <1>8, <2>1, <2>3
      DEF Commit, user, Progress
    <2>. QED  BY <2>2, <2>3
  <1>17. SignedShape'
    <2>1. \A s \in signed : s.req = r => s.decision = task[r].decision
      BY <1>1, <1>2, <1>3, <1>4, <1>5, <1>6, <1>7, <1>8 DEF SignedShape
    <2>2. \A s \in signed : s.req = r => rows'[s.req] \in {<<"request">>, <<"request", s.decision>>}
      BY <1>1, <1>2, <1>3, <1>4, <1>5, <1>6, <1>7, <1>8, <2>1 DEF RowsType
    <2>3. \A s \in signed : s.req # r => rows'[s.req] = rows[s.req]
      BY <1>1, <1>2, <1>3, <1>4, <1>5, <1>6, <1>7, <1>8 DEF SignedType
    <2>. QED
      BY <1>1, <1>2, <1>3, <1>4, <1>5, <1>6, <1>7, <1>8, <2>2, <2>3
      DEF Commit, SignedShape
  <1>18. GrantsShape'
    <2>1. task[r].decision = "approved" => DestOf[r] \in Precedented
      <3>. SUFFICES ASSUME task[r].decision = "approved" PROVE DestOf[r] \in Precedented
        OBVIOUS
      <3>1. r \in Authenticated \cup TapSuffices
        BY <1>1, <1>2, <1>3, <1>4, <1>5, <1>6, <1>7, <1>8 DEF Progress, Justified
      <3>2. DestOf[r] \in Destinations
        BY RequestsAssumption
      <3>. QED
        BY <1>1, <1>2, <1>3, <1>4, <1>5, <1>6, <1>7, <1>8, <3>1, <3>2
        DEF TapSuffices, Precedented
    <2>2. CASE grants' = grants
      BY <1>1, <1>2, <1>3, <1>4, <1>5, <1>6, <1>7, <1>8, <2>2 DEF GrantsShape
    <2>3. CASE grants' = Append(grants, DestOf[r]) /\ task[r].decision = "approved"
      <3>1. grants \in Seq(Destinations) /\ DestOf[r] \in Destinations
        BY <1>1, <1>2, <1>3, <1>4, <1>5, <1>6, <1>7, <1>8, RequestsAssumption
        DEF OtherType
      <3>. DEFINE longer == Append(grants, DestOf[r])
      <3>2. /\ longer \in Seq(Destinations) /\ Len(longer) = Len(grants) + 1
            /\ \A i \in 1 .. Len(grants) : longer[i] = grants[i]
            /\ longer[Len(grants) + 1] = DestOf[r]
        BY <3>1, AppendProperties
      <3>3. \A i \in 1 .. Len(grants) : grants[i] \in Precedented
        BY <1>1, <1>2, <1>3, <1>4, <1>5, <1>6, <1>7, <1>8, <3>1 DEF GrantsShape
      <3>4. DOMAIN longer = 1 .. (Len(grants) + 1) /\ Len(grants) \in Nat
        BY <3>1, <3>2
      <3>. HIDE DEF longer
      <3>5. \A i \in DOMAIN longer : longer[i] \in Precedented
        BY <2>1, <2>3, <3>2, <3>3, <3>4
      <3>. QED
        BY <1>1, <1>2, <1>3, <1>4, <1>5, <1>6, <1>7, <1>8, <2>3, <3>5
        DEF GrantsShape, longer
    <2>. QED  BY <1>1, <1>2, <1>3, <1>4, <1>5, <1>6, <1>7, <1>8, <2>2, <2>3
  <1>19. DecisionOnRecord'
    <2>1. ASSUME NEW w \in wire PROVE w.req # r /\ w.req \in Requests
      <3>1. rows[w.req] = <<"request", w.decision>> /\ w.req \in Requests
        BY <1>1, <1>2, <1>3, <1>4, <1>5, <1>6, <1>7, <1>8 DEF DecisionOnRecord, WireType
      <3>. QED  BY <1>1, <1>2, <1>3, <1>4, <1>5, <1>6, <1>7, <1>8, <3>1, Distinct
    <2>2. rows'[r] = <<"request">> \/ rows'[r] = <<"request", task[r].decision>>
      BY <1>1, <1>2, <1>3, <1>4, <1>5, <1>6, <1>7, <1>8 DEF RowsType
    <2>3. PICK s \in signed : s.req = r /\ s.decision = task[r].decision
      BY <1>1, <1>2, <1>3, <1>4, <1>5, <1>6, <1>7, <1>8
    <2>4. signed' = signed /\ wire' = wire
      BY DEF Commit
    <2>5. \A w \in wire : rows'[w.req] = <<"request", w.decision>>
      BY <1>1, <1>2, <1>3, <1>4, <1>5, <1>6, <1>7, <1>8, <2>1 DEF DecisionOnRecord
    <2>6. ASSUME NEW q \in Requests
          PROVE  \/ rows'[q] \in {<<>>, <<"request">>}
                 \/ \E t \in signed : t.req = q /\ rows'[q] = <<"request", t.decision>>
      <3>1. CASE q = r
        BY <2>2, <2>3, <3>1
      <3>2. CASE q # r
        BY <1>1, <1>2, <1>3, <1>4, <1>5, <1>6, <1>7, <1>8, <3>2 DEF DecisionOnRecord
      <3>. QED  BY <3>1, <3>2
    <2>. QED
      BY <2>4, <2>5, <2>6 DEF DecisionOnRecord
  <1>20. /\ SmType' /\ RxType' /\ SignedType' /\ WireType'
         /\ AttemptType'
    BY <1>1 DEF Commit, user, SmType, RxType, SignedType, WireType, AttemptType
  <1>21. /\ (missed \subseteq overdue)' /\ ApprovalIsTheUsers' /\ NoLateApproval' /\ SignsWhatWasShown'
         /\ ShownWasSent'
    BY <1>1
    DEF Commit, user, ApprovalIsTheUsers, NoLateApproval, SignsWhatWasShown, ShownWasSent
  <1>. QED
    BY <1>9, <1>10, <1>11, <1>12, <1>13, <1>14, <1>15, <1>16, <1>17, <1>18, <1>19, <1>20,
       <1>21

\* What leaves is on record (send).
LEMMA DeliverKeeps ==
  ASSUME Inv, NEW r \in Requests, Deliver(r)
  PROVE  Inv'
  <1>. USE DEF Inv, TypeParts
  <1>1. /\ Authenticated' = Authenticated /\ TapSuffices' = TapSuffices
        /\ Precedented' = Precedented /\ Justified' = Justified
        /\ Answered' = Answered /\ Tried' = Tried
    BY DEF Deliver, user, Authenticated, Precedented, TapSuffices, Justified, Answered,
       Tried
  <1>2. Progress(r, "committed", task[r].decision)
    BY <1>1 DEF Deliver, TaskShape
  <1>3. /\ task[r].handle = r /\ task[r].decision \in Decisions
        /\ rows[r] = <<"request", task[r].decision>>
    BY <1>1, <1>2 DEF Progress
  <1>4. wire' = wire \cup {[req |-> r, decision |-> task[r].decision]}
    BY <1>1, <1>2, <1>3 DEF Deliver
  <1>5. TaskType'
    BY <1>2, <1>3, <1>4, RequestsAssumption
    DEF Deliver, user, SetStage, Decisions, Stages, TaskType, OtherType
  <1>6. WireType'
    BY <1>1, <1>2, <1>3, <1>4 DEF WireType
  <1>7. FreshShape'
    <2>1. (seen \subseteq received)'
      BY <1>1, <1>2, <1>3, <1>4
      DEF Deliver, user, SetStage, FreshShape, RxShape, RxType, OtherType
    <2>. SUFFICES ASSUME NEW q \in Requests \ seen' PROVE Untouched(q)'
      BY <2>1 DEF FreshShape
    <2>2. q \notin seen => Untouched(q)
      BY DEF FreshShape
    <2>3. CASE q # r
      <3>1. task'[q] = task[q]
        BY <1>1, <1>2, <1>3, <1>4, <2>3 DEF Deliver, user, SetStage, TaskType, RowsType
      <3>. QED
        BY <1>1, <1>2, <1>3, <1>4, <2>2, <2>3, <3>1 DEF Deliver, user, Untouched
    <2>4. CASE q = r
      BY <1>1, <1>2, <1>3, <1>4, <2>2, <2>4
      DEF Deliver, user, SetStage, Decisions, Stages, TaskType, RowsType, Untouched
    <2>. QED  BY <2>3, <2>4
  <1>8. ReviewShape'
    BY <1>1, <1>2, <1>3, <1>4
    DEF Deliver, user, SetStage, Live, Terminal, Decisions, RxIdle, Stages, SmType,
        TaskType, RxShape, ReviewShape
  <1>9. BusyShape'
    BY <1>1, <1>2, <1>3, <1>4
    DEF Deliver, user, SetStage, Live, Terminal, Decisions, Stages, SmType, TaskType,
        BusyShape
  <1>10. TaskShape'
    <2>. SUFFICES ASSUME NEW q \in Requests PROVE Progress(q, task[q].stage, task[q].decision)'
      BY DEF TaskShape
    <2>2. Progress(q, task[q].stage, task[q].decision)
      BY DEF TaskShape
    <2>3. CASE q # r
      <3>1. task'[q] = task[q]
        BY <1>1, <1>2, <1>3, <1>4, <2>3 DEF Deliver, user, SetStage, TaskType, RowsType
      <3>. QED
        BY <1>1, <1>2, <1>3, <1>4, <2>2, <2>3, <3>1 DEF Deliver, user, Progress
    <2>4. CASE q = r
      BY <1>1, <1>2, <1>3, <1>4, <2>2, <2>4
      DEF Deliver, user, SetStage, Decisions, Stages, TaskType, RowsType, Progress
    <2>. QED  BY <2>3, <2>4
  <1>11. DecisionOnRecord'
    <2>1. \A w \in wire' : rows[w.req] = <<"request", w.decision>>
      BY <1>1, <1>2, <1>3, <1>4 DEF DecisionOnRecord
    <2>. QED
      BY <1>1, <1>2, <1>3, <1>4, <2>1 DEF Deliver, DecisionOnRecord
  <1>12. ShownWasSent'
    BY <1>1, <1>2, <1>3, <1>4 DEF Deliver, ShownWasSent
  <1>13. /\ SmType' /\ RxType' /\ RowsType' /\ SignedType'
         /\ AttemptType' /\ OtherType'
    BY <1>1
    DEF Deliver, user, SmType, RxType, RowsType, SignedType, AttemptType, OtherType
  <1>14. /\ RxShape' /\ SignedShape' /\ GrantsShape' /\ (missed \subseteq overdue)'
         /\ ApprovalIsTheUsers' /\ NoLateApproval' /\ SignsWhatWasShown'
    BY <1>1
    DEF Deliver, user, RxShape, SignedShape, GrantsShape, ApprovalIsTheUsers,
        NoLateApproval, SignsWhatWasShown
  <1>. QED
    BY <1>5, <1>6, <1>7, <1>8, <1>9, <1>10, <1>11, <1>12, <1>13, <1>14

\* A failed send leaves the record (send).
LEMMA SendFailsKeeps ==
  ASSUME Inv, NEW r \in Requests, SendFails(r)
  PROVE  Inv'
  <1>. USE DEF Inv, TypeParts
  <1>1. /\ Authenticated' = Authenticated /\ TapSuffices' = TapSuffices
        /\ Precedented' = Precedented /\ Justified' = Justified
        /\ Answered' = Answered /\ Tried' = Tried
    BY DEF SendFails, user, Authenticated, Precedented, TapSuffices, Justified, Answered,
       Tried
  <1>2. TaskType'
    BY RequestsAssumption
    DEF SendFails, user, SetStage, Decisions, Stages, TaskType, OtherType
  <1>3. FreshShape'
    <2>1. (seen \subseteq received)'
      BY <1>1 DEF SendFails, user, SetStage, FreshShape, RxShape, RxType, OtherType
    <2>. SUFFICES ASSUME NEW q \in Requests \ seen' PROVE Untouched(q)'
      BY <2>1 DEF FreshShape
    <2>2. q \notin seen => Untouched(q)
      BY DEF FreshShape
    <2>3. CASE q # r
      <3>1. task'[q] = task[q]
        BY <1>1, <2>3 DEF SendFails, user, SetStage, TaskType, RowsType
      <3>. QED
        BY <1>1, <2>2, <2>3, <3>1 DEF SendFails, user, Untouched
    <2>4. CASE q = r
      BY <1>1, <2>2, <2>4
      DEF SendFails, user, SetStage, Decisions, Stages, TaskType, RowsType, Untouched
    <2>. QED  BY <2>3, <2>4
  <1>4. ReviewShape'
    BY <1>1
    DEF SendFails, user, SetStage, Live, Terminal, Decisions, RxIdle, Stages, SmType,
        TaskType, RxShape, ReviewShape
  <1>5. BusyShape'
    BY <1>1
    DEF SendFails, user, SetStage, Live, Terminal, Decisions, Stages, SmType, TaskType,
        BusyShape
  <1>6. TaskShape'
    <2>. SUFFICES ASSUME NEW q \in Requests PROVE Progress(q, task[q].stage, task[q].decision)'
      BY DEF TaskShape
    <2>2. Progress(q, task[q].stage, task[q].decision)
      BY DEF TaskShape
    <2>3. CASE q # r
      <3>1. task'[q] = task[q]
        BY <1>1, <2>3 DEF SendFails, user, SetStage, TaskType, RowsType
      <3>. QED
        BY <1>1, <2>2, <2>3, <3>1 DEF SendFails, user, Progress
    <2>4. CASE q = r
      BY <1>1, <2>2, <2>4
      DEF SendFails, user, SetStage, Decisions, Stages, TaskType, RowsType, Progress
    <2>. QED  BY <2>3, <2>4
  <1>7. /\ SmType' /\ RxType' /\ RowsType' /\ SignedType'
        /\ WireType' /\ AttemptType' /\ OtherType'
    BY <1>1
    DEF SendFails, user, SmType, RxType, RowsType, SignedType, WireType, AttemptType,
        OtherType
  <1>8. /\ RxShape' /\ SignedShape' /\ GrantsShape' /\ (missed \subseteq overdue)'
        /\ ApprovalIsTheUsers' /\ NoLateApproval' /\ SignsWhatWasShown' /\ DecisionOnRecord'
        /\ ShownWasSent'
    BY <1>1
    DEF SendFails, user, RxShape, SignedShape, GrantsShape, ApprovalIsTheUsers,
        NoLateApproval, SignsWhatWasShown, DecisionOnRecord, ShownWasSent
  <1>. QED
    BY <1>2, <1>3, <1>4, <1>5, <1>6, <1>7, <1>8

\* The verdict shown was delivered (completeFinalization).
LEMMA CompleteFinalizationKeeps ==
  ASSUME Inv, NEW r \in Requests, CompleteFinalization(r)
  PROVE  Inv'
  <1>. USE DEF Inv, TypeParts
  <1>1. /\ Authenticated' = Authenticated /\ TapSuffices' = TapSuffices
        /\ Precedented' = Precedented /\ Justified' = Justified
        /\ Answered' = Answered /\ Tried' = Tried
    BY DEF CompleteFinalization, user, Authenticated, Precedented, TapSuffices, Justified,
       Answered, Tried
  <1>2. Progress(r, "delivered", task[r].decision)
    BY <1>1 DEF CompleteFinalization, TaskShape
  <1>3. /\ task[r].handle = r /\ task[r].decision \in Decisions
        /\ [req |-> r, decision |-> task[r].decision] \in wire
    BY <1>1, <1>2 DEF Progress
  <1>4. SmType'
    BY <1>1, <1>2, <1>3, RequestsAssumption, BoundsAssumption
    DEF CompleteFinalization, user, Holds, Closed, Drop, NoTask, Live, Terminal,
        Decisions, SmType, RxType
  <1>5. TaskType'
    BY <1>1, <1>2, <1>3, RequestsAssumption
    DEF CompleteFinalization, user, Holds, Closed, Drop, NoTask, Decisions, Stages,
        TaskType, OtherType
  <1>6. OtherType'
    BY <1>1, <1>2, <1>3, RequestsAssumption
    DEF CompleteFinalization, user, Holds, Closed, Drop, NoTask, Decisions, OtherType,
        RxType
  <1>7. FreshShape'
    <2>1. (seen \subseteq received)'
      BY <1>1, <1>2, <1>3
      DEF CompleteFinalization, user, Holds, Closed, Drop, NoTask, FreshShape, RxShape,
          RxType, OtherType
    <2>. SUFFICES ASSUME NEW q \in Requests \ seen' PROVE Untouched(q)'
      BY <2>1 DEF FreshShape
    <2>2. q \notin seen => Untouched(q)
      BY DEF FreshShape
    <2>3. CASE q # r
      <3>1. task'[q] = task[q]
        BY <1>1, <1>2, <1>3, <2>3
        DEF CompleteFinalization, user, Holds, Closed, Drop, NoTask, TaskType, RowsType
      <3>. QED
        BY <1>1, <1>2, <1>3, <2>2, <2>3, <3>1 DEF CompleteFinalization, user, Untouched
    <2>4. CASE q = r
      BY <1>1, <1>2, <1>3, <2>2, <2>4
      DEF CompleteFinalization, user, Holds, Closed, Drop, NoTask, Decisions, Stages,
          TaskType, RowsType, Untouched
    <2>. QED  BY <2>3, <2>4
  <1>8. ReviewShape'
    BY <1>1, <1>2, <1>3
    DEF CompleteFinalization, user, Holds, Closed, Drop, NoTask, Live, Terminal,
        Decisions, RxIdle, Stages, SmType, TaskType, RxShape, ReviewShape
  <1>9. BusyShape'
    BY <1>1, <1>2, <1>3
    DEF CompleteFinalization, user, Holds, Closed, Drop, NoTask, Live, Terminal,
        Decisions, Stages, SmType, TaskType, BusyShape
  <1>10. TaskShape'
    <2>. SUFFICES ASSUME NEW q \in Requests PROVE Progress(q, task[q].stage, task[q].decision)'
      BY DEF TaskShape
    <2>2. Progress(q, task[q].stage, task[q].decision)
      BY DEF TaskShape
    <2>3. CASE q # r
      <3>1. task'[q] = task[q]
        BY <1>1, <1>2, <1>3, <2>3
        DEF CompleteFinalization, user, Holds, Closed, Drop, NoTask, TaskType, RowsType
      <3>. QED
        BY <1>1, <1>2, <1>3, <2>2, <2>3, <3>1 DEF CompleteFinalization, user, Progress
    <2>4. CASE q = r
      BY <1>1, <1>2, <1>3, <2>2, <2>4
      DEF CompleteFinalization, user, Holds, Closed, Drop, NoTask, Decisions, Stages,
          TaskType, RowsType, Progress
    <2>. QED  BY <2>3, <2>4
  <1>11. ShownWasSent'
    BY <1>1, <1>2, <1>3
    DEF CompleteFinalization, user, Holds, Closed, Drop, NoTask, Live, Terminal,
        Decisions, SmType, ShownWasSent
  <1>12. /\ RxType' /\ RowsType' /\ SignedType' /\ WireType'
         /\ AttemptType'
    BY <1>1
    DEF CompleteFinalization, user, RxType, RowsType, SignedType, WireType, AttemptType
  <1>13. /\ RxShape' /\ SignedShape' /\ GrantsShape' /\ (missed \subseteq overdue)'
         /\ ApprovalIsTheUsers' /\ NoLateApproval' /\ SignsWhatWasShown' /\ DecisionOnRecord'
    BY <1>1
    DEF CompleteFinalization, user, RxShape, SignedShape, GrantsShape, ApprovalIsTheUsers,
        NoLateApproval, SignsWhatWasShown, DecisionOnRecord
  <1>. QED
    BY <1>4, <1>5, <1>6, <1>7, <1>8, <1>9, <1>10, <1>11, <1>12, <1>13

\* A refused task has no claim on the screen (ApprovalNoLongerAuthorized).
LEMMA GiveUpKeeps ==
  ASSUME Inv, NEW r \in Requests, GiveUp(r)
  PROVE  Inv'
  <1>. USE DEF Inv, TypeParts
  <1>1. /\ Authenticated' = Authenticated /\ TapSuffices' = TapSuffices
        /\ Precedented' = Precedented /\ Justified' = Justified
        /\ Answered' = Answered /\ Tried' = Tried
    BY DEF GiveUp, user, Authenticated, Precedented, TapSuffices, Justified, Answered,
       Tried
  <1>2. TaskType'
    BY RequestsAssumption
    DEF GiveUp, user, Drop, NoTask, Decisions, Stages, TaskType, OtherType
  <1>3. OtherType'
    BY RequestsAssumption DEF GiveUp, user, Drop, NoTask, OtherType, RxType
  <1>4. FreshShape'
    <2>1. (seen \subseteq received)'
      BY <1>1 DEF GiveUp, user, Drop, NoTask, FreshShape, RxShape, RxType, OtherType
    <2>. SUFFICES ASSUME NEW q \in Requests \ seen' PROVE Untouched(q)'
      BY <2>1 DEF FreshShape
    <2>2. q \notin seen => Untouched(q)
      BY DEF FreshShape
    <2>3. CASE q # r
      <3>1. task'[q] = task[q]
        BY <1>1, <2>3 DEF GiveUp, user, Drop, NoTask, TaskType, RowsType
      <3>. QED
        BY <1>1, <2>2, <2>3, <3>1 DEF GiveUp, user, Untouched
    <2>4. CASE q = r
      BY <1>1, <2>2, <2>4
      DEF GiveUp, user, Drop, NoTask, Decisions, Stages, TaskType, RowsType, Untouched
    <2>. QED  BY <2>3, <2>4
  <1>5. ReviewShape'
    BY <1>1
    DEF GiveUp, user, Drop, NoTask, Live, Terminal, Decisions, RxIdle, Stages, SmType,
        TaskType, RxShape, ReviewShape
  <1>6. BusyShape'
    BY <1>1
    DEF GiveUp, user, Drop, NoTask, Live, Terminal, Decisions, Stages, SmType, TaskType,
        BusyShape
  <1>7. TaskShape'
    <2>. SUFFICES ASSUME NEW q \in Requests PROVE Progress(q, task[q].stage, task[q].decision)'
      BY DEF TaskShape
    <2>2. Progress(q, task[q].stage, task[q].decision)
      BY DEF TaskShape
    <2>3. CASE q # r
      <3>1. task'[q] = task[q]
        BY <1>1, <2>3 DEF GiveUp, user, Drop, NoTask, TaskType, RowsType
      <3>. QED
        BY <1>1, <2>2, <2>3, <3>1 DEF GiveUp, user, Progress
    <2>4. CASE q = r
      BY <1>1, <2>2, <2>4
      DEF GiveUp, user, Drop, NoTask, Decisions, Stages, TaskType, RowsType, Progress
    <2>. QED  BY <2>3, <2>4
  <1>8. /\ SmType' /\ RxType' /\ RowsType' /\ SignedType'
        /\ WireType' /\ AttemptType'
    BY <1>1 DEF GiveUp, user, SmType, RxType, RowsType, SignedType, WireType, AttemptType
  <1>9. /\ RxShape' /\ SignedShape' /\ GrantsShape' /\ (missed \subseteq overdue)'
        /\ ApprovalIsTheUsers' /\ NoLateApproval' /\ SignsWhatWasShown' /\ DecisionOnRecord'
        /\ ShownWasSent'
    BY <1>1
    DEF GiveUp, user, RxShape, SignedShape, GrantsShape, ApprovalIsTheUsers,
        NoLateApproval, SignsWhatWasShown, DecisionOnRecord, ShownWasSent
  <1>. QED
    BY <1>2, <1>3, <1>4, <1>5, <1>6, <1>7, <1>8, <1>9

\* A failed task takes its request off the screen (failFinalization).
LEMMA FailFinalizationKeeps ==
  ASSUME Inv, NEW r \in Requests, FailFinalization(r)
  PROVE  Inv'
  <1>. USE DEF Inv, TypeParts
  <1>1. /\ Authenticated' = Authenticated /\ TapSuffices' = TapSuffices
        /\ Precedented' = Precedented /\ Justified' = Justified
        /\ Answered' = Answered /\ Tried' = Tried
    BY DEF FailFinalization, user, Authenticated, Precedented, TapSuffices, Justified,
       Answered, Tried
  <1>2. SmType'
    BY RequestsAssumption, BoundsAssumption
    DEF FailFinalization, user, Closed, Drop, NoTask, Live, Terminal, Decisions, SmType,
        RxType
  <1>3. TaskType'
    BY RequestsAssumption
    DEF FailFinalization, user, Closed, Drop, NoTask, Decisions, Stages, TaskType,
        OtherType
  <1>4. OtherType'
    BY RequestsAssumption
    DEF FailFinalization, user, Closed, Drop, NoTask, OtherType, RxType
  <1>5. FreshShape'
    <2>1. (seen \subseteq received)'
      BY <1>1
      DEF FailFinalization, user, Closed, Drop, NoTask, FreshShape, RxShape, RxType,
          OtherType
    <2>. SUFFICES ASSUME NEW q \in Requests \ seen' PROVE Untouched(q)'
      BY <2>1 DEF FreshShape
    <2>2. q \notin seen => Untouched(q)
      BY DEF FreshShape
    <2>3. CASE q # r
      <3>1. task'[q] = task[q]
        BY <1>1, <2>3 DEF FailFinalization, user, Closed, Drop, NoTask, TaskType, RowsType
      <3>. QED
        BY <1>1, <2>2, <2>3, <3>1 DEF FailFinalization, user, Untouched
    <2>4. CASE q = r
      BY <1>1, <2>2, <2>4
      DEF FailFinalization, user, Closed, Drop, NoTask, Decisions, Stages, TaskType,
          RowsType, Untouched
    <2>. QED  BY <2>3, <2>4
  <1>6. ReviewShape'
    BY <1>1
    DEF FailFinalization, user, Closed, Drop, NoTask, Live, Terminal, Decisions, RxIdle,
        Stages, SmType, TaskType, RxShape, ReviewShape
  <1>7. BusyShape'
    BY <1>1
    DEF FailFinalization, user, Closed, Drop, NoTask, Live, Terminal, Decisions, Stages,
        SmType, TaskType, BusyShape
  <1>8. TaskShape'
    <2>. SUFFICES ASSUME NEW q \in Requests PROVE Progress(q, task[q].stage, task[q].decision)'
      BY DEF TaskShape
    <2>2. Progress(q, task[q].stage, task[q].decision)
      BY DEF TaskShape
    <2>3. CASE q # r
      <3>1. task'[q] = task[q]
        BY <1>1, <2>3 DEF FailFinalization, user, Closed, Drop, NoTask, TaskType, RowsType
      <3>. QED
        BY <1>1, <2>2, <2>3, <3>1 DEF FailFinalization, user, Progress
    <2>4. CASE q = r
      BY <1>1, <2>2, <2>4
      DEF FailFinalization, user, Closed, Drop, NoTask, Decisions, Stages, TaskType,
          RowsType, Progress
    <2>. QED  BY <2>3, <2>4
  <1>9. ShownWasSent'
    BY <1>1
    DEF FailFinalization, user, Closed, Drop, NoTask, Live, Terminal, Decisions, SmType,
        ShownWasSent
  <1>10. /\ RxType' /\ RowsType' /\ SignedType' /\ WireType'
         /\ AttemptType'
    BY <1>1
    DEF FailFinalization, user, RxType, RowsType, SignedType, WireType, AttemptType
  <1>11. /\ RxShape' /\ SignedShape' /\ GrantsShape' /\ (missed \subseteq overdue)'
         /\ ApprovalIsTheUsers' /\ NoLateApproval' /\ SignsWhatWasShown' /\ DecisionOnRecord'
    BY <1>1
    DEF FailFinalization, user, RxShape, SignedShape, GrantsShape, ApprovalIsTheUsers,
        NoLateApproval, SignsWhatWasShown, DecisionOnRecord
  <1>. QED
    BY <1>2, <1>3, <1>4, <1>5, <1>6, <1>7, <1>8, <1>9, <1>10, <1>11

\* A cancelled task belongs to a released runtime (close).
LEMMA CancelTaskKeeps ==
  ASSUME Inv, NEW r \in Requests, CancelTask(r)
  PROVE  Inv'
  <1>. USE DEF Inv, TypeParts
  <1>1. /\ Authenticated' = Authenticated /\ TapSuffices' = TapSuffices
        /\ Precedented' = Precedented /\ Justified' = Justified
        /\ Answered' = Answered /\ Tried' = Tried
    BY DEF CancelTask, user, Authenticated, Precedented, TapSuffices, Justified, Answered,
       Tried
  <1>2. sm.tag \notin Live
    BY <1>1 DEF CancelTask, ReviewShape
  <1>3. SmType'
    BY <1>2, RequestsAssumption, BoundsAssumption
    DEF CancelTask, user, NoTask, SessionLost, Closed, Live, Terminal, Decisions, SmType,
        RxType
  <1>4. TaskType'
    BY <1>2, RequestsAssumption
    DEF CancelTask, user, NoTask, SessionLost, Closed, Live, Decisions, Stages, TaskType,
        OtherType
  <1>5. FreshShape'
    <2>1. (seen \subseteq received)'
      BY <1>1, <1>2
      DEF CancelTask, user, NoTask, SessionLost, Closed, FreshShape, RxShape, RxType,
          OtherType
    <2>. SUFFICES ASSUME NEW q \in Requests \ seen' PROVE Untouched(q)'
      BY <2>1 DEF FreshShape
    <2>2. q \notin seen => Untouched(q)
      BY DEF FreshShape
    <2>3. CASE q # r
      <3>1. task'[q] = task[q]
        BY <1>1, <1>2, <2>3
        DEF CancelTask, user, NoTask, SessionLost, Closed, TaskType, RowsType
      <3>. QED
        BY <1>1, <1>2, <2>2, <2>3, <3>1 DEF CancelTask, user, Untouched
    <2>4. CASE q = r
      BY <1>1, <1>2, <2>2, <2>4
      DEF CancelTask, user, NoTask, SessionLost, Closed, Live, Decisions, Stages,
          TaskType, RowsType, Untouched
    <2>. QED  BY <2>3, <2>4
  <1>6. ReviewShape'
    BY <1>1, <1>2
    DEF CancelTask, user, NoTask, SessionLost, Closed, Live, Terminal, Decisions, RxIdle,
        Stages, SmType, TaskType, RxShape, ReviewShape
  <1>7. BusyShape'
    BY <1>1, <1>2
    DEF CancelTask, user, NoTask, SessionLost, Closed, Live, Terminal, Decisions, Stages,
        SmType, TaskType, BusyShape
  <1>8. TaskShape'
    <2>. SUFFICES ASSUME NEW q \in Requests PROVE Progress(q, task[q].stage, task[q].decision)'
      BY DEF TaskShape
    <2>2. Progress(q, task[q].stage, task[q].decision)
      BY DEF TaskShape
    <2>3. CASE q # r
      <3>1. task'[q] = task[q]
        BY <1>1, <1>2, <2>3
        DEF CancelTask, user, NoTask, SessionLost, Closed, TaskType, RowsType
      <3>. QED
        BY <1>1, <1>2, <2>2, <2>3, <3>1 DEF CancelTask, user, Progress
    <2>4. CASE q = r
      BY <1>1, <1>2, <2>2, <2>4
      DEF CancelTask, user, NoTask, SessionLost, Closed, Live, Decisions, Stages,
          TaskType, RowsType, Progress
    <2>. QED  BY <2>3, <2>4
  <1>9. ShownWasSent'
    BY <1>1, <1>2
    DEF CancelTask, user, NoTask, SessionLost, Closed, Live, Terminal, Decisions, SmType,
        ShownWasSent
  <1>10. /\ RxType' /\ RowsType' /\ SignedType' /\ WireType'
         /\ AttemptType' /\ OtherType'
    BY <1>1
    DEF CancelTask, user, RxType, RowsType, SignedType, WireType, AttemptType, OtherType
  <1>11. /\ RxShape' /\ SignedShape' /\ GrantsShape' /\ (missed \subseteq overdue)'
         /\ ApprovalIsTheUsers' /\ NoLateApproval' /\ SignsWhatWasShown' /\ DecisionOnRecord'
    BY <1>1
    DEF CancelTask, user, RxShape, SignedShape, GrantsShape, ApprovalIsTheUsers,
        NoLateApproval, SignsWhatWasShown, DecisionOnRecord
  <1>. QED
    BY <1>3, <1>4, <1>5, <1>6, <1>7, <1>8, <1>9, <1>10, <1>11

\* The session ends (terminate).
LEMMA SessionEndsKeeps ==
  ASSUME Inv, SessionEnds
  PROVE  Inv'
  <1>. USE DEF Inv, TypeParts
  <1>1. /\ Authenticated' = Authenticated /\ TapSuffices' = TapSuffices
        /\ Precedented' = Precedented /\ Justified' = Justified
        /\ Answered' = Answered /\ Tried' = Tried
    BY DEF SessionEnds, user, Authenticated, Precedented, TapSuffices, Justified,
       Answered, Tried
  <1>2. OtherType'
    BY RequestsAssumption DEF SessionEnds, user, Active, OtherType, RxType
  <1>3. /\ SmType' /\ TaskType' /\ RxType' /\ RowsType'
        /\ SignedType' /\ WireType' /\ AttemptType'
    BY <1>1
    DEF SessionEnds, user, SmType, TaskType, RxType, RowsType, SignedType, WireType,
        AttemptType
  <1>4. RxShape' /\ FreshShape' /\ ReviewShape' /\ BusyShape'
    BY <1>1
    DEF SessionEnds, user, RxShape, FreshShape, ReviewShape, BusyShape, Untouched
  <1>5. TaskShape' /\ SignedShape' /\ GrantsShape' /\ (missed \subseteq overdue)'
    BY <1>1 DEF SessionEnds, user, TaskShape, SignedShape, GrantsShape, Progress
  <1>6. /\ ApprovalIsTheUsers' /\ NoLateApproval' /\ SignsWhatWasShown'
        /\ DecisionOnRecord' /\ ShownWasSent'
    BY <1>1
    DEF SessionEnds, user, ApprovalIsTheUsers, NoLateApproval, SignsWhatWasShown,
        DecisionOnRecord, ShownWasSent
  <1>. QED
    BY <1>2, <1>3, <1>4, <1>5, <1>6

\* The keys are closed (terminate).
LEMMA CloseKeysKeeps ==
  ASSUME Inv, CloseKeys
  PROVE  Inv'
  <1>. USE DEF Inv, TypeParts
  <1>1. /\ Authenticated' = Authenticated /\ TapSuffices' = TapSuffices
        /\ Precedented' = Precedented /\ Justified' = Justified
        /\ Answered' = Answered /\ Tried' = Tried
    BY DEF CloseKeys, user, Authenticated, Precedented, TapSuffices, Justified, Answered,
       Tried
  <1>2. OtherType'
    BY RequestsAssumption DEF CloseKeys, user, OtherType, RxType
  <1>3. /\ SmType' /\ TaskType' /\ RxType' /\ RowsType'
        /\ SignedType' /\ WireType' /\ AttemptType'
    BY <1>1
    DEF CloseKeys, user, SmType, TaskType, RxType, RowsType, SignedType, WireType,
        AttemptType
  <1>4. RxShape' /\ FreshShape' /\ ReviewShape' /\ BusyShape'
    BY <1>1
    DEF CloseKeys, user, RxShape, FreshShape, ReviewShape, BusyShape, Untouched
  <1>5. TaskShape' /\ SignedShape' /\ GrantsShape' /\ (missed \subseteq overdue)'
    BY <1>1 DEF CloseKeys, user, TaskShape, SignedShape, GrantsShape, Progress
  <1>6. /\ ApprovalIsTheUsers' /\ NoLateApproval' /\ SignsWhatWasShown'
        /\ DecisionOnRecord' /\ ShownWasSent'
    BY <1>1
    DEF CloseKeys, user, ApprovalIsTheUsers, NoLateApproval, SignsWhatWasShown,
        DecisionOnRecord, ShownWasSent
  <1>. QED
    BY <1>2, <1>3, <1>4, <1>5, <1>6

\* The runtime lets go when it sees the end (releaseAfterSessionEnd).
LEMMA NoticeEndKeeps ==
  ASSUME Inv, NoticeEnd
  PROVE  Inv'
  <1>. USE DEF Inv, TypeParts
  <1>1. /\ Authenticated' = Authenticated /\ TapSuffices' = TapSuffices
        /\ Precedented' = Precedented /\ Justified' = Justified
        /\ Answered' = Answered /\ Tried' = Tried
    BY DEF NoticeEnd, user, Authenticated, Precedented, TapSuffices, Justified, Answered,
       Tried
  <1>2. SmType'
    BY RequestsAssumption, BoundsAssumption
    DEF NoticeEnd, user, Release, SessionLost, Closed, Live, Terminal, Decisions, SmType,
        RxType
  <1>3. OtherType'
    BY RequestsAssumption
    DEF NoticeEnd, user, Release, SessionLost, Closed, Live, OtherType, RxType
  <1>4. ReviewShape'
    BY <1>1
    DEF NoticeEnd, user, Release, SessionLost, Closed, Live, Terminal, Decisions, RxIdle,
        Stages, SmType, TaskType, RxShape, ReviewShape
  <1>5. BusyShape'
    BY <1>1
    DEF NoticeEnd, user, Release, SessionLost, Closed, Live, Terminal, Decisions, Stages,
        SmType, TaskType, BusyShape
  <1>6. ShownWasSent'
    BY <1>1
    DEF NoticeEnd, user, Release, SessionLost, Closed, Live, Terminal, Decisions, SmType,
        ShownWasSent
  <1>7. /\ TaskType' /\ RxType' /\ RowsType' /\ SignedType'
        /\ WireType' /\ AttemptType'
    BY <1>1
    DEF NoticeEnd, user, Release, TaskType, RxType, RowsType, SignedType, WireType,
        AttemptType
  <1>8. /\ RxShape' /\ FreshShape' /\ TaskShape' /\ SignedShape'
        /\ GrantsShape' /\ (missed \subseteq overdue)' /\ ApprovalIsTheUsers' /\ NoLateApproval'
        /\ SignsWhatWasShown' /\ DecisionOnRecord'
    BY <1>1
    DEF NoticeEnd, user, Release, RxShape, FreshShape, TaskShape, SignedShape,
        GrantsShape, ApprovalIsTheUsers, NoLateApproval, SignsWhatWasShown,
        DecisionOnRecord, Progress, Untouched
  <1>. QED
    BY <1>2, <1>3, <1>4, <1>5, <1>6, <1>7, <1>8

\* The runtime lets go when it is closed (close).
LEMMA CloseKeeps ==
  ASSUME Inv, Close
  PROVE  Inv'
  <1>. USE DEF Inv, TypeParts
  <1>1. /\ Authenticated' = Authenticated /\ TapSuffices' = TapSuffices
        /\ Precedented' = Precedented /\ Justified' = Justified
        /\ Answered' = Answered /\ Tried' = Tried
    BY DEF Close, user, Authenticated, Precedented, TapSuffices, Justified, Answered,
       Tried
  <1>2. SmType'
    BY RequestsAssumption, BoundsAssumption
    DEF Close, user, Release, SessionLost, Closed, Live, Terminal, Decisions, SmType,
        RxType
  <1>3. OtherType'
    BY RequestsAssumption
    DEF Close, user, Release, SessionLost, Closed, Live, OtherType, RxType
  <1>4. ReviewShape'
    BY <1>1
    DEF Close, user, Release, SessionLost, Closed, Live, Terminal, Decisions, RxIdle,
        Stages, SmType, TaskType, RxShape, ReviewShape
  <1>5. BusyShape'
    BY <1>1
    DEF Close, user, Release, SessionLost, Closed, Live, Terminal, Decisions, Stages,
        SmType, TaskType, BusyShape
  <1>6. ShownWasSent'
    BY <1>1
    DEF Close, user, Release, SessionLost, Closed, Live, Terminal, Decisions, SmType,
        ShownWasSent
  <1>7. /\ TaskType' /\ RxType' /\ RowsType' /\ SignedType'
        /\ WireType' /\ AttemptType'
    BY <1>1
    DEF Close, user, Release, TaskType, RxType, RowsType, SignedType, WireType,
        AttemptType
  <1>8. /\ RxShape' /\ FreshShape' /\ TaskShape' /\ SignedShape'
        /\ GrantsShape' /\ (missed \subseteq overdue)' /\ ApprovalIsTheUsers' /\ NoLateApproval'
        /\ SignsWhatWasShown' /\ DecisionOnRecord'
    BY <1>1
    DEF Close, user, Release, RxShape, FreshShape, TaskShape, SignedShape, GrantsShape,
        ApprovalIsTheUsers, NoLateApproval, SignsWhatWasShown, DecisionOnRecord, Progress,
        Untouched
  <1>. QED
    BY <1>2, <1>3, <1>4, <1>5, <1>6, <1>7, <1>8

-----------------------------------------------------------------------------
(* The induction.                                                          *)

\* A new runtime satisfies the invariant.
LEMMA InitInv == Init => Inv
  <1>. SUFFICES ASSUME Init PROVE Inv
    OBVIOUS
  <1>1. TypeParts
    <2>1. SmType /\ RxType
      BY RequestsAssumption, BoundsAssumption DEF Init, SmType, RxType, Empty, RxIdle
    <2>2. TaskType
      BY DEF Init, TaskType, NoTask, Stages
    <2>3. RowsType
      BY DEF Init, RowsType
    <2>4. SignedType /\ WireType /\ AttemptType
      BY DEF Init, SignedType, WireType, AttemptType
    <2>5. OtherType
      BY RequestsAssumption DEF Init, OtherType
    <2>. QED  BY <2>1, <2>2, <2>3, <2>4, <2>5 DEF TypeParts
  <1>2. Answered = {} /\ Tried = {}
    BY DEF Init, Answered, Tried
  <1>3. RxShape /\ FreshShape
    BY <1>2 DEF Init, RxShape, FreshShape, Untouched, RxIdle, NoTask
  <1>4. ReviewShape /\ BusyShape /\ ShownWasSent
    BY DEF Init, ReviewShape, BusyShape, ShownWasSent, Empty, Live, Decisions
  <1>5. TaskShape
    BY DEF Init, TaskShape, Progress, NoTask
  <1>6. GrantsShape
    BY RequestsAssumption DEF Init, GrantsShape, Precedented
  <1>7. /\ SignedShape /\ missed \subseteq overdue /\ ApprovalIsTheUsers /\ NoLateApproval
        /\ SignsWhatWasShown /\ DecisionOnRecord
    BY DEF Init, SignedShape, ApprovalIsTheUsers, NoLateApproval, SignsWhatWasShown,
       DecisionOnRecord
  <1>. QED  BY <1>1, <1>3, <1>4, <1>5, <1>6, <1>7 DEF Inv

\* A step that changes nothing keeps the invariant.
LEMMA StutterKeeps ==
  ASSUME Inv, UNCHANGED vars
  PROVE  Inv'
  <1>1. /\ Authenticated' = Authenticated /\ TapSuffices' = TapSuffices
        /\ Precedented' = Precedented /\ Justified' = Justified
        /\ Answered' = Answered /\ Tried' = Tried
    BY DEF vars, engine, user, Authenticated, Precedented, TapSuffices, Justified,
       Answered, Tried
  <1>2. TypeParts'
    BY DEF Inv, vars, engine, user, TypeParts, SmType, TaskType, RxType, RowsType,
       SignedType, WireType, AttemptType, OtherType
  <1>3. RxShape' /\ FreshShape' /\ ReviewShape' /\ BusyShape' /\ TaskShape'
    BY <1>1
    DEF Inv, vars, engine, user, RxShape, FreshShape, Untouched, ReviewShape, BusyShape,
        TaskShape, Progress
  <1>4. SignedShape' /\ GrantsShape' /\ (missed \subseteq overdue)' /\ ApprovalIsTheUsers'
    BY <1>1 DEF Inv, vars, engine, user, SignedShape, GrantsShape, ApprovalIsTheUsers
  <1>5. NoLateApproval' /\ SignsWhatWasShown' /\ DecisionOnRecord' /\ ShownWasSent'
    BY DEF Inv, vars, engine, user, NoLateApproval, SignsWhatWasShown, DecisionOnRecord,
       ShownWasSent
  <1>. QED  BY <1>2, <1>3, <1>4, <1>5 DEF Inv

\* Every step keeps the invariant.
LEMMA NextKeeps == Inv /\ [Next]_vars => Inv'
  <1>. SUFFICES ASSUME Inv, [Next]_vars PROVE Inv'
    OBVIOUS
  <1>1. ASSUME NEW r \in Requests,
               \/ TakeRequest(r) \/ Approve(r) \/ Deny(r) \/ Authenticate(r)
               \/ CancelTier3Authentication(r) \/ DeadlinePasses(r) \/ Expire(r)
        PROVE  Inv'
    BY <1>1, TakeRequestKeeps, ApproveKeeps, DenyKeeps, AuthenticateKeeps,
       CancelTier3AuthenticationKeeps, DeadlinePassesKeeps, ExpireKeeps
  <1>2. ASSUME NEW r \in Requests, Finalize(r)
        PROVE  Inv'
    BY <1>2, BeforeFinalizeKeeps, StageRowKeeps, BeforeSignKeeps, SignedResponseKeeps,
       CommitKeeps, DeliverKeeps, SendFailsKeeps, CompleteFinalizationKeeps, GiveUpKeeps,
       FailFinalizationKeeps, CancelTaskKeeps
    DEF Finalize
  <1>3. CASE TakeOther \/ Dispatch
    BY <1>3, TakeOtherKeeps, ReadHistoryKeeps, AppendRequestKeeps, ReceiveKeeps,
       CancelDispatchKeeps
    DEF Dispatch
  <1>4. ASSUME NEW a \in auths, NEW success \in BOOLEAN, VaultAnswers(a, success)
        PROVE  Inv'
    BY <1>4, VaultAnswersKeeps
  <1>5. CASE SessionEnds \/ CloseKeys \/ NoticeEnd \/ Close
    BY <1>5, SessionEndsKeeps, CloseKeysKeeps, NoticeEndKeeps, CloseKeeps
  <1>6. CASE Over \/ UNCHANGED vars
    BY <1>6, StutterKeeps DEF Over
  <1>. QED  BY <1>1, <1>2, <1>3, <1>4, <1>5, <1>6 DEF Next

-----------------------------------------------------------------------------
(* The theorems.                                                           *)

\* Every reachable state of the phone's approval runtime satisfies the
\* inductive invariant: what the dispatcher, the screen and each finalisation
\* task hold agrees with what is signed, recorded and sent.
THEOREM InductiveInvariant == Spec => []IInv
  <1>1. Init => Inv
    BY InitInv
  <1>2. Inv /\ [Next]_vars => Inv'
    BY NextKeeps
  <1>3. Inv => IInv
    BY Parts
  <1>. QED  BY <1>1, <1>2, <1>3, PTL DEF Spec

\* Type correctness of the runtime and of its history.
THEOREM TypeCorrect == Spec => []TypeOK
  <1>1. IInv => TypeOK
    BY DEF IInv
  <1>. QED  BY <1>1, InductiveInvariant, PTL

\* An approval is signed only for a request the user tapped and did not deny,
\* and only with an authentication that was not withdrawn or for a destination
\* that has had one (approve, completeAuthentication, evaluate, signedResponse).
THEOREM ApprovalsAreTheUsers == Spec => []ApprovalIsTheUsers
  <1>1. IInv => ApprovalIsTheUsers
    BY DEF IInv
  <1>. QED  BY <1>1, InductiveInvariant, PTL

\* No approval is signed once its deadline passed before the check inside the
\* log transaction (beforeSign).
THEOREM ApprovalsAreInTime == Spec => []NoLateApproval
  <1>1. IInv => NoLateApproval
    BY DEF IInv
  <1>. QED  BY <1>1, InductiveInvariant, PTL

\* The response is signed for the request the decision was taken on
\* (currentRequest, beforeFinalize).
THEOREM SignaturesAreForTheRequestShown == Spec => []SignsWhatWasShown
  <1>1. IInv => SignsWhatWasShown
    BY DEF IInv
  <1>. QED  BY <1>1, InductiveInvariant, PTL

\* Sent decisions are on record, recorded ones are signed, and a request has at
\* most one (appendWithBeforeCommit, send).
THEOREM DecisionsAreOnRecord == Spec => []DecisionOnRecord
  <1>1. IInv => DecisionOnRecord
    BY DEF IInv
  <1>. QED  BY <1>1, InductiveInvariant, PTL

\* A verdict on the screen was handed to the radio (completeFinalization).
THEOREM VerdictsShownWereSent == Spec => []ShownWasSent
  <1>1. IInv => ShownWasSent
    BY DEF IInv
  <1>. QED  BY <1>1, InductiveInvariant, PTL

\* A decision being recorded has a task working on it (finalize).
THEOREM BusyScreensHaveATask == Spec => []BusyHasTask
  <1>1. IInv => BusyHasTask
    BY DEF IInv, BusyShape, BusyHasTask, Stages
  <1>. QED  BY <1>1, InductiveInvariant, PTL

==============================================================================
