--------------------------- MODULE PhoneApproval ---------------------------
(***************************************************************************)
(* The phone's side of an approval, for one live session:                  *)
(* ApprovalStateMachine, the PhoneApprovalRuntime that drives it, and the  *)
(* Rust ApprovalProtocol that decodes requests and signs decisions.        *)
(*                                                                         *)
(* Four threads interleave.  The main thread runs the user's taps, the     *)
(* dispatcher of inbound messages, the timers and the finalisation tasks;  *)
(* a step of it ends where the code suspends.  The database thread runs    *)
(* the log transaction, with the last authorisation check and the          *)
(* signature inside it.  The session thread sends, and ends the session at *)
(* a time of its own.  The vault runs the user's authentication.           *)
(*                                                                         *)
(* A request id has one handle and one instance per session, because a     *)
(* repeated id is refused when it is decoded: a member of Requests stands  *)
(* for all three.                                                          *)
(***************************************************************************)
EXTENDS Naturals, Sequences

CONSTANTS
  Requests,      \* ids of the requests the PC may send in this session
  Destinations,  \* (service, endpoint) pairs
  DestOf,        \* the destination of each request
  HighRisk,      \* requests a DELETE method or a configured rule makes Tier 3
  PriorGrants,   \* destinations of the approvals already in the log, oldest first
  HistoryLimit,  \* how many approvals count as recent
  MaxAttempts,   \* bound: authentication attempts per request
  NoReq

ASSUME RequestsAssumption ==
  /\ NoReq \notin Requests
  /\ DestOf \in [Requests -> Destinations]
  /\ HighRisk \subseteq Requests
  /\ PriorGrants \in Seq(Destinations)

ASSUME BoundsAssumption == HistoryLimit \in Nat /\ MaxAttempts \in Nat

VARIABLES
  sess,      \* the session: active, ending (state is Ended), ended (keys closed)
  endAsked,  \* endNow has queued an end on the session thread
  closed,    \* the runtime released its handles and cancelled its scope
  rx,        \* the request the dispatcher is working on
  received,  \* ApprovalInner.received_ids
  sm,        \* ApprovalStateMachine._state
  seen,      \* ApprovalStateMachine.seenRequestIds
  current,   \* PhoneApprovalRuntime.currentRequest
  auths,     \* submittedAuthAttempts: attempts the vault is working on
  task,      \* the finalisation task of each request
  signed,    \* responses signed; their requests are terminal_ids
  rows,      \* committed log rows of each request
  grants,    \* destinations of the committed approval_granted rows
  wire,      \* responses handed to the radio
  overdue    \* requests received more than APPROVAL_DEADLINE_MS ago

\* What the user and the clock did, for the properties; no action reads them.
VARIABLES
  tapped,    \* requests the user tapped Approve on, while they were shown
  denied,    \* requests the user's tap on Deny decided
  passed,    \* attempts the vault authenticated
  withdrawn, \* attempts the user cancelled
  missed     \* requests whose deadline passed before the last check

engine == <<sess, endAsked, closed, rx, received, sm, seen, current, auths,
            task, signed, rows, grants, wire, overdue>>
user == <<tapped, denied, passed, withdrawn, missed>>
vars == <<engine, user>>

Decisions == {"approved", "denied", "expired"}
Live == {"review", "auth", "committing", "finalizing"}
Terminal == Decisions \cup {"lost", "failed"}
Attempts == Requests \X (1 .. MaxAttempts)

RxIdle == [req |-> NoReq, stage |-> "idle", tier |-> 3]
NoTask == [stage |-> "none", decision |-> "none", handle |-> NoReq]
Empty == [tag |-> "empty", req |-> NoReq, tier |-> 3, attempt |-> 0,
          decision |-> "none"]

Init ==
  /\ sess = "active" /\ endAsked = FALSE /\ closed = FALSE
  /\ rx = RxIdle /\ received = {}
  /\ sm = Empty /\ seen = {}
  /\ current = NoReq
  /\ auths = {}
  /\ task = [r \in Requests |-> NoTask]
  /\ signed = {}
  /\ rows = [r \in Requests |-> <<>>]
  /\ grants = PriorGrants
  /\ wire = {}
  /\ overdue = {}
  /\ tapped = {} /\ denied = {} /\ passed = {} /\ withdrawn = {} /\ missed = {}

-----------------------------------------------------------------------------
(* Parts of the state machine shared by its operations.                    *)

\* PhoneSession.isActive, as any thread reads it.
Active == sess = "active"

\* A state that keeps only the identity of the request it was about.
Closed(tag) ==
  [tag |-> tag, req |-> sm.req, tier |-> 3, attempt |-> 0, decision |-> "none"]

\* ApprovalStateMachine.sessionLost: the value _state takes.
SessionLost == IF sm.tag \in Live THEN Closed("lost") ELSE sm

\* The same request, with its tier and its attempts, in another state.
Moved(tag, d) ==
  [tag |-> tag, req |-> sm.req, tier |-> sm.tier, attempt |-> sm.attempt, decision |-> d]

Committing(d) == Moved("committing", d)

\* handleAction of a Finalize: a task is launched in the runtime's scope.
Launch(r, d) ==
  task' = [task EXCEPT ![r] = [stage |-> "spawned", decision |-> d, handle |-> NoReq]]

\* expireOrLoseSession: what an operation on a pending request does first.
ExpireOrLoseSession ==
  \/ ~Active /\ sm' = Closed("lost") /\ UNCHANGED task
  \/ Active /\ sm.req \in overdue /\ sm' = Committing("expired") /\ Launch(sm.req, "expired")

InTime == Active /\ sm.req \notin overdue

\* failProtocol: the request is lost and the session is asked to end.
FailProtocol == sm' = SessionLost /\ endAsked' = TRUE

\* currentRequest is cleared if it is still the one given.
Drop(h) == current' = IF current = h THEN NoReq ELSE current

\* ApprovalLog.writeLock is held by a task inside its transaction.
InTransaction(r) == task[r].stage \in {"staged", "checked", "signed"}
LockFree == \A r \in Requests : ~InTransaction(r)

SetStage(r, stage) ==
  task' = [task EXCEPT ![r] = [stage |-> stage, decision |-> task[r].decision,
                               handle |-> task[r].handle]]

-----------------------------------------------------------------------------
(* Inbound messages: dispatch and receiveApprovalRequest.                  *)

\* decode_inbound of an approval request.  Messages buffered before the
\* session ended are still delivered.  A repeated id fails to decode.
TakeRequest(r) ==
  /\ ~closed /\ rx = RxIdle
  /\ \/ /\ r \notin received
        /\ received' = received \cup {r}
        /\ rx' = [req |-> r, stage |-> "history", tier |-> 3]
        /\ UNCHANGED <<sm, endAsked>>
     \/ /\ r \in received
        /\ FailProtocol
        /\ UNCHANGED <<received, rx>>
  /\ UNCHANGED <<sess, closed, seen, current, auths, task, signed, rows, grants,
                 wire, overdue, user>>

\* SessionEnd, a message that does not decode, an unexpected one, or a Ping or
\* services query whose answer cannot be sent.  (An answered one changes nothing.)
TakeOther ==
  /\ ~closed /\ rx = RxIdle
  /\ FailProtocol
  /\ UNCHANGED <<sess, closed, rx, received, seen, current, auths, task, signed,
                 rows, grants, wire, overdue, user>>

\* Destinations of the newest HistoryLimit approvals.
RecentDestinations ==
  {grants[i] : i \in {j \in 1 .. Len(grants) : j + HistoryLimit > Len(grants)}}

\* PhoneApprovalPolicy.evaluate.
TierOf(r, history) == IF r \in HighRisk \/ DestOf[r] \notin history THEN 3 ELSE 2

\* Seeded fault: when the query fails every destination counts as known.
ReadHistoryFailsOpen ==
  /\ ~closed /\ rx.stage = "history"
  /\ \E history \in {RecentDestinations, Destinations} :
       rx' = [req |-> rx.req, stage |-> "append", tier |-> TierOf(rx.req, history)]
  /\ UNCHANGED <<sess, endAsked, closed, received, sm, seen, current, auths, task,
                 signed, rows, grants, wire, overdue, user>>

\* The history query, which counts as empty when it fails, and evaluate_tier.
ReadHistory ==
  /\ ~closed /\ rx.stage = "history"
  /\ \E history \in {RecentDestinations, {}} :
       rx' = [req |-> rx.req, stage |-> "append", tier |-> TierOf(rx.req, history)]
  /\ UNCHANGED <<sess, endAsked, closed, received, sm, seen, current, auths, task,
                 signed, rows, grants, wire, overdue, user>>

\* ApprovalLog.append of the approval_request row.
AppendRequest ==
  /\ ~closed /\ rx.stage = "append" /\ LockFree
  /\ \/ /\ rows' = [rows EXCEPT ![rx.req] = Append(@, "request")]
        /\ rx' = [req |-> rx.req, stage |-> "receive", tier |-> rx.tier]
        /\ UNCHANGED <<sm, endAsked>>
     \/ /\ FailProtocol
        /\ rx' = RxIdle
        /\ UNCHANGED rows
  /\ UNCHANGED <<sess, closed, received, seen, current, auths, task, signed, grants,
                 wire, overdue, user>>

\* currentRequest is replaced, then ApprovalStateMachine.receive decides; a
\* rejected request takes the one under review down with it.
Receive ==
  LET r == rx.req
      shown(tag, d) == [tag |-> tag, req |-> r, tier |-> rx.tier, attempt |-> 0,
                        decision |-> d]
  IN /\ ~closed /\ rx.stage = "receive"
     /\ rx' = RxIdle
     /\ \/ /\ ~Active \/ sm.tag \in Live \/ r \in seen
           /\ current' = NoReq
           /\ FailProtocol
           /\ UNCHANGED <<seen, task>>
        \/ /\ Active /\ sm.tag \notin Live /\ r \notin seen
           /\ seen' = seen \cup {r}
           /\ current' = r
           /\ \/ r \notin overdue /\ sm' = shown("review", "none") /\ UNCHANGED task
              \/ /\ r \in overdue
                 /\ sm' = shown("committing", "expired")
                 /\ Launch(r, "expired")
           /\ UNCHANGED endAsked
     /\ UNCHANGED <<sess, closed, received, auths, signed, rows, grants, wire,
                    overdue, user>>

\* The dispatcher's coroutine is cancelled at a suspension point.
CancelDispatch ==
  /\ closed /\ rx # RxIdle
  /\ rx' = RxIdle
  /\ UNCHANGED <<sess, endAsked, closed, received, sm, seen, current, auths, task,
                 signed, rows, grants, wire, overdue, user>>

-----------------------------------------------------------------------------
(* The user, and the deadline.                                             *)

\* A tap on Approve carries the instance that was on the screen.
Approve(r) ==
  /\ sm.tag = "review" /\ sm.req = r
  /\ \/ ExpireOrLoseSession
     \/ /\ InTime /\ sm.tier = 3 /\ sm.attempt < MaxAttempts
        /\ sm' = [tag |-> "auth", req |-> r, tier |-> 3, attempt |-> sm.attempt + 1,
                  decision |-> sm.decision]
        /\ UNCHANGED task
     \/ /\ InTime /\ sm.tier = 2
        /\ sm' = Committing("approved")
        /\ Launch(sm.req, "approved")
  /\ tapped' = tapped \cup {r}
  /\ UNCHANGED <<sess, endAsked, closed, rx, received, seen, current, auths, signed,
                 rows, grants, wire, overdue, denied, passed, withdrawn, missed>>

Deny(r) ==
  /\ sm.tag \in {"review", "auth"} /\ sm.req = r
  /\ \/ ExpireOrLoseSession /\ UNCHANGED denied
     \/ /\ InTime
        /\ sm' = Committing("denied")
        /\ Launch(sm.req, "denied")
        /\ denied' = denied \cup {r}
  /\ UNCHANGED <<sess, endAsked, closed, rx, received, seen, current, auths, signed,
                 rows, grants, wire, overdue, tapped, passed, withdrawn, missed>>

\* authenticateTier3 up to the vault: one submission per open attempt.
Authenticate(r) ==
  /\ sm.tag = "auth" /\ sm.req = r /\ Active
  /\ <<r, sm.attempt>> \notin auths
  /\ auths' = auths \cup {<<r, sm.attempt>>}
  /\ UNCHANGED <<sess, endAsked, closed, rx, received, sm, seen, current, task, signed,
                 rows, grants, wire, overdue, user>>

\* Seeded fault: the attempt is not compared.
CompleteAnyAttempt(a, success) ==
  \/ /\ sm.tag = "auth" /\ sm.req = a[1]
     /\ \/ ExpireOrLoseSession
        \/ InTime /\ success /\ sm' = Committing("approved") /\ Launch(sm.req, "approved")
        \/ InTime /\ ~success /\ sm' = Moved("review", sm.decision) /\ UNCHANGED task
  \/ /\ ~(sm.tag = "auth" /\ sm.req = a[1])
     /\ UNCHANGED <<sm, task>>

\* completeAuthentication; an answer to an attempt that is not open is ignored.
CompleteAuthentication(a, success) ==
  \/ /\ sm.tag = "auth" /\ sm.req = a[1] /\ sm.attempt = a[2]
     /\ \/ ExpireOrLoseSession
        \/ InTime /\ success /\ sm' = Committing("approved") /\ Launch(sm.req, "approved")
        \/ InTime /\ ~success /\ sm' = Moved("review", sm.decision) /\ UNCHANGED task
  \/ /\ ~(sm.tag = "auth" /\ sm.req = a[1] /\ sm.attempt = a[2])
     /\ UNCHANGED <<sm, task>>

\* The vault answers.
VaultAnswers(a, success) ==
  /\ a \in auths
  /\ auths' = auths \ {a}
  /\ CompleteAuthentication(a, success)
  /\ passed' = IF success THEN passed \cup {a} ELSE passed
  /\ UNCHANGED <<sess, endAsked, closed, rx, received, seen, current, signed, rows,
                 grants, wire, overdue, tapped, denied, withdrawn, missed>>

\* The user dismisses the prompt; the vault may still be working on it.
CancelTier3Authentication(r) ==
  /\ sm.tag = "auth" /\ sm.req = r
  /\ CompleteAuthentication(<<r, sm.attempt>>, FALSE)
  /\ withdrawn' = withdrawn \cup {<<r, sm.attempt>>}
  /\ UNCHANGED <<sess, endAsked, closed, rx, received, seen, current, auths, signed,
                 rows, grants, wire, overdue, tapped, denied, passed, missed>>

\* Sixty seconds have passed since the message was received, whether or not the
\* dispatcher has reached it.  A deadline nobody will read is not followed.
DeadlinePasses(r) ==
  /\ r \notin overdue
  /\ r \notin received \/ rx.req = r \/ (sm.req = r /\ sm.tag \in Live)
  /\ overdue' = overdue \cup {r}
  /\ missed' = IF /\ task[r].stage \in {"none", "spawned", "waiting", "staged"}
                  /\ \A s \in signed : s.req # r
               THEN missed \cup {r} ELSE missed
  /\ UNCHANGED <<sess, endAsked, closed, rx, received, sm, seen, current, auths, task,
                 signed, rows, grants, wire, tapped, denied, passed, withdrawn>>

\* Seeded fault: the timer forgets a request that is being authenticated.
ExpireReviewOnly(r) ==
  /\ ~closed
  /\ sm.tag = "review" /\ sm.req = r /\ r \in overdue
  /\ ExpireOrLoseSession
  /\ UNCHANGED <<sess, endAsked, closed, rx, received, seen, current, auths, signed,
                 rows, grants, wire, overdue, user>>

\* The timer launched when the request was accepted.
Expire(r) ==
  /\ ~closed
  /\ sm.tag \in {"review", "auth"} /\ sm.req = r /\ r \in overdue
  /\ ExpireOrLoseSession
  /\ UNCHANGED <<sess, endAsked, closed, rx, received, seen, current, auths, signed,
                 rows, grants, wire, overdue, user>>

-----------------------------------------------------------------------------
(* Finalisation: finalize(action), a coroutine of the main thread that     *)
(* spends the log transaction on the database thread and the send on the   *)
(* session thread.                                                         *)

\* Seeded fault: the instance is not compared.
HoldsAnyRequest(r, tag) == sm.tag = tag /\ sm.decision = task[r].decision

\* The state is still the one the task was launched for.
Holds(r, tag) == sm.tag = tag /\ sm.req = r /\ sm.decision = task[r].decision

Late(r) == task[r].decision = "approved" /\ r \in overdue

\* An approval that crossed its deadline goes on as an expiry, in the same task.
TurnIntoExpiry(r) == sm' = Committing("expired") /\ Launch(r, "expired")

\* beforeFinalize, and the reading of currentRequest.
BeforeFinalize(r) ==
  /\ ~closed /\ task[r].stage = "spawned"
  /\ \/ /\ ~Holds(r, "committing")
        /\ task' = [task EXCEPT ![r] = NoTask]
        /\ UNCHANGED sm
     \/ /\ Holds(r, "committing") /\ (~Active \/ (~Late(r) /\ current = NoReq))
        /\ sm' = SessionLost
        /\ task' = [task EXCEPT ![r] = NoTask]
     \/ Holds(r, "committing") /\ Active /\ Late(r) /\ TurnIntoExpiry(r)
     \/ /\ Holds(r, "committing") /\ Active /\ ~Late(r) /\ current # NoReq
        /\ sm' = Moved("finalizing", sm.decision)
        /\ task' = [task EXCEPT ![r] = [stage |-> "waiting", decision |-> sm.decision,
                                         handle |-> current]]
  /\ UNCHANGED <<sess, endAsked, closed, rx, received, seen, current, auths, signed,
                 rows, grants, wire, overdue, user>>

\* appendWithBeforeCommit: the row is staged, or the database refuses it.
StageRow(r) ==
  /\ task[r].stage = "waiting" /\ LockFree
  /\ \E stage \in {"staged", "failed"} : SetStage(r, stage)
  /\ UNCHANGED <<sess, endAsked, closed, rx, received, sm, seen, current, auths, signed,
                 rows, grants, wire, overdue, user>>

\* Seeded fault: the deadline is not looked at again before the signature.
BeforeSignUntimed(r) ==
  /\ task[r].stage = "staged"
  /\ \/ ~Holds(r, "finalizing") /\ SetStage(r, "refused") /\ UNCHANGED sm
     \/ Holds(r, "finalizing") /\ ~Active /\ sm' = Closed("lost") /\ SetStage(r, "refused")
     \/ Holds(r, "finalizing") /\ Active /\ SetStage(r, "checked") /\ UNCHANGED sm
  /\ UNCHANGED <<sess, endAsked, closed, rx, received, seen, current, auths, signed,
                 rows, grants, wire, overdue, user>>

\* Seeded fault: a late approval is rolled back and nobody sends the expiry.
BeforeSignDropsExpiry(r) ==
  /\ task[r].stage = "staged"
  /\ \/ ~Holds(r, "finalizing") /\ SetStage(r, "refused") /\ UNCHANGED sm
     \/ Holds(r, "finalizing") /\ ~Active /\ sm' = Closed("lost") /\ SetStage(r, "refused")
     \/ /\ Holds(r, "finalizing") /\ Active /\ Late(r)
        /\ sm' = Committing("expired") /\ SetStage(r, "refused")
     \/ Holds(r, "finalizing") /\ Active /\ ~Late(r) /\ SetStage(r, "checked") /\ UNCHANGED sm
  /\ UNCHANGED <<sess, endAsked, closed, rx, received, seen, current, auths, signed,
                 rows, grants, wire, overdue, user>>

\* beforeSign, inside the transaction: the last check.  A refusal or a late
\* approval rolls the row back.
BeforeSign(r) ==
  /\ task[r].stage = "staged"
  /\ \/ ~Holds(r, "finalizing") /\ SetStage(r, "refused") /\ UNCHANGED sm
     \/ Holds(r, "finalizing") /\ ~Active /\ sm' = Closed("lost") /\ SetStage(r, "refused")
     \/ Holds(r, "finalizing") /\ Active /\ Late(r) /\ TurnIntoExpiry(r)
     \/ Holds(r, "finalizing") /\ Active /\ ~Late(r) /\ SetStage(r, "checked") /\ UNCHANGED sm
  /\ UNCHANGED <<sess, endAsked, closed, rx, received, seen, current, auths, signed,
                 rows, grants, wire, overdue, user>>

\* signed_response: needs the protocol and the identity open and no earlier
\* signature for the request.
SignedResponse(r) ==
  LET h == task[r].handle IN
  /\ task[r].stage = "checked"
  /\ \/ /\ ~closed /\ sess # "ended" /\ \A s \in signed : s.handle # h
        /\ signed' = signed \cup {[req |-> r, handle |-> h, decision |-> task[r].decision]}
        /\ SetStage(r, "signed")
     \/ /\ closed \/ sess = "ended" \/ \E s \in signed : s.handle = h
        /\ SetStage(r, "failed")
        /\ UNCHANGED signed
  /\ UNCHANGED <<sess, endAsked, closed, rx, received, sm, seen, current, auths, rows,
                 grants, wire, overdue, user>>

\* The transaction commits, or fails after the signature was made.
Commit(r) ==
  /\ task[r].stage = "signed"
  /\ \/ /\ rows' = [rows EXCEPT ![r] = Append(@, task[r].decision)]
        /\ grants' = IF task[r].decision = "approved" THEN Append(grants, DestOf[r]) ELSE grants
        /\ SetStage(r, "committed")
     \/ SetStage(r, "failed") /\ UNCHANGED <<rows, grants>>
  /\ UNCHANGED <<sess, endAsked, closed, rx, received, sm, seen, current, auths, signed,
                 wire, overdue, user>>

\* Seeded fault: the response leaves before its row is committed.
DeliverUncommitted(r) ==
  /\ task[r].stage \in {"signed", "committed"} /\ Active
  /\ wire' = wire \cup {[req |-> task[r].handle, decision |-> task[r].decision]}
  /\ SetStage(r, "delivered")
  /\ UNCHANGED <<sess, endAsked, closed, rx, received, sm, seen, current, auths, signed,
                 rows, grants, overdue, user>>

\* PhoneSession.send, on the session thread: the last frame leaves.
Deliver(r) ==
  /\ task[r].stage = "committed" /\ Active
  /\ wire' = wire \cup {[req |-> task[r].handle, decision |-> task[r].decision]}
  /\ SetStage(r, "delivered")
  /\ UNCHANGED <<sess, endAsked, closed, rx, received, sm, seen, current, auths, signed,
                 rows, grants, overdue, user>>

\* send throws: the session was over, or the link died under it, perhaps after
\* the last frame was received.
SendFails(r) ==
  /\ task[r].stage \in {"committed", "delivered"} /\ ~Active
  /\ SetStage(r, "failed")
  /\ UNCHANGED <<sess, endAsked, closed, rx, received, sm, seen, current, auths, signed,
                 rows, grants, wire, overdue, user>>

\* Seeded fault: the verdict is shown as soon as it is on record.
CompleteBeforeSend(r) ==
  /\ ~closed /\ task[r].stage \in {"committed", "delivered"}
  /\ sm' = IF Holds(r, "finalizing") THEN Closed(task[r].decision) ELSE sm
  /\ Drop(task[r].handle)
  /\ task' = [task EXCEPT ![r] = NoTask]
  /\ UNCHANGED <<sess, endAsked, closed, rx, received, seen, auths, signed, rows,
                 grants, wire, overdue, user>>

\* completeFinalization after the send returned.
CompleteFinalization(r) ==
  /\ ~closed /\ task[r].stage = "delivered"
  /\ sm' = IF Holds(r, "finalizing") THEN Closed(task[r].decision) ELSE sm
  /\ Drop(task[r].handle)
  /\ task' = [task EXCEPT ![r] = NoTask]
  /\ UNCHANGED <<sess, endAsked, closed, rx, received, seen, auths, signed, rows,
                 grants, wire, overdue, user>>

\* ApprovalNoLongerAuthorized is caught.
GiveUp(r) ==
  /\ task[r].stage = "refused"
  /\ Drop(task[r].handle)
  /\ task' = [task EXCEPT ![r] = NoTask]
  /\ UNCHANGED <<sess, endAsked, closed, rx, received, sm, seen, auths, signed, rows,
                 grants, wire, overdue, user>>

\* Any other exception: failFinalization, and the session is asked to end.
FailFinalization(r) ==
  /\ task[r].stage = "failed"
  /\ sm' = IF sm.req = r /\ sm.tag \in {"committing", "finalizing"}
           THEN Closed("failed") ELSE sm
  /\ Drop(task[r].handle)
  /\ endAsked' = TRUE
  /\ task' = [task EXCEPT ![r] = NoTask]
  /\ UNCHANGED <<sess, closed, rx, received, seen, auths, signed, rows, grants, wire,
                 overdue, user>>

\* The scope was cancelled: a task that has not started never does; one that is
\* suspended is thrown out, from an open transaction too, but not between the
\* last check and the commit, where nothing suspends.
CancelTask(r) ==
  /\ closed
  /\ \/ task[r].stage = "spawned" /\ UNCHANGED sm
     \/ task[r].stage \in {"waiting", "staged", "committed", "delivered"} /\ sm' = SessionLost
  /\ task' = [task EXCEPT ![r] = NoTask]
  /\ UNCHANGED <<sess, endAsked, closed, rx, received, seen, current, auths, signed,
                 rows, grants, wire, overdue, user>>

-----------------------------------------------------------------------------
(* The end of the session and of the runtime.                              *)

\* terminate, first part: the state becomes Ended.  It may happen at any time
\* (link, timers, framing), and happens when endNow asked for it.
SessionEnds ==
  /\ Active
  /\ sess' = "ending"
  /\ UNCHANGED <<endAsked, closed, rx, received, sm, seen, current, auths, task, signed,
                 rows, grants, wire, overdue, user>>

HonourEndNow == endAsked /\ SessionEnds

\* terminate, the rest: the keys are closed and the inbound flow completes.
CloseKeys ==
  /\ sess = "ending"
  /\ sess' = "ended"
  /\ UNCHANGED <<endAsked, closed, rx, received, sm, seen, current, auths, task, signed,
                 rows, grants, wire, overdue, user>>

\* sessionLost and releaseAfterSessionEnd.
Release ==
  /\ ~closed
  /\ closed' = TRUE
  /\ sm' = SessionLost
  /\ current' = NoReq

\* A collector of the session's state, or of its inbound flow, sees the end.
NoticeEnd ==
  /\ ~Active
  /\ Release
  /\ UNCHANGED <<sess, endAsked, rx, received, seen, auths, task, signed, rows, grants,
                 wire, overdue, user>>

\* close(): the screen goes away or another session takes over.
Close ==
  /\ Release
  /\ endAsked' = (endAsked \/ Active)
  /\ UNCHANGED <<sess, rx, received, seen, auths, task, signed, rows, grants, wire,
                 overdue, user>>

\* The session is over and nothing is left to do.
Over ==
  /\ sess = "ended" /\ closed /\ rx = RxIdle
  /\ \A r \in Requests : task[r].stage = "none"
  /\ UNCHANGED vars

-----------------------------------------------------------------------------
Finalize(r) ==
  \/ BeforeFinalize(r) \/ StageRow(r) \/ BeforeSign(r) \/ SignedResponse(r)
  \/ Commit(r) \/ Deliver(r) \/ SendFails(r) \/ CompleteFinalization(r)
  \/ GiveUp(r) \/ FailFinalization(r) \/ CancelTask(r)

Dispatch == ReadHistory \/ AppendRequest \/ Receive \/ CancelDispatch

Next ==
  \/ \E r \in Requests :
       \/ TakeRequest(r) \/ Approve(r) \/ Deny(r) \/ Authenticate(r)
       \/ CancelTier3Authentication(r) \/ DeadlinePasses(r) \/ Expire(r)
       \/ Finalize(r)
  \/ TakeOther \/ Dispatch
  \/ \E a \in auths, success \in BOOLEAN : VaultAnswers(a, success)
  \/ SessionEnds \/ CloseKeys \/ NoticeEnd \/ Close \/ Over

Spec == Init /\ [][Next]_vars

\* The clock runs; the main and database threads, and the session thread when
\* asked to end, go on; a send is acknowledged or times out and ends the
\* session.  Nothing is assumed of the user, the vault or the PC.
Fairness ==
  /\ \A r \in Requests :
       WF_vars(DeadlinePasses(r)) /\ WF_vars(Expire(r)) /\ WF_vars(Finalize(r))
  /\ WF_vars(Dispatch) /\ WF_vars(HonourEndNow) /\ WF_vars(CloseKeys) /\ WF_vars(NoticeEnd)

FairSpec == Spec /\ Fairness

-----------------------------------------------------------------------------
(* Properties.                                                             *)

Stages == {"none", "spawned", "waiting", "staged", "checked", "signed", "committed",
           "delivered", "refused", "failed"}

\* Every variable of the runtime and of its history has its type.
TypeOK ==
  /\ sess \in {"active", "ending", "ended"} /\ endAsked \in BOOLEAN /\ closed \in BOOLEAN
  /\ rx \in [req : Requests \cup {NoReq}, stage : {"idle", "history", "append", "receive"},
             tier : {2, 3}]
  /\ rx.stage # "idle" => rx.req \in Requests
  /\ received \subseteq Requests /\ seen \subseteq Requests
  /\ sm \in [tag : {"empty"} \cup Live \cup Terminal, req : Requests \cup {NoReq},
             tier : {2, 3}, attempt : 0 .. MaxAttempts, decision : Decisions \cup {"none"}]
  /\ sm.tag # "empty" => sm.req \in Requests
  /\ current \in Requests \cup {NoReq}
  /\ auths \subseteq Attempts
  /\ task \in [Requests -> [stage : Stages, decision : Decisions \cup {"none"},
                            handle : Requests \cup {NoReq}]]
  /\ signed \subseteq [req : Requests, handle : Requests, decision : Decisions]
  /\ rows \in [Requests -> Seq({"request"} \cup Decisions)]
  /\ grants \in Seq(Destinations)
  /\ wire \subseteq [req : Requests, decision : Decisions]
  /\ overdue \subseteq Requests
  /\ tapped \subseteq Requests /\ denied \subseteq Requests /\ missed \subseteq Requests
  /\ passed \subseteq Attempts /\ withdrawn \subseteq Attempts

\* Requests for which the user proved who they are and did not take it back.
Authenticated == {a[1] : a \in passed \ withdrawn}

\* Destinations of approvals of earlier sessions, and of authenticated ones of
\* this session.
Precedented ==
  {d \in Destinations :
     \/ \E i \in DOMAIN PriorGrants : PriorGrants[i] = d
     \/ \E t \in signed : /\ t.decision = "approved" /\ DestOf[t.req] = d
                          /\ t.req \in Authenticated}

\* Requests the user may approve with a tap.
TapSuffices == {r \in Requests \ HighRisk : DestOf[r] \in Precedented}

\* An approval is signed only for a request the user tapped and did not deny; a
\* high-risk one only after a fresh authentication that was not withdrawn; and
\* one approved by the tap alone goes where an authenticated approval, of this
\* session or an earlier one, went before (approve, completeAuthentication,
\* evaluate, signedResponse).
ApprovalIsTheUsers ==
  \A s \in signed : s.decision = "approved" =>
    s.req \in (tapped \ denied) \cap (Authenticated \cup TapSuffices)

\* No approval is signed for a request whose deadline passed before the check
\* inside the log transaction, wherever it was at that moment (beforeSign).
NoLateApproval == \A s \in signed : s.decision = "approved" => s.req \notin missed

\* A decision is signed for the request it was taken on, although the runtime
\* keeps the request to sign in a field that another request may overwrite
\* (currentRequest, beforeFinalize).
SignsWhatWasShown == \A s \in signed : s.handle = s.req

\* The log of a request is its arrival and at most one decision; a decision on
\* record was signed, and one that reached the radio is on record
\* (appendWithBeforeCommit, send).
DecisionOnRecord ==
  /\ \A r \in Requests :
       \/ rows[r] \in {<<>>, <<"request">>}
       \/ \E s \in signed : s.req = r /\ rows[r] = <<"request", s.decision>>
  /\ \A w \in wire : rows[w.req] = <<"request", w.decision>>

\* A verdict on the screen was sent ("Approval sent to the paired PC.").
ShownWasSent == sm.tag \in Decisions => [req |-> sm.req, decision |-> sm.tag] \in wire

\* A decision being recorded has a task working on it: no path through
\* finalize leaves the screen busy for good.
BusyHasTask ==
  sm.tag \in {"committing", "finalizing"} =>
    task[sm.req].stage \in Stages \ {"none", "refused"}

\* Every request shown gets a final state, whatever the user, the vault and the
\* PC do: the deadline timer, finalize or the end of the session sees to it.
RequestResolved ==
  \A r \in Requests : (sm.tag \in Live /\ sm.req = r) ~> ~(sm.tag \in Live /\ sm.req = r)

-----------------------------------------------------------------------------
(* The inductive invariant.                                                *)

Answered == {s.req : s \in signed}
Tried == auths \cup passed \cup withdrawn
Justified == (tapped \ denied) \cap (Authenticated \cup TapSuffices)

\* What the dispatcher holds is registered, not yet accepted, and has left in
\* the log what its stage says.
RxShape ==
  /\ rx.stage = "idle" => rx = RxIdle
  /\ rx.stage # "idle" => rx.req \in received \ seen
  /\ rx.stage \in {"history", "append"} => rows[rx.req] = <<>>
  /\ rx.stage = "receive" => rows[rx.req] = <<"request">>
  /\ rx.stage \in {"append", "receive"} /\ rx.tier = 2 => rx.req \in TapSuffices

\* A request the state machine has not accepted has left no trace elsewhere.
Untouched(r) ==
  /\ task[r].stage = "none" /\ r \notin Answered /\ r \notin denied
  /\ r \notin received => rows[r] = <<>>
  /\ \A a \in Tried : a[1] # r

FreshShape ==
  /\ seen \subseteq received
  /\ \A r \in Requests \ seen : Untouched(r)

\* A request under review has no task and no signature; the attempts so far are
\* numbered up to the last one, and the open one has neither passed nor been
\* withdrawn.
ReviewShape ==
  /\ sm.tag # "empty" => sm.req \in seen
  /\ sm.tag \in Live => current \in {NoReq, sm.req} /\ ~closed
  /\ sm.tag \in {"review", "auth"} =>
       /\ task[sm.req].stage = "none" /\ sm.req \notin Answered /\ sm.req \notin denied
       /\ rows[sm.req] = <<"request">>
       /\ sm.tier = 2 => sm.req \in TapSuffices
       /\ \A a \in Tried : a[1] = sm.req => a[2] <= sm.attempt
  /\ sm.tag = "auth" =>
       /\ sm.attempt \in 1 .. MaxAttempts
       /\ sm.req \in tapped
       /\ <<sm.req, sm.attempt>> \notin passed \cup withdrawn

\* A decision being recorded is in the hands of the task of its request.
BusyShape ==
  /\ sm.tag = "committing" =>
       task[sm.req].stage = "spawned" /\ task[sm.req].decision = sm.decision
  /\ sm.tag = "finalizing" =>
       /\ task[sm.req].stage \in {"waiting", "staged", "checked", "signed", "committed",
                                  "delivered", "failed"}
       /\ task[sm.req].decision = sm.decision

\* How far a task has come decides what is signed, recorded and sent.
Progress(r, stage, d) ==
  /\ stage # "none" => d \in Decisions
  /\ stage \notin {"none", "spawned"} => task[r].handle = r
  /\ stage \in {"spawned", "waiting", "staged", "checked"} => r \notin Answered
  /\ stage \in {"spawned", "waiting", "staged", "checked", "signed"} =>
       rows[r] = <<"request">>
  /\ stage \in {"signed", "committed", "delivered"} =>
       [req |-> r, handle |-> r, decision |-> d] \in signed
  /\ stage \in {"committed", "delivered"} => rows[r] = <<"request", d>>
  /\ stage = "delivered" => [req |-> r, decision |-> d] \in wire
  /\ stage # "none" /\ d = "approved" => r \in Justified
  /\ stage = "checked" /\ d = "approved" => r \notin missed

TaskShape == \A r \in Requests : Progress(r, task[r].stage, task[r].decision)

\* One signature per request, made for the request shown, and recorded or not.
SignedShape ==
  /\ \A s, t \in signed : s.req = t.req => s = t
  /\ \A s \in signed : rows[s.req] \in {<<"request">>, <<"request", s.decision>>}

GrantsShape == \A i \in DOMAIN grants : grants[i] \in Precedented

IInv ==
  /\ TypeOK /\ RxShape /\ FreshShape /\ ReviewShape /\ BusyShape /\ TaskShape
  /\ SignedShape /\ GrantsShape
  /\ missed \subseteq overdue
  /\ ApprovalIsTheUsers /\ NoLateApproval /\ SignsWhatWasShown /\ DecisionOnRecord
  /\ ShownWasSent
=============================================================================
