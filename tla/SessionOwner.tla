---------------------------- MODULE SessionOwner ----------------------------
(***************************************************************************)
(* The session owner task of the Conveyance daemon: the one task that      *)
(* drives the phone link, the session lifecycle, the approval -> execute   *)
(* pipeline of routed tool calls, and the execution log rows that record   *)
(* it, together with the crash-recovery sweep that runs at daemon start,   *)
(* that of a second daemon started beside a running one included.          *)
(*                                                                         *)
(* A routed tool call and the random req_id it is given by start_route are *)
(* one value here: a call is started at most once, so the two are in       *)
(* bijection.  The execution log is kept as one trail of event types per   *)
(* req_id (what the sweep and every property look at) plus the number of   *)
(* session_end rows of each session; daemon_note rows, which no code reads *)
(* back, are left out.                                                     *)
(*                                                                         *)
(* The owner's handlers await the radio in the middle, and the process may *)
(* die between any two durable effects, so a handler with several durable  *)
(* effects is a chain of steps: pc names the point the task has reached.   *)
(* An append to the log may fail, and the owner goes on without a word.    *)
(***************************************************************************)
EXTENDS Naturals, Sequences

CONSTANTS
  AuthRequests,   \* calls of RoutedOp::AuthenticatedRequest
  ListRequests,   \* calls of RoutedOp::ListServices
  Malformed,      \* calls whose params fall outside the canonical domain
  Oversize,       \* calls whose ApprovalRequest may be too large to encode
  Unloggable,     \* bound: the calls for which an append may fail
  NoReq,          \* "no call"
  MaxSessions,    \* bound: sessions one log may see
  MaxRivals,      \* bound: daemons started while one is running
  RouteQueueCap,  \* ROUTE_QUEUE_CAP (8 in the code)
  CmdCap,         \* capacity of the command channel (32 in the code)
  PumpCap,        \* capacity of a session's timer event channel (8)
  InboxCap        \* bound: phone messages delivered but not yet read

Requests == AuthRequests \cup ListRequests
Epochs   == 1 .. MaxSessions

ASSUME RequestsAssumption ==
  /\ AuthRequests \cap ListRequests = {}
  /\ Malformed \subseteq AuthRequests
  /\ Oversize \subseteq AuthRequests
  /\ Unloggable \subseteq Requests
  /\ NoReq \notin Requests

ASSUME BoundsAssumption ==
  /\ MaxSessions \in Nat
  /\ MaxRivals \in Nat
  /\ RouteQueueCap \in Nat
  /\ CmdCap \in Nat
  /\ PumpCap \in Nat
  /\ InboxCap \in Nat

VARIABLES
  \* --- durable: the execution log ---
  trail,       \* [Requests -> Seq(EventType)]: rows of each req_id, in order
  endRows,     \* [Epochs -> Nat]: session_end rows written for each session
  \* --- the owner task ---
  pc,          \* the point the owner task has reached; "down": no daemon serves
  cur,         \* the call a half-done handler is working on, or NoReq
  keeps,       \* a teardown whose caller leaves the ended session in the slot
  slot,        \* Option<ActiveParts> is Some
  active,      \* the watch channel behind SessionHandle::is_active
  epoch,       \* how many sessions have been established
  core,        \* state of the core Session in the slot
  flight,      \* ActiveParts.in_flight
  routeQueue,  \* ActiveParts.route_queue
  consumed,    \* tombstones of the session's ApprovedRequestTracker
  \* --- channels ---
  cmdq,        \* SessionCmd queue
  watchdog,    \* the session's timer watchdog
  pump,        \* [Epochs -> Seq(TimerEvent)]: each session's pump task
  link,        \* the phone link is usable
  inbox,       \* messages of the phone, in order
  \* --- a daemon process that is starting up ---
  starting,    \* there is one, and it is at its sweep
  toSweep,     \* the calls its sweep has still to close
  rivals,      \* how many were started while another daemon served
  \* --- clients ---
  reply,       \* what each caller has been told
  \* --- history, never read by the owner ---
  unlogged,    \* calls one of whose rows could not be appended
  contested,   \* calls that were open while a second daemon started up
  cutShort,    \* sessions whose session_end row failed or whose daemon died
  sent,        \* [Requests -> Seq(_)]: messages that reached the phone
  approvedBy,  \* <<r, e>>: the phone signed "approved" for r in session e
  resultBy,    \* r: the phone signed an ExecuteResponse for r
  thisLife     \* calls first logged by the running daemon process

record   == <<trail, unlogged, contested>>
ends     == <<endRows, cutShort>>
durable  == <<record, ends>>
session  == <<slot, active, epoch, core, flight, routeQueue, consumed>>
channels == <<cmdq, watchdog, pump, link, inbox>>
others   == <<approvedBy, resultBy, starting, toSweep, rivals>>
history  == <<sent, thisLife, others>>
vars     == <<durable, pc, cur, keeps, session, channels, reply, history>>

-----------------------------------------------------------------------------
(* Types *)

TerminalEvents == {"execute_result", "approval_denied", "request_timeout"}
EventTypes == TerminalEvents \cup
  {"approval_request", "list_services_request", "approval_granted",
   "execute_sent"}

Answers == {"body", "services", "denied", "timeout", "sig_invalid",
            "session_ended", "no_session", "busy", "internal", "lost"}

TimerEvents == {"warning_due", "idle_expired", "hard_cap"}

Cmds ==
  [kind : {"start", "end"}]
    \cup [kind : {"route"}, req : Requests]
    \cup [kind : {"timer"}, ev : TimerEvents, of : Epochs]

Decisions == {"approved", "denied", "expired"}

PhoneMsgs ==
  [kind : {"approval_response"}, req : Requests, decision : Decisions,
   sig : BOOLEAN]
    \cup [kind : {"execute_response"}, req : Requests, sig : BOOLEAN]
    \cup [kind : {"list_services_response"}, req : Requests]
    \cup [kind : {"session_end", "ping", "other", "garbage"}]

Sends == [kind : {"approval_request", "execute_request",
                  "list_services_request"}, during : Epochs]

Stages   == {"approval", "execute", "services"}
NoFlight == [stage |-> "none", req |-> NoReq]
Flights  == {NoFlight} \cup [stage : Stages, req : Requests]

Ending  == {"waiters", "end_row", "publish", "leave"}
Running == Ending \cup {"select", "dial", "drain", "route_send", "granted",
                        "execute_send"}

TypeOK ==
  /\ trail \in [Requests -> Seq(EventTypes)]
  /\ endRows \in [Epochs -> Nat]
  /\ pc \in Running \cup {"down"}
  /\ cur \in Requests \cup {NoReq} /\ keeps \in BOOLEAN
  /\ slot \in BOOLEAN
  /\ active \in BOOLEAN
  /\ epoch \in 0 .. MaxSessions
  /\ core \in {"active", "idle_warning", "ended"}
  /\ flight \in Flights
  /\ routeQueue \in Seq(Requests) /\ Len(routeQueue) <= RouteQueueCap
  /\ consumed \subseteq Requests
  /\ cmdq \in Seq(Cmds) /\ Len(cmdq) <= CmdCap
  /\ watchdog \in {"off", "armed", "warned", "fired"}
  /\ pump \in [Epochs -> Seq(TimerEvents)]
  /\ link \in BOOLEAN
  /\ inbox \in Seq(PhoneMsgs)
  /\ reply \in [Requests -> Answers \cup {"none", "pending"}]
  /\ sent \in [Requests -> Seq(Sends)]
  /\ approvedBy \subseteq Requests \X Epochs
  /\ resultBy \subseteq Requests
  /\ thisLife \subseteq Requests
  /\ starting \in BOOLEAN /\ toSweep \subseteq Requests /\ rivals \in Nat
  /\ unlogged \subseteq Requests /\ contested \subseteq Requests
  /\ cutShort \subseteq Epochs

-----------------------------------------------------------------------------
(* Helpers *)

Newest(rows) == rows[Len(rows)]
HasRow(rows, ev) == \E i \in 1 .. Len(rows) : rows[i] = ev

Live == core \in {"active", "idle_warning"}

(* A req_id whose newest row is not terminal: what the sweep looks for. *)
Orphan(r) == trail[r] # <<>> /\ Newest(trail[r]) \notin TerminalEvents
Orphans == {r \in Requests : Orphan(r)}

(* log_req: the row is appended, or the append fails and its error is      *)
(* dropped (let _ = self.deps.log.append).                                 *)
Log(r, ev) ==
  /\ \/ trail' = [trail EXCEPT ![r] = Append(@, ev)] /\ UNCHANGED unlogged
     \/ r \in Unloggable /\ unlogged' = unlogged \cup {r} /\ UNCHANGED trail
  /\ contested' = IF starting THEN contested \cup {r} ELSE contested

Answer(rs, a) == [r \in Requests |-> IF r \in rs THEN a ELSE reply[r]]

Elements(s) == {s[i] : i \in 1 .. Len(s)}

FirstRow(r)  == IF r \in AuthRequests THEN "approval_request"
                                      ELSE "list_services_request"
RouteStage(r) == IF r \in AuthRequests THEN "approval" ELSE "services"

(* on_activity: rescue from IDLE_WARNING, reset the watchdog. *)
CoreOnActivity == IF Live THEN "active" ELSE core
WatchdogOnActivity ==
  IF watchdog = "warned" /\ Live THEN "armed" ELSE watchdog

-----------------------------------------------------------------------------
Init ==
  /\ trail = [r \in Requests |-> <<>>]
  /\ endRows = [e \in Epochs |-> 0]
  /\ pc = "select" /\ cur = NoReq /\ keeps = FALSE
  /\ slot = FALSE /\ active = FALSE /\ epoch = 0 /\ core = "ended"
  /\ flight = NoFlight /\ routeQueue = <<>> /\ consumed = {}
  /\ cmdq = <<>> /\ watchdog = "off" /\ pump = [e \in Epochs |-> <<>>]
  /\ link = FALSE /\ inbox = <<>>
  /\ reply = [r \in Requests |-> "none"]
  /\ sent = [r \in Requests |-> <<>>]
  /\ approvedBy = {} /\ resultBy = {} /\ thisLife = {}
  /\ starting = FALSE /\ toSweep = {} /\ rivals = 0
  /\ unlogged = {} /\ contested = {} /\ cutShort = {}

-----------------------------------------------------------------------------
(* Callers (dispatch in the daemon's lib.rs) and the owner's other inputs. *)

Serving == pc \in Running

(* dispatch: the cold-start gate reads the watch channel, then the call is *)
(* sent down the command channel.                                          *)
Submit(r) ==
  /\ Serving
  /\ reply[r] = "none"
  /\ IF active
       THEN /\ Len(cmdq) < CmdCap
            /\ cmdq' = Append(cmdq, [kind |-> "route", req |-> r])
            /\ reply' = [reply EXCEPT ![r] = "pending"]
       ELSE /\ reply' = [reply EXCEPT ![r] = "no_session"]
            /\ UNCHANGED cmdq
  /\ UNCHANGED <<durable, pc, cur, keeps, session, watchdog, pump, link, inbox,
                 history>>

AskSession(kind) ==
  /\ Serving
  /\ Len(cmdq) < CmdCap
  /\ cmdq' = Append(cmdq, [kind |-> kind])
  /\ UNCHANGED <<durable, pc, cur, keeps, session, watchdog, pump, link, inbox,
                 reply, history>>

(* The watchdog: warning, then expiry; the hard cap at any time.           *)
WatchdogFires(ev) ==
  /\ \/ ev = "warning_due" /\ watchdog = "armed" /\ watchdog' = "warned"
     \/ ev = "idle_expired" /\ watchdog = "warned" /\ watchdog' = "fired"
     \/ ev = "hard_cap" /\ watchdog \in {"armed", "warned"}
                        /\ watchdog' = "fired"
  /\ Len(pump[epoch]) < PumpCap
  /\ pump' = [pump EXCEPT ![epoch] = Append(@, ev)]
  /\ UNCHANGED <<durable, pc, cur, keeps, session, cmdq, link, inbox, reply, history>>

(* The pump task of session e forwards one timer event.  The code's        *)
(* SessionCmd::Timer carries the event only; the field "of" is history.    *)
Pump(e) ==
  /\ pump[e] # <<>>
  /\ Len(cmdq) < CmdCap
  /\ cmdq' = Append(cmdq, [kind |-> "timer", ev |-> Head(pump[e]), of |-> e])
  /\ pump' = [pump EXCEPT ![e] = Tail(@)]
  /\ UNCHANGED <<durable, pc, cur, keeps, session, watchdog, link, inbox, reply,
                 history>>

(* Any message an authenticated phone can produce: it can only answer a    *)
(* req_id it has seen.  A signature that does not verify is sig = FALSE.   *)
PhoneSends(m) ==
  /\ link /\ Live
  /\ Len(inbox) < InboxCap
  /\ "req" \in DOMAIN m => sent[m.req] # <<>>
  /\ inbox' = Append(inbox, m)
  /\ approvedBy' =
       IF m.kind = "approval_response" /\ m.decision = "approved" /\ m.sig
         THEN approvedBy \cup {<<m.req, epoch>>} ELSE approvedBy
  /\ resultBy' = IF m.kind = "execute_response" /\ m.sig
                   THEN resultBy \cup {m.req} ELSE resultBy
  /\ UNCHANGED <<durable, pc, cur, keeps, session, cmdq, watchdog, pump, link, reply,
                 sent, thisLife, starting, toSweep, rivals>>

LinkDrops ==
  /\ link
  /\ link' = FALSE
  /\ UNCHANGED <<durable, pc, cur, keeps, session, cmdq, watchdog, pump, inbox, reply,
                 history>>

-----------------------------------------------------------------------------
(* Ending a session (teardown).  It runs through without an await, but the *)
(* callers, the log and the watch are other threads' to see, and the       *)
(* process may die in between.                                             *)

InFlightOrQueued == Elements(routeQueue) \cup ({flight.req} \ {NoReq})

(* The session ends, and with it its watchdog and the link.  "keep" is     *)
(* whether the caller leaves the ended session in the slot.                *)
Teardown(keep) ==
  /\ core' = "ended" /\ watchdog' = "off"
  /\ link' = FALSE /\ inbox' = <<>>
  /\ keeps' = keep
  /\ pc' = "waiters"
  /\ UNCHANGED <<slot, active, epoch, flight, routeQueue, consumed, pump, reply>>

(* Seeded fault: the queued callers are left behind. *)
AnswerFlightOnly ==
  /\ pc = "waiters"
  /\ reply' = Answer({flight.req} \ {NoReq}, "session_ended")
  /\ flight' = NoFlight /\ routeQueue' = <<>>
  /\ pc' = "end_row"
  /\ UNCHANGED <<durable, cur, keeps, slot, active, epoch, core, consumed,
                 channels, history>>

(* The waiters are answered one by one: the flight, then the queue.        *)
AnswerWaiter ==
  /\ pc = "waiters"
  /\ \/ /\ flight # NoFlight
        /\ reply' = [reply EXCEPT ![flight.req] = "session_ended"]
        /\ flight' = NoFlight
        /\ UNCHANGED <<pc, routeQueue>>
     \/ /\ flight = NoFlight /\ routeQueue # <<>>
        /\ reply' = [reply EXCEPT ![Head(routeQueue)] = "session_ended"]
        /\ routeQueue' = Tail(routeQueue)
        /\ UNCHANGED <<pc, flight>>
     \/ /\ flight = NoFlight /\ routeQueue = <<>>
        /\ pc' = "end_row"
        /\ UNCHANGED <<reply, flight, routeQueue>>
  /\ UNCHANGED <<durable, cur, keeps, slot, active, epoch, core, consumed,
                 channels, history>>

(* Seeded fault: the watch is told before the row is written. *)
PublishBeforeRow ==
  /\ pc = "end_row"
  /\ active' = FALSE
  /\ pc' = "publish"
  /\ UNCHANGED <<durable, cur, keeps, slot, epoch, core, flight, routeQueue,
                 consumed, channels, reply, history>>

(* The session_end row, or a failed append. *)
LogEnd ==
  /\ pc = "end_row"
  /\ \/ endRows' = [endRows EXCEPT ![epoch] = @ + 1] /\ UNCHANGED cutShort
     \/ cutShort' = cutShort \cup {epoch} /\ UNCHANGED endRows
  /\ pc' = "publish"
  /\ UNCHANGED <<record, cur, keeps, session, channels, reply, history>>

(* active_tx.send(false). *)
Publish ==
  /\ pc = "publish"
  /\ active' = FALSE
  /\ pc' = "leave"
  /\ UNCHANGED <<durable, cur, keeps, slot, epoch, core, flight, routeQueue,
                 consumed, channels, reply, history>>

(* Back in the handler: the slot is emptied, unless start_route failed to  *)
(* send, and the caller a half-done handler holds is answered.             *)
Leave ==
  /\ pc = "leave"
  /\ slot' = keeps /\ keeps' = FALSE
  /\ reply' = Answer({cur} \ {NoReq}, "session_ended")
  /\ pc' = "select" /\ cur' = NoReq
  /\ UNCHANGED <<durable, active, epoch, core, flight, routeQueue, consumed,
                 channels, history>>

-----------------------------------------------------------------------------
(* Commands (on_command).                                                  *)

NextCmd(kind) ==
  /\ pc = "select" /\ cmdq # <<>>
  /\ Head(cmdq).kind = kind
  /\ cmdq' = Tail(cmdq)

OnStart ==
  /\ NextCmd("start")
  /\ pc' = IF slot THEN "select" ELSE "dial"
  /\ UNCHANGED <<durable, cur, keeps, session, watchdog, pump, link, inbox, reply,
                 history>>

(* begin_session reached ACTIVE. *)
DialSucceeds ==
  /\ pc = "dial" /\ epoch < MaxSessions
  /\ epoch' = epoch + 1
  /\ slot' = TRUE /\ active' = TRUE /\ core' = "active"
  /\ flight' = NoFlight /\ routeQueue' = <<>> /\ consumed' = {}
  /\ watchdog' = "armed" /\ link' = TRUE /\ inbox' = <<>>
  /\ pc' = "select"
  /\ UNCHANGED <<durable, cur, keeps, cmdq, pump, reply, history>>

(* No pairing, phone unreachable within the budget, or handshake failure. *)
DialFails ==
  /\ pc = "dial"
  /\ pc' = "select"
  /\ UNCHANGED <<durable, cur, keeps, session, channels, reply, history>>

OnEnd ==
  /\ NextCmd("end")
  /\ IF slot
       THEN Teardown(FALSE)
       ELSE UNCHANGED <<pc, keeps, session, watchdog, pump, link, inbox, reply>>
  /\ UNCHANGED <<durable, cur, history>>

(* Whether a timer event ends the session (handle_timer_event). *)
EndsSession(ev) == ev \in {"idle_expired", "hard_cap"}

OnTimer ==
  /\ NextCmd("timer")
  /\ IF slot /\ EndsSession(Head(cmdq).ev)
       THEN Teardown(FALSE)
       ELSE /\ core' = IF slot /\ core = "active" /\ Head(cmdq).ev = "warning_due"
                        THEN "idle_warning" ELSE core
            /\ UNCHANGED <<pc, keeps, slot, active, epoch, flight, routeQueue,
                           consumed, watchdog, pump, link, inbox, reply>>
  /\ UNCHANGED <<durable, cur, history>>

(* start_route up to the send: a call outside the canonical domain is      *)
(* answered at once, any other is logged; one that turns out too large to  *)
(* encode is then answered, the rest go on to the send.                    *)
StartRoute(r) ==
  \/ /\ r \in Malformed
     /\ reply' = [reply EXCEPT ![r] = "internal"]
     /\ pc' = "select"
     /\ UNCHANGED <<record, cur, thisLife>>
  \/ /\ r \notin Malformed
     /\ Log(r, FirstRow(r))
     /\ thisLife' = thisLife \cup {r}
     /\ \/ /\ r \in Oversize
           /\ reply' = [reply EXCEPT ![r] = "internal"]
           /\ pc' = "select"
           /\ UNCHANGED cur
        \/ /\ cur' = r
           /\ pc' = "route_send"
           /\ UNCHANGED reply

QueueOverfull == Len(routeQueue) > RouteQueueCap   \* seeded fault: off by one
QueueFull     == Len(routeQueue) >= RouteQueueCap

OnRoute ==
  /\ NextCmd("route")
  /\ LET r == Head(cmdq).req IN
       \/ /\ ~slot
          /\ reply' = [reply EXCEPT ![r] = "no_session"]
          /\ UNCHANGED <<record, thisLife, pc, cur, routeQueue>>
       \/ /\ slot /\ flight # NoFlight /\ QueueFull
          /\ reply' = [reply EXCEPT ![r] = "busy"]
          /\ UNCHANGED <<record, thisLife, pc, cur, routeQueue>>
       \/ /\ slot /\ flight # NoFlight /\ ~QueueFull
          /\ routeQueue' = Append(routeQueue, r)
          /\ UNCHANGED <<record, thisLife, pc, cur, reply>>
       \/ /\ slot /\ flight = NoFlight
          /\ StartRoute(r)
          /\ UNCHANGED routeQueue
  /\ UNCHANGED <<ends, keeps, slot, active, epoch, core, flight, consumed,
                 watchdog, pump, link, inbox, sent, others>>

(* drain_route_queue: start the next queued call, if any.                  *)
Drain ==
  /\ pc = "drain"
  /\ IF routeQueue = <<>>
       THEN /\ pc' = "select"
            /\ UNCHANGED <<record, thisLife, cur, reply, routeQueue>>
       ELSE /\ StartRoute(Head(routeQueue))
            /\ routeQueue' = Tail(routeQueue)
  /\ UNCHANGED <<ends, keeps, slot, active, epoch, core, flight, consumed,
                 cmdq, watchdog, pump, link, inbox, sent, others>>

Send(r, kind) ==
  sent' = [sent EXCEPT ![r] = Append(@, [kind |-> kind, during |-> epoch])]

(* The rest of start_route: transmit, then install the flight.  Installing *)
(* over a flight that is still there drops that caller's reply sender.     *)
RouteSent ==
  /\ pc = "route_send" /\ link /\ Live
  /\ Send(cur, FirstRow(cur))
  /\ flight' = [stage |-> RouteStage(cur), req |-> cur]
  /\ reply' = Answer({flight.req} \ {NoReq}, "lost")
  /\ core' = CoreOnActivity /\ watchdog' = WatchdogOnActivity
  /\ pc' = "select" /\ cur' = NoReq
  /\ UNCHANGED <<durable, keeps, slot, active, epoch, routeQueue, consumed, cmdq,
                 pump, link, inbox, thisLife, others>>

(* The send failed: full teardown, and this caller is answered too.  A     *)
(* failed radio write may still have delivered the message; on a session   *)
(* that had already ended nothing is written.                              *)
RouteSendFails ==
  /\ pc = "route_send"
  /\ ~link \/ ~Live
  /\ \/ UNCHANGED sent
     \/ Live /\ Send(cur, FirstRow(cur))
  /\ Teardown(TRUE)
  /\ UNCHANGED <<durable, cur, cmdq, thisLife, others>>

-----------------------------------------------------------------------------
(* Inbound chunks (on_chunk), one application message per step.            *)

NextMsg(kind) ==
  /\ pc = "select" /\ slot /\ inbox # <<>>
  /\ Head(inbox).kind = kind

(* The in-flight call the message at the head of the inbox answers. *)
Completes(stage) == flight = [stage |-> stage, req |-> Head(inbox).req]

(* A transport error ends the session. *)
OnLinkError ==
  /\ pc = "select" /\ slot /\ ~link
  /\ Teardown(FALSE)
  /\ UNCHANGED <<durable, cur, cmdq, history>>

(* SessionEnd from the phone; a framing, decryption or decoding error. *)
OnTerminalMessage ==
  /\ NextMsg("session_end") \/ NextMsg("garbage")
  /\ Teardown(FALSE)
  /\ UNCHANGED <<durable, cur, cmdq, history>>

(* Ping counts as activity and is answered; a failed Pong is terminal. *)
OnPing ==
  /\ NextMsg("ping")
  /\ IF link
       THEN /\ core' = CoreOnActivity /\ watchdog' = WatchdogOnActivity
            /\ inbox' = Tail(inbox)
            /\ UNCHANGED <<pc, keeps, slot, active, epoch, flight, routeQueue,
                           consumed, pump, link, reply>>
       ELSE Teardown(FALSE)
  /\ UNCHANGED <<durable, cur, cmdq, history>>

(* Traffic no stage is waiting for: late, mismatched or unprompted. *)
OnUnsolicited ==
  /\ \/ NextMsg("other")
     \/ NextMsg("approval_response") /\ ~Completes("approval")
     \/ NextMsg("execute_response") /\ ~Completes("execute")
     \/ NextMsg("list_services_response") /\ ~Completes("services")
  /\ inbox' = Tail(inbox)
  /\ UNCHANGED <<durable, pc, cur, keeps, session, cmdq, watchdog, pump, link, reply,
                 history>>

(* finish_approval without an approval: bad signature, denied or expired.  *)
OnApprovalRefused ==
  /\ NextMsg("approval_response") /\ Completes("approval")
  /\ LET m == Head(inbox) IN
       \/ /\ ~m.sig
          /\ reply' = [reply EXCEPT ![m.req] = "sig_invalid"]
          /\ UNCHANGED record
       \/ /\ m.sig /\ m.decision # "approved"
          /\ Log(m.req, "approval_denied")
          /\ reply' = [reply EXCEPT ![m.req] =
                         IF m.decision = "denied" THEN "denied" ELSE "timeout"]
  /\ flight' = NoFlight
  /\ inbox' = Tail(inbox)
  /\ pc' = "drain"
  /\ UNCHANGED <<ends, cur, keeps, slot, active, epoch, core, routeQueue, consumed,
                 cmdq, watchdog, pump, link, history>>

(* Seeded fault: the decision is believed without its signature. *)
GrantUnverified ==
  /\ NextMsg("approval_response") /\ Completes("approval")
  /\ Head(inbox).decision = "approved"
  /\ Log(flight.req, "approval_granted")
  /\ cur' = flight.req
  /\ flight' = NoFlight
  /\ inbox' = Tail(inbox)
  /\ pc' = "granted"
  /\ UNCHANGED <<ends, keeps, slot, active, epoch, core, routeQueue, consumed,
                 cmdq, watchdog, pump, link, reply, history>>

(* Seeded fault: the approval is tombstoned as soon as it arrives. *)
GrantTombstonesEarly ==
  /\ NextMsg("approval_response") /\ Completes("approval")
  /\ Head(inbox).sig /\ Head(inbox).decision = "approved"
  /\ Log(flight.req, "approval_granted")
  /\ cur' = flight.req
  /\ consumed' = consumed \cup {flight.req}
  /\ flight' = NoFlight
  /\ inbox' = Tail(inbox)
  /\ pc' = "granted"
  /\ UNCHANGED <<ends, keeps, slot, active, epoch, core, routeQueue,
                 cmdq, watchdog, pump, link, reply, history>>

(* finish_approval, approved: the decision is logged first. *)
OnApprovalGranted ==
  /\ NextMsg("approval_response") /\ Completes("approval")
  /\ Head(inbox).sig /\ Head(inbox).decision = "approved"
  /\ Log(flight.req, "approval_granted")
  /\ cur' = flight.req
  /\ flight' = NoFlight
  /\ inbox' = Tail(inbox)
  /\ pc' = "granted"
  /\ UNCHANGED <<ends, keeps, slot, active, epoch, core, routeQueue, consumed,
                 cmdq, watchdog, pump, link, reply, history>>

(* Seeded fault: the execute_sent row is not written before the send. *)
BindWithoutRow ==
  /\ pc = "granted"
  /\ consumed' = consumed \cup {cur}
  /\ pc' = "execute_send"
  /\ UNCHANGED <<durable, cur, keeps, slot, active, epoch, core, flight, routeQueue,
                 channels, reply, history>>

(* record_approval + validate_execute consume the approval, then the       *)
(* execute_sent row is written.  A req_id already consumed is refused.     *)
BindExecute ==
  /\ pc = "granted"
  /\ IF cur \in consumed
       THEN /\ reply' = [reply EXCEPT ![cur] = "internal"]
            /\ pc' = "drain" /\ cur' = NoReq
            /\ UNCHANGED <<record, consumed>>
       ELSE /\ consumed' = consumed \cup {cur}
            /\ Log(cur, "execute_sent")
            /\ pc' = "execute_send"
            /\ UNCHANGED <<cur, reply>>
  /\ UNCHANGED <<ends, keeps, slot, active, epoch, core, flight, routeQueue,
                 channels, history>>

(* The ExecuteRequest goes out; the flight is re-installed for the result, *)
(* and try_complete_route then drains the queue.                           *)
ExecuteSent ==
  /\ pc = "execute_send" /\ link
  /\ Send(cur, "execute_request")
  /\ flight' = [stage |-> "execute", req |-> cur]
  /\ core' = CoreOnActivity /\ watchdog' = WatchdogOnActivity
  /\ pc' = "drain" /\ cur' = NoReq
  /\ UNCHANGED <<durable, keeps, slot, active, epoch, routeQueue, consumed, cmdq,
                 pump, link, inbox, reply, thisLife, others>>

(* Seeded fault: a failed radio write is retried. *)
ExecuteSendRetries ==
  /\ pc = "execute_send" /\ ~link
  /\ Send(cur, "execute_request")
  /\ Len(sent[cur]) < 3
  /\ UNCHANGED <<durable, pc, cur, keeps, session, channels, reply,
                 thisLife, others>>

ExecuteSendFails ==
  /\ pc = "execute_send" /\ ~link
  /\ UNCHANGED sent \/ Send(cur, "execute_request")
  /\ Teardown(FALSE)
  /\ UNCHANGED <<durable, cur, cmdq, thisLife, others>>

(* Seeded fault: the body is handed over whether or not it verifies. *)
ResultUnverified ==
  /\ NextMsg("execute_response") /\ Completes("execute")
  /\ Log(flight.req, "execute_result")
  /\ reply' = [reply EXCEPT ![flight.req] = "body"]
  /\ flight' = NoFlight
  /\ inbox' = Tail(inbox)
  /\ pc' = "drain"
  /\ UNCHANGED <<ends, cur, keeps, slot, active, epoch, core, routeQueue, consumed,
                 cmdq, watchdog, pump, link, history>>

(* finish_execute. *)
OnExecuteResponse ==
  /\ NextMsg("execute_response") /\ Completes("execute")
  /\ IF Head(inbox).sig
       THEN /\ Log(flight.req, "execute_result")
            /\ reply' = [reply EXCEPT ![flight.req] = "body"]
       ELSE /\ reply' = [reply EXCEPT ![flight.req] = "sig_invalid"]
            /\ UNCHANGED record
  /\ flight' = NoFlight
  /\ inbox' = Tail(inbox)
  /\ pc' = "drain"
  /\ UNCHANGED <<ends, cur, keeps, slot, active, epoch, core, routeQueue, consumed,
                 cmdq, watchdog, pump, link, history>>

(* A services list is handed over without a terminal row. *)
OnServicesResponse ==
  /\ NextMsg("list_services_response") /\ Completes("services")
  /\ reply' = [reply EXCEPT ![flight.req] = "services"]
  /\ flight' = NoFlight
  /\ inbox' = Tail(inbox)
  /\ pc' = "drain"
  /\ UNCHANGED <<durable, cur, keeps, slot, active, epoch, core, routeQueue, consumed,
                 cmdq, watchdog, pump, link, history>>

(* Seeded fault: the timed-out flight is not taken out of the slot. *)
TimeoutKeepsFlight ==
  /\ pc = "select" /\ slot /\ flight # NoFlight
  /\ Len(trail[flight.req]) < 5
  /\ Log(flight.req, "request_timeout")
  /\ reply' = [reply EXCEPT ![flight.req] = "timeout"]
  /\ pc' = "drain"
  /\ UNCHANGED <<ends, cur, keeps, session, channels, history>>

(* route_timed_out: the flight's deadline passed. *)
RouteTimesOut ==
  /\ pc = "select" /\ slot /\ flight # NoFlight
  /\ Log(flight.req, "request_timeout")
  /\ reply' = [reply EXCEPT ![flight.req] =
                 IF flight.stage = "services" THEN "internal" ELSE "timeout"]
  /\ flight' = NoFlight
  /\ pc' = "drain"
  /\ UNCHANGED <<ends, cur, keeps, slot, active, epoch, core, routeQueue, consumed,
                 channels, history>>

-----------------------------------------------------------------------------
(* Daemon processes: the one that serves may die at any point, and another *)
(* may start at any time, also beside it: run_with sweeps the log before   *)
(* the socket tells it whether somebody is serving.                        *)

Crash ==
  /\ pc # "down"
  /\ pc' = "down" /\ cur' = NoReq /\ keeps' = FALSE
  /\ slot' = FALSE /\ active' = FALSE /\ core' = "ended"
  /\ flight' = NoFlight /\ routeQueue' = <<>> /\ consumed' = {}
  /\ cmdq' = <<>> /\ watchdog' = "off" /\ pump' = [e \in Epochs |-> <<>>]
  /\ link' = FALSE /\ inbox' = <<>>
  /\ reply' = Answer({r \in Requests : reply[r] = "pending"}, "lost")
  /\ cutShort' = IF active THEN cutShort \cup {epoch} ELSE cutShort
  /\ UNCHANGED <<record, endRows, epoch, history>>

(* sweep_orphaned_requests reads the log once and lists the open calls.    *)
Launch ==
  /\ ~starting
  /\ Serving => rivals < MaxRivals
  /\ starting' = TRUE /\ toSweep' = Orphans
  /\ rivals' = IF Serving THEN rivals + 1 ELSE rivals
  /\ contested' = IF Serving THEN contested \cup Orphans ELSE contested
  /\ UNCHANGED <<trail, unlogged, ends, pc, cur, keeps, session, channels,
                 reply, sent, thisLife, approvedBy, resultBy>>

(* It closes them one by one, by what it read ... *)
SweepOne(r) ==
  /\ starting /\ r \in toSweep
  /\ trail' = [trail EXCEPT ![r] = Append(@, "request_timeout")]
  /\ toSweep' = toSweep \ {r}
  /\ UNCHANGED <<unlogged, contested, ends, pc, cur, keeps, session, channels,
                 reply, sent, thisLife, approvedBy, resultBy, starting, rivals>>

(* ... unless an append fails, which ends it, or something else does. *)
LaunchFails ==
  /\ starting
  /\ starting' = FALSE /\ toSweep' = {}
  /\ UNCHANGED <<durable, pc, cur, keeps, session, channels, reply, sent,
                 thisLife, approvedBy, resultBy, rivals>>

(* What happens at the socket: it serves, unless another daemon does. *)
TakesOver ==
  /\ pc' = IF Serving THEN pc ELSE "select"
  /\ thisLife' = IF Serving THEN thisLife ELSE {}
  /\ starting' = FALSE /\ toSweep' = {}
  /\ UNCHANGED <<durable, cur, keeps, session, channels, reply, sent,
                 approvedBy, resultBy, rivals>>

(* Seeded fault: the socket binds before the sweep is through. *)
ServeBeforeSwept == starting /\ TakesOver

SweepDone == starting /\ toSweep = {} /\ TakesOver

-----------------------------------------------------------------------------
Environment ==
  \/ \E r \in Requests : Submit(r)
  \/ \E kind \in {"start", "end"} : AskSession(kind)
  \/ \E ev \in TimerEvents : WatchdogFires(ev)
  \/ \E e \in Epochs : Pump(e)
  \/ \E m \in PhoneMsgs : PhoneSends(m)
  \/ LinkDrops

Commands == OnStart \/ OnEnd \/ OnTimer \/ OnRoute

Inbound ==
  \/ OnLinkError \/ OnTerminalMessage \/ OnPing \/ OnUnsolicited
  \/ OnApprovalRefused \/ OnApprovalGranted
  \/ OnExecuteResponse \/ OnServicesResponse

(* Steps the owner task takes without waiting for an input. *)
Continue ==
  \/ DialSucceeds \/ DialFails \/ Drain \/ RouteSent \/ RouteSendFails
  \/ BindExecute \/ ExecuteSent \/ ExecuteSendFails
  \/ AnswerWaiter \/ LogEnd \/ Publish \/ Leave

Process ==
  \/ Crash \/ Launch \/ (\E r \in Requests : SweepOne(r))
  \/ LaunchFails \/ SweepDone

Next == Environment \/ Commands \/ Inbound \/ Continue \/ RouteTimesOut
        \/ Process

Spec == Init /\ [][Next]_vars

-----------------------------------------------------------------------------
(* Safety *)

SentIn(r, kind, e) ==
  \E i \in 1 .. Len(sent[r]) : sent[r][i] = [kind |-> kind, during |-> e]

(* An ExecuteRequest reaches the phone only for a call the phone was asked *)
(* about in that same session and approved, with a valid signature, in     *)
(* that same session: finish_approval verifies before it acts, and         *)
(* approvals never survive a session boundary.                             *)
ExecuteNeedsApproval ==
  \A r \in Requests, e \in Epochs :
    SentIn(r, "execute_request", e) =>
      /\ <<r, e>> \in approvedBy
      /\ SentIn(r, "approval_request", e)

(* A call is executed at most once: approvals are consumed on first use,   *)
(* whatever the phone answers, repeats or delays.                          *)
ExecuteAtMostOnce ==
  \A r \in Requests :
    \A i, j \in 1 .. Len(sent[r]) :
      sent[r][i].kind = "execute_request" /\ sent[r][j].kind = "execute_request"
        => i = j

(* The log is written ahead of the radio: whatever the phone may have      *)
(* executed or been asked has its row, even if the daemon died in between, *)
(* unless an append for that very call failed.                             *)
WriteAhead ==
  \A r \in Requests \ unlogged :
    /\ sent[r] # <<>> => HasRow(trail[r], FirstRow(r))
    /\ (\E e \in Epochs : SentIn(r, "execute_request", e)) =>
         HasRow(trail[r], "execute_sent")

(* A call whose refusal is on record was never sent for execution, a body  *)
(* handed to a caller was signed by the phone, and both outcomes are on    *)
(* record unless an append for the call failed.                            *)
OutcomeMatchesRecord ==
  \A r \in Requests :
    /\ HasRow(trail[r], "approval_denied") =>
         \A e \in Epochs : ~SentIn(r, "execute_request", e)
    /\ reply[r] = "denied" =>
         HasRow(trail[r], "approval_denied") \/ r \in unlogged
    /\ reply[r] = "body" =>
         /\ r \in resultBy
         /\ HasRow(trail[r], "execute_result") \/ r \in unlogged

(* The callers still waiting are exactly those some part of the owner      *)
(* still holds: nobody is forgotten in the queue, the slot or a half-done  *)
(* handler, and nobody is answered twice.                                  *)
HeldInQueue == {c.req : c \in {d \in Elements(cmdq) : d.kind = "route"}}
CallersAccountedFor ==
  {r \in Requests : reply[r] = "pending"}
     = HeldInQueue \cup InFlightOrQueued \cup ({cur} \ {NoReq})

(* When the watch says that no session is active, the session_end row of  *)
(* every session there was has been written (or its append failed, or its  *)
(* daemon died): shutdown reads the watch and goes on to checkpoint the    *)
(* database (teardown: "the log row lands before any shutdown waiter       *)
(* proceeds").                                                             *)
EndIsOnRecord ==
  \A e \in 1 .. epoch :
    e < epoch \/ ~active => endRows[e] > 0 \/ e \in cutShort

(* The "binding failure" and "approval mismatch" arms of finish_approval   *)
(* are unreachable, as its comment argues.                                 *)
GrantAlwaysBinds == pc = "granted" => cur \notin consumed

(* While the daemon serves, a log trail without a terminal row belongs to  *)
(* a call of this process: the sweep left nothing from an earlier life,    *)
(* but for calls that were open when a second daemon had started.          *)
OrphansAreOurs == Serving => Orphans \subseteq thisLife \cup contested

(* A terminal row closes a req_id: a late answer, a timeout racing it or a *)
(* restart never appends another row.  Only a second daemon's sweep, which *)
(* does not ask whether the call is alive, can break this, and only for    *)
(* the calls that were open while it started.                              *)
TerminalIsFinal ==
  [][\A r \in Requests \ contested' :
       trail[r] # <<>> /\ Newest(trail[r]) \in TerminalEvents
         => trail'[r] = trail[r]]_vars

-----------------------------------------------------------------------------
(* The phases of a call, as a reader of the log sees them. *)

PhaseOf(rows) ==
  IF rows = <<>> THEN "unseen"
  ELSE CASE Newest(rows) \in {"approval_request", "list_services_request"}
              -> "asked"
         [] Newest(rows) = "approval_granted" -> "granted"
         [] Newest(rows) = "execute_sent"     -> "executing"
         [] Newest(rows) = "execute_result"   -> "finished"
         [] Newest(rows) = "approval_denied"  -> "refused"
         [] Newest(rows) = "request_timeout"  -> "given_up"

Abstract == INSTANCE RequestLifecycle
              WITH phase <- [r \in Requests |-> PhaseOf(trail[r])],
                   missing <- unlogged

(* Every step of the owner and of every sweep is a step of the call life   *)
(* cycle: approval before execution, one execution, final outcomes; only a *)
(* row that was not written may be skipped, and only a call that was open  *)
(* while a second daemon started may leave the cycle.                      *)
ImplementsLifecycle == Abstract!Spec

-----------------------------------------------------------------------------
(* The inductive invariant behind the theorems of SessionOwnerProofs.      *)

NoExecute(r) ==
  \A i \in 1 .. Len(sent[r]) : sent[r][i].kind # "execute_request"

(* Where the owner is decides what the slot may hold. *)
SlotShape ==
  /\ Live => slot /\ active
  /\ slot => epoch \in Epochs
  /\ active => slot
  /\ active /\ ~Live => pc \in {"waiters", "end_row", "publish"}
  /\ ~(slot /\ Live) /\ pc # "waiters" => flight = NoFlight /\ routeQueue = <<>>
  /\ pc \in {"granted", "execute_send", "drain"} => slot /\ Live
  /\ pc \in {"granted", "execute_send"} => flight = NoFlight
  /\ pc = "route_send" => slot
  /\ pc \in Ending => slot /\ ~Live
  /\ pc \in {"dial", "down"} => ~slot
  /\ pc \in {"route_send", "granted", "execute_send"} => cur # NoReq
  /\ cur # NoReq =>
       pc \in Ending \cup {"route_send", "granted", "execute_send"}
  /\ watchdog \in {"armed", "warned"} => Live
  /\ ~Serving => cmdq = <<>> /\ \A e \in Epochs : pump[e] = <<>>

(* A session the watch no longer shows has its end on record. *)
EndShape ==
  /\ EndIsOnRecord
  /\ pc = "publish" => endRows[epoch] > 0 \/ epoch \in cutShort

(* A call is in one place of the queues, and a call nobody has started has *)
(* left no trace.                                                          *)
Unstarted(r) == trail[r] = <<>> /\ sent[r] = <<>> /\ r \notin thisLife

QueuesShape ==
  /\ \A i, j \in 1 .. Len(cmdq) :
       cmdq[i].kind = "route" /\ cmdq[j].kind = "route"
         /\ cmdq[i].req = cmdq[j].req => i = j
  /\ \A i, j \in 1 .. Len(routeQueue) :
       routeQueue[i] = routeQueue[j] => i = j
  /\ \A i \in 1 .. Len(cmdq), j \in 1 .. Len(routeQueue) :
       cmdq[i].kind = "route" => cmdq[i].req # routeQueue[j]
  /\ \A i \in 1 .. Len(cmdq) :
       cmdq[i].kind = "route" =>
         reply[cmdq[i].req] = "pending" /\ Unstarted(cmdq[i].req)
  /\ \A i \in 1 .. Len(routeQueue) :
       reply[routeQueue[i]] = "pending" /\ Unstarted(routeQueue[i])
  /\ \A r \in Requests : reply[r] = "none" => Unstarted(r)

(* What has gone out for a call is on record, unless an append failed, and *)
(* a call on record as refused was not executed.                           *)
Refused(r) == HasRow(trail[r], "approval_denied")

TrailShape ==
  \A r \in Requests :
    /\ sent[r] # <<>> => HasRow(trail[r], FirstRow(r)) \/ r \in unlogged
    /\ ~NoExecute(r) => HasRow(trail[r], "execute_sent") \/ r \in unlogged
    /\ Refused(r) => NoExecute(r)
    /\ r \in toSweep => trail[r] # <<>>

Asked(r)    == r \in AuthRequests /\ SentIn(r, "approval_request", epoch)
Approved(r) == Asked(r) /\ <<r, epoch>> \in approvedBy

(* What the owner knows of the call it is working on. *)
PipelineShape ==
  /\ flight # NoFlight =>
       /\ flight.req \in thisLife
       /\ flight.stage = "approval" =>
            /\ Asked(flight.req) /\ flight.req \notin consumed
            /\ NoExecute(flight.req) /\ ~Refused(flight.req)
       /\ flight.stage = "execute" => Approved(flight.req)
  /\ cur # NoReq => cur \in thisLife
  /\ pc = "route_send" =>
       /\ sent[cur] = <<>> /\ cur \notin consumed /\ ~Refused(cur)
       /\ HasRow(trail[cur], FirstRow(cur)) \/ cur \in unlogged
  /\ pc = "granted" =>
       /\ Approved(cur) /\ cur \notin consumed
       /\ NoExecute(cur) /\ ~Refused(cur)
  /\ pc = "execute_send" =>
       /\ Approved(cur) /\ NoExecute(cur) /\ ~Refused(cur)
       /\ HasRow(trail[cur], "execute_sent") \/ cur \in unlogged
  /\ \A r \in consumed : sent[r] # <<>>

(* The newest row of an uncontested call says how far the owner has got    *)
(* with it, or an earlier point if a row is missing.                       *)
Before(phase) == CASE phase = "asked"     -> {"unseen"}
                   [] phase = "granted"   -> {"unseen", "asked"}
                   [] phase = "executing" -> {"unseen", "asked", "granted"}

Reached(r, phase) ==
  \/ r \in contested
  \/ PhaseOf(trail[r]) = phase
  \/ r \in unlogged /\ PhaseOf(trail[r]) \in Before(phase)

RecordShape ==
  /\ flight # NoFlight =>
       Reached(flight.req,
               IF flight.stage = "execute" THEN "executing" ELSE "asked")
  /\ pc = "route_send" => Reached(cur, "asked")
  /\ pc = "granted" => Reached(cur, "granted")
  /\ pc = "execute_send" => Reached(cur, "executing")

(* A sweep: outside the reach of a rival, it has every open call to close, *)
(* and they stay as it found them.                                         *)
SweepShape ==
  /\ ~starting => toSweep = {}
  /\ \A r \in toSweep \ contested : Orphan(r)
  /\ starting /\ ~Serving => Orphans \subseteq toSweep \cup contested
  /\ starting /\ Serving => Orphans \cup toSweep \subseteq contested
  /\ OrphansAreOurs
  /\ (starting /\ Serving) \/ contested # {} => rivals > 0

(* What the inbox holds was signed by the phone in this session. *)
InboxShape ==
  \A i \in 1 .. Len(inbox) :
    LET m == inbox[i] IN
      /\ m.kind = "approval_response" =>
           (m.sig /\ m.decision = "approved" => <<m.req, epoch>> \in approvedBy)
      /\ m.kind = "execute_response" => (m.sig => m.req \in resultBy)

(* The invariant: each step of every handler keeps it ... *)
IInv ==
  /\ TypeOK /\ SlotShape /\ QueuesShape /\ TrailShape
  /\ PipelineShape /\ InboxShape

(* ... and, given it, keeps what the log says of calls and sessions. *)
RecordInv == EndShape /\ RecordShape /\ SweepShape

-----------------------------------------------------------------------------
(* Liveness.  The owner task runs when it can, tokio's select! picks among *)
(* ready branches at random and the command channel serves its waiting     *)
(* senders in order, so no ready input is passed over forever; the hard    *)
(* cap and the dial budget are absolute deadlines.  The phone, the user    *)
(* and the radio owe nothing.                                              *)
Fairness ==
  /\ WF_vars(Continue)
  /\ SF_vars(Commands)
  /\ SF_vars(WatchdogFires("hard_cap"))
  /\ \A e \in Epochs : SF_vars(Pump(e))

FairSpec == Spec /\ Fairness

(* No caller waits forever: whatever the phone does, each call is answered *)
(* (by a result, a refusal, a deadline or the end of the session).         *)
EveryCallerAnswered ==
  \A r \in Requests : reply[r] = "pending" ~> reply[r] # "pending"

=============================================================================
