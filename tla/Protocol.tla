------------------------------ MODULE Protocol ------------------------------
(***************************************************************************)
(* The application protocol between the two ends of an established         *)
(* session: the phone's ApprovalProtocol                                   *)
(* (conveyance-crypto-ffi/src/approval.rs) with its binding tracker        *)
(* (conveyance-protocol/src/binding.rs) and its tier policy, the daemon's  *)
(* check of what the phone signed, and the scripted phone of the           *)
(* mock-phone build (conveyance-daemon/src/mockphone.rs).                  *)
(*                                                                         *)
(* The peer at the far end is authenticated, not trusted: it may send any  *)
(* byte string of Wire, at any time and as often as it likes.              *)
(***************************************************************************)
EXTENDS WireCodec, TierPolicy

CONSTANTS
  Wire,        \* byte strings a peer may send to a phone
  Policies,    \* rule lists a policy.toml may hold, invalid ones included
  Histories,   \* approval histories the phone's log may supply
  Decisions,   \* terminal decisions: subset of the decision enum
  Grounds,     \* reasons a decision may give: sets of at most one atom
  Ttl,         \* DEFAULT_APPROVAL_TTL
  MaxClock,    \* bound: time steps
  MaxScopes    \* bound: sessions of the phone

PhoneKey == "phone"
MockKey == "mock"

ASSUME ProtocolAssumption ==
  /\ Ttl \in Nat /\ MaxClock \in Nat /\ MaxScopes \in Nat
  /\ \A b \in Wire : b \in Seq(Range(b))

VARIABLES
  paired,    \* the key the daemon has paired with: the phone's or the mock's
  proto,     \* the phone's live ApprovalProtocol
  handles,   \* the request handles the app holds, with the tier it was told
  mock,      \* whether the scripted phone is serving
  clock,     \* monotonic time
  out,       \* what the last call returned: an error or bytes for the link
  heard,     \* the signed messages the daemon has accepted in this session
  signed,    \* history: every <<key, message>> signed
  decided,   \* history: every approval signed in this session
  spent      \* history: every approval this session took out of the tracker

vars == <<paired, proto, handles, mock, clock, out, heard, signed, decided, spent>>

\* What decode makes of them.
Inbound == {decode(b) : b \in Wire}

-----------------------------------------------------------------------------
(* The tracker.                                                             *)

NoEntries == [i \in {} |-> 0]
Without(f, i) == [j \in DOMAIN f \ {i} |-> f[j]]
With(f, i, x) == [j \in DOMAIN f \cup {i} |-> IF j = i THEN x ELSE f[j]]

IdOf(m) == m.f["req_id"][1].v

\* Seeded fault: an approval lives as long as its tombstone.
StaleWithTombstone(at) == clock - at > 2 * Ttl

\* Seeded fault: a tombstone lives as long as its approval.
RememberedOneTtl(at) == clock - at <= Ttl

Stale(at) == clock - at > Ttl               \* an approval past its time
Remembered(at) == clock - at <= 2 * Ttl     \* a tombstone still kept

prune(t) == [t EXCEPT !.consumed =
               [i \in {j \in DOMAIN t.consumed : Remembered(t.consumed[j])} |-> t.consumed[i]]]

\* record_approval of an approved request: the new tracker, or an error.
record_approval(t0, m) ==
  LET t == prune(t0)  i == IdOf(m) IN
  IF i \in DOMAIN t.pending \cup DOMAIN t.consumed
  THEN [err |-> "DuplicateRequestId", t |-> t]
  ELSE [err |-> "none",
        t |-> [t EXCEPT !.pending = With(@, i, [json |-> canonical_binding_json(m), at |-> clock])]]

\* validate_execute: the answer and the tracker it leaves.
validate_execute(t0, x) ==
  LET t == prune(t0)  i == IdOf(x) IN
  IF i \in DOMAIN t.consumed /\ Remembered(t.consumed[i])
  THEN [err |-> "ReplayedReqId", t |-> t]
  ELSE IF i \notin DOMAIN t.pending THEN [err |-> "UnknownReqId", t |-> t]
  ELSE LET e == t.pending[i]
           gone == [t EXCEPT !.pending = Without(@, i)] IN
       IF Stale(e.at) THEN [err |-> "ExpiredReqId", t |-> gone]
       ELSE [err |-> IF to_canonical_string(x) = e.json THEN "none" ELSE "PayloadDiffers",
             t |-> [gone EXCEPT !.consumed = With(@, i, clock)]]

-----------------------------------------------------------------------------

NoProtocol == [scope |-> 0, live |-> FALSE, rules |-> <<>>, received |-> {}, terminal |-> {},
               tracker |-> [pending |-> NoEntries, consumed |-> NoEntries]]
Quiet == Sent("none", <<>>)
Error(x) == Sent(x, <<>>)

Init ==
  /\ paired \in {PhoneKey, MockKey}
  /\ proto = NoProtocol
  /\ handles = {}
  /\ mock = "serving"
  /\ clock = 0
  /\ out = Quiet
  /\ heard = {} /\ signed = {} /\ decided = {} /\ spent = <<>>

history == <<paired, heard, signed, decided, spent>>

Tick == /\ clock < MaxClock
        /\ clock' = clock + 1
        /\ UNCHANGED <<proto, handles, mock, out, history>>

\* ApprovalProtocol::new, once per authenticated session.  Handles of an
\* earlier session stay with whoever holds them.
NewProtocol(rules) ==
  /\ paired = PhoneKey /\ proto.scope < MaxScopes
  /\ IF validate(rules)
     THEN /\ proto' = [NoProtocol EXCEPT !.scope = proto.scope + 1, !.live = TRUE, !.rules = rules]
          /\ out' = Quiet
          /\ heard' = {} /\ decided' = {} /\ spent' = <<>>
     ELSE out' = Error("PolicyInvalid") /\ UNCHANGED <<proto, heard, decided, spent>>
  /\ UNCHANGED <<handles, mock, clock, paired, signed>>

Routine(m) == m.f["op_type"] = Text("authenticated_request")

\* register_request: an id is taken once per session.
register_request(m) == IdOf(m) \notin proto.received

\* decode_inbound: what kind of message the plaintext is, or that it is none.
Kinds == [approval_request |-> "ApprovalRequest", session_end |-> "SessionEnd", ping |-> "Ping",
          list_services_request |-> "ListServicesRequest"]
decode_inbound(d) ==
  IF Failed(d) THEN "InvalidRequest"
  ELSE IF d.msg.type \notin DOMAIN Kinds THEN "Unexpected"
  ELSE IF d.msg.type # "approval_request" THEN Kinds[d.msg.type]
  ELSE IF ~Routine(d.msg) THEN "InvalidRequest"
  ELSE IF register_request(d.msg) THEN "ApprovalRequest" ELSE "DuplicateRequest"

Dest(m) == [service |-> m.f["service"][1].v, method |-> m.f["method"][1].v,
            endpoint |-> m.f["endpoint"][1].v]

\* evaluate_tier, over the newest approvals the log supplied.
evaluate_tier(m, recent) == evaluate(proto.rules, Dest(m), recent)

\* The handle: the request itself, the session that decoded it, and the tier
\* it was given.
ValidatedApprovalRequest(m, recent) ==
  [scope |-> proto.scope, m |-> m, tier |-> evaluate_tier(m, recent)]

\* A request is reserved, summarised and classified in one handler.
OnRequest(d, recent) ==
  /\ proto.live /\ decode_inbound(d) = "ApprovalRequest"
  /\ proto' = [proto EXCEPT !.received = @ \cup {IdOf(d.msg)}]
  /\ handles' = handles \cup {ValidatedApprovalRequest(d.msg, recent)}
  /\ out' = Quiet
  /\ UNCHANGED <<mock, clock, history>>

\* Time and the service names are the phone's own.
Now == Word("int", <<"now">>)
Services(names) == ArrayOf([n \in DOMAIN names |-> Text(names[n])])

encode_pong(m) ==
  encode([type |-> "pong", f |-> [req_id |-> m.f["req_id"], timestamp |-> Now]])
encode_list_services_response(m) ==
  encode([type |-> "list_services_response",
          f |-> [req_id |-> m.f["req_id"], services |-> Services(<<"github">>)]])

OnPing(d) ==
  /\ proto.live /\ decode_inbound(d) = "Ping"
  /\ out' = encode_pong(d.msg)
  /\ UNCHANGED <<proto, handles, mock, clock, history>>

OnListServices(d) ==
  /\ proto.live /\ decode_inbound(d) = "ListServicesRequest"
  /\ out' = encode_list_services_response(d.msg)
  /\ UNCHANGED <<proto, handles, mock, clock, history>>

\* The peer's goodbye, and everything that fails closed, end the session.
OnLastMessage(d) ==
  /\ proto.live
  /\ \E k \in {"SessionEnd", "InvalidRequest", "DuplicateRequest", "Unexpected"} :
       /\ decode_inbound(d) = k
       /\ out' = IF k = "SessionEnd" THEN Quiet ELSE Error(k)
  /\ proto' = [proto EXCEPT !.live = FALSE]
  /\ UNCHANGED <<handles, mock, clock, history>>

\* signed_response.  The id is reserved before the key is used and stays
\* reserved whatever happens after.
signed_response(h, decision, ground) ==
  LET i == IdOf(h.m)
      m == [type |-> "approval_response",
            f |-> [x \in {"req_id", "decision", "signature"} \cup {"reason" : g \in ground} |->
                     CASE x = "req_id" -> h.m.f["req_id"]
                       [] x = "decision" -> Text(decision)
                       [] x = "reason" -> Text(CHOOSE g \in ground : TRUE)
                       [] x = "signature" -> Unsigned]]
      rec == IF decision = "approved" THEN record_approval(proto.tracker, h.m)
             ELSE [err |-> "none", t |-> proto.tracker] IN
  /\ h \in handles
  /\ IF h.scope # proto.scope \/ i \in proto.terminal \/ Failed(encode(m))
     THEN /\ out' = Error(IF h.scope # proto.scope THEN "WrongSession"
                          ELSE IF i \in proto.terminal THEN "DuplicateDecision"
                          ELSE "SigningFailed")
          /\ UNCHANGED <<proto, signed, decided>>
     ELSE /\ proto' = [proto EXCEPT !.terminal = @ \cup {i}, !.tracker = rec.t]
          /\ signed' = signed \cup {<<PhoneKey, m>>}
          /\ decided' = IF decision = "approved" /\ ~Failed(rec)
                        THEN decided \cup {[at |-> clock, id |-> i,
                                            json |-> canonical_binding_json(h.m)]}
                        ELSE decided
          /\ out' = IF Failed(rec) THEN Error("InvalidRequest") ELSE encode(Signed(PhoneKey, m))
  /\ UNCHANGED <<handles, mock, clock, paired, heard, spent>>

\* validate_execute_binding, over message.rs's decode_execute_request.
validate_execute_binding(d) ==
  /\ proto.live
  /\ IF Failed(d) \/ d.msg.type # "execute_request" \/ ~Routine(d.msg)
     THEN out' = Error("BindingRejected") /\ UNCHANGED <<proto, spent>>
     ELSE \E r \in {validate_execute(proto.tracker, d.msg)} :
          /\ proto' = [proto EXCEPT !.tracker = r.t]
          /\ spent' = IF r.err \in {"none", "PayloadDiffers", "ExpiredReqId"}
                      THEN Append(spent, [id |-> IdOf(d.msg), at |-> clock, how |-> r.err,
                                          json |-> to_canonical_string(d.msg)])
                      ELSE spent
          /\ out' = IF Failed(r) THEN Error("BindingRejected") ELSE Quiet
  /\ UNCHANGED <<handles, mock, clock, paired, heard, signed, decided>>

-----------------------------------------------------------------------------
(* The scripted phone: it approves every request and executes every execute *)
(* request, with a key of its own and no tracker.                           *)

MockAnswer(m) ==
  CASE m.type = "approval_request" ->
         [type |-> "approval_response",
          f |-> [req_id |-> m.f["req_id"], decision |-> Text("approved"), signature |-> Unsigned]]
    [] m.type = "execute_request" ->
         [type |-> "execute_response",
          f |-> [req_id |-> m.f["req_id"], status |-> Text("ok"), executed_at |-> Now,
                 http_status |-> Word("int", <<"200">>),
                 body |-> MapOf({<<<<"echo">>, m.f["params"]>>}),
                 signature |-> Unsigned]]
    [] m.type = "ping" -> [type |-> "pong", f |-> m.f]
    [] m.type = "list_services_request" ->
         [type |-> "list_services_response",
          f |-> [req_id |-> m.f["req_id"],
                 services |-> Services(<<"github", "aws">>)]]

\* It reads with ciborium and serde alone, so bytes after the message and
\* floats pass; what serde refuses ends it.
MockServes(b) ==
  LET r == First(b)
      d == IF Failed(r) THEN r ELSE FromItem(r.item) IN
  /\ paired = MockKey /\ mock = "serving"
  /\ IF Failed(d) THEN mock' = "gone" /\ UNCHANGED <<out, signed>>
     ELSE IF d.msg.type \notin {"approval_request", "execute_request", "ping",
                                "list_services_request"}
     THEN UNCHANGED <<mock, out, signed>>
     ELSE LET m == MockAnswer(d.msg)
              s == IF "signature" \in DOMAIN m.f THEN Signed(MockKey, m) ELSE m IN
          IF m.type = "execute_response" /\ ~validate_semantics(m)
          THEN mock' = "gone" /\ UNCHANGED <<out, signed>>
          ELSE /\ signed' = IF "signature" \in DOMAIN m.f THEN signed \cup {<<MockKey, m>>}
                            ELSE signed
               /\ out' = IF Failed(encode(s)) THEN out ELSE encode(s)
               /\ UNCHANGED mock
  /\ UNCHANGED <<proto, handles, clock, paired, heard, decided, spent>>

-----------------------------------------------------------------------------
(* The daemon: a signed answer counts once its signature verifies under     *)
(* the key it paired with.  What reaches it may be what was sent, or carry  *)
(* other fields under a signature that was sent.                            *)

SignedKinds == {"approval_response", "execute_response"}

WithFields(m, d, ground) ==
  [m EXCEPT !.f = [x \in (DOMAIN m.f \ {"reason"}) \cup {"reason" : g \in ground} |->
                     CASE x = "decision" -> Text(d)
                       [] x = "reason" -> Text(CHOOSE g \in ground : TRUE)
                       [] OTHER -> m.f[x]]]
Altered(m) ==
  {m} \cup
  IF m.type # "approval_response" THEN {}
  ELSE {WithFields(m, d, ground) : d \in Decisions, ground \in Grounds}

Hear ==
  /\ out.bytes # <<>>
  /\ \E d \in {decode(out.bytes)} :
     /\ ~Failed(d) /\ d.msg.type \in SignedKinds
     /\ \E m \in Altered(d.msg) :
          /\ verify_signature(paired, m)
          /\ heard' = heard \cup {m}
  /\ UNCHANGED <<proto, handles, mock, clock, out, paired, signed, decided, spent>>

Next ==
  \/ Tick
  \/ \E rules \in Policies : NewProtocol(rules)
  \/ \E d \in Inbound : \/ \E recent \in Histories : OnRequest(d, recent)
                        \/ OnPing(d) \/ OnListServices(d) \/ OnLastMessage(d)
                        \/ validate_execute_binding(d)
  \/ \E b \in Wire : MockServes(b)
  \/ \E h \in handles, d \in Decisions, ground \in Grounds : signed_response(h, d, ground)
  \/ Hear

Spec == Init /\ [][Next]_vars

-----------------------------------------------------------------------------
(* Properties.                                                              *)

\* An execute request passes the binding check only if, in the same session
\* and at most one time to live before, the phone approved a request with the
\* same canonical JSON, and no two pass under one id (validate_execute, over
\* whatever the peer repeats, alters, delays or asks again).
ExecutesOnlyWhatWasApproved ==
  LET ran == {n \in DOMAIN spent : spent[n].how = "none"} IN
  /\ \A n \in ran : \E d \in decided : /\ d.id = spent[n].id /\ d.json = spent[n].json
                                       /\ spent[n].at - d.at \in 0..Ttl
  /\ \A n, k \in ran : spent[n].id = spent[k].id => n = k

\* The execute requests a peer could send now.
Executes == {m \in {d.msg : d \in {x \in Inbound : ~Failed(x)}} : m.type = "execute_request"}

\* What the history of this session says of an execute request under the id
\* of an approval: usable up to the time to live, expired after it if nothing
\* took it out, a replay for two times to live once it was used or spoiled,
\* unknown after that.
Verdict(d, x) ==
  LET took == {y \in Range(spent) : y.id = d.id} IN
  IF took = {} THEN IF clock - d.at > Ttl THEN "ExpiredReqId"
                    ELSE IF to_canonical_string(x) = d.json THEN "none" ELSE "PayloadDiffers"
  ELSE IF \E y \in took : y.how # "ExpiredReqId" /\ clock - y.at <= 2 * Ttl
  THEN "ReplayedReqId" ELSE "UnknownReqId"

\* The two windows of the tracker, the approval's and its tombstone's, leave no
\* gap and never contradict the history: at every instant the cause
\* validate_execute reports is the one the session's history calls for.
WindowsMeet ==
  \A d \in decided, x \in Executes :
    d.id = IdOf(x) => validate_execute(proto.tracker, x).err = Verdict(d, x)

\* The daemon accepts a signed answer only if the key it paired with signed
\* exactly that answer: kind, id, decision and reason (signing_payload covers
\* every field that is present, under the context of its kind).
HeardIsSigned ==
  \A m \in heard : <<paired, [m EXCEPT !.f["signature"] = Unsigned]>> \in signed
=============================================================================
