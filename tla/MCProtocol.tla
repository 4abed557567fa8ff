----------------------------- MODULE MCProtocol -----------------------------
(* Bounded instances of Protocol for TLC. *)
EXTENDS Protocol

Num(a) == Word("int", <<a>>)
Object(x) == MapOf({<<<<"a">>, Num(x)>>, <<<<"b">>, Text("t")>>})

Request(kind, id, method, endpoint, params) ==
  [type |-> kind,
   f |-> [req_id |-> Text(id), op_type |-> Text("authenticated_request"), service |-> Text("s"),
          method |-> Text(method), endpoint |-> Word("text", endpoint),
          params |-> params, timestamp |-> Num("0")]]

Ask(id) == Request("approval_request", id, "GET", <<"x">>, Object("1"))
Run(id, params) == Request("execute_request", id, "GET", <<"x">>, params)
Control(kind) == [type |-> kind, f |-> [req_id |-> Text("c"), timestamp |-> Num("0")]]

Float == Word("float", <<"1.5">>)

\* The same message with the members of its params in the other order.
Swapped(m) ==
  LET b == Bytes(m)
      n == CHOOSE i \in DOMAIN b : b[i].t = "map" /\ i > 1 IN
  SubSeq(b, 1, n) \o SubSeq(b, n + 3, n + 4) \o SubSeq(b, n + 1, n + 2) \o SubSeq(b, n + 5, Len(b))

MCWire ==
  {Bytes(Ask("i")),
   Bytes(Request("approval_request", "i", "delete", <<"x">>, Object("2"))),
   Bytes(Run("i", Object("1"))), Swapped(Run("i", Object("1"))), Bytes(Run("i", Object("2"))),
   Bytes(Control("ping")), Bytes([type |-> "list_services_request", f |-> [req_id |-> Text("c")]]),
   Bytes([type |-> "session_end", f |-> [req_id |-> Text("c"), reason |-> Text("idle")]]),
   Bytes(Control("pong")),                                       \* not for a phone
   Bytes(Run("j", Float)),                                       \* outside the domain
   Append(Bytes(Ask("j")), Token("int", 0, <<"0">>)),            \* trailing data
   Bytes([Ask("j") EXCEPT !.f["op_type"] = Text("session_end")])}   \* unsupported

Rule(f, pattern, tier) ==
  [required_tier |-> tier] @@ (f :> pattern) @@ [x \in RuleTexts |-> NoPattern]
MCPolicies == {<<Rule("method", <<"*", "t", "e">>, 3)>>, <<Rule("endpoint", NoPattern, 3)>>}
MCHistories == {<<[service |-> <<"s">>, endpoint |-> <<"x">>]>>}

MCGrounds == {{}, {"r"}}
MCDecisions == {"approved", "denied"}
=============================================================================
