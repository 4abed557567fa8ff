------------------------------ MODULE MCDaemon ------------------------------
(* The instances of Daemon that TLC checks. *)
EXTENDS Daemon

Rule  == [tier |-> 3, matchers |-> {"service"}]
Setup == [file |-> "parses", timers |-> [idle |-> 300, warn |-> 299, cap |-> 86400],
          rules |-> {Rule}, socket |-> "path", execs |-> "default"]

On(kind)  == [Setup EXCEPT !.file = "absent", !.timers = DefaultTimers, !.socket = kind]
OnPath    == {Setup}
OnTmp     == {On("tmp")}
\* A filesystem socket with every timer at its bound, the defaults with each kind
\* of namespaced socket, and one configuration at each refusal: a timer one second
\* outside, a warning at the idle timeout, a tier and a matcher that are not there,
\* a blank path, a file that does not parse.
MCConfigs ==
  OnPath \cup {On(kind) : kind \in {"abstract", "tmp", "pipe"}} \cup
  {[Setup EXCEPT !.timers.idle = 299], [Setup EXCEPT !.timers.warn = 300],
   [Setup EXCEPT !.timers.cap = 86401],
   [Setup EXCEPT !.rules = {[Rule EXCEPT !.tier = 4]}],
   [Setup EXCEPT !.rules = {[Rule EXCEPT !.matchers = {}]}],
   [Setup EXCEPT !.execs = "blank"], [Setup EXCEPT !.file = "garbage"]}

Call(tool, args) == [form |-> "call", id |-> TRUE, method |-> "tools/call",
                     tool |-> tool, args |-> args]
CallLines  == {Call("authenticated_request", "object"), Call("check_session", "object"),
               Call("end_session", "object")}
OtherLines == {[form |-> "blank"], [form |-> "not_json"], [form |-> "no_method"],
               [Call("end_session", "object") EXCEPT !.id = FALSE],
               [Call("end_session", "object") EXCEPT !.method = "ping"],
               [Call("end_session", "object") EXCEPT !.method = "resources/list"],
               Call("unpair", "object"), Call("authenticated_request", "missing"),
               Call("list_services", "not_object")}
CliLines   == {[form |-> "cli", tool |-> "session start"], [form |-> "cli", tool |-> "status"]}
MCLines    == CallLines \cup OtherLines \cup CliLines
=============================================================================
