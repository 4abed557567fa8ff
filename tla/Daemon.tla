------------------------------- MODULE Daemon -------------------------------
(***************************************************************************)
(* The PC side around the session owner: the commands that create and load *)
(* the long-term identity, the daemon's refuse-to-start chain, the socket  *)
(* it probes, reclaims and binds, the connections it serves, its shutdown, *)
(* and the clients (the MCP shim and the command line) that dial it.       *)
(*                                                                         *)
(* Several processes of each kind run at once and any of them may be       *)
(* killed between two steps.  The session owner is the one of module       *)
(* SessionOwner; here it is the service dispatch awaits: a session that is *)
(* up or not, and one answer to every command it is sent.                  *)
(***************************************************************************)
EXTENDS IdentityStore, FiniteSets

CONSTANTS
  Daemons,     \* processes that run `conveyance daemon`
  Inits,       \* processes that run load_or_create_identity (init, pair)
  Clients,     \* processes that dial the daemon
  Lines,       \* what a client may be asked: MCP lines, CLI commands
  Configs,     \* the config files under which the machine may be set up
  NoDaemon,
  MaxStarts,   \* bound: processes started
  MaxFaults,   \* bound: kills and keychain faults
  MaxCalls     \* bound: lines a client reads

ASSUME ProcessesAssumption ==
  /\ Daemons \cap Inits = {} /\ NoDaemon \notin Daemons \cup Inits
  /\ MaxStarts \in Nat /\ MaxFaults \in Nat /\ MaxCalls \in Nat

VARIABLES
  config,     \* the config file and the socket kind it names
  keychain,   \* the KEK under KEK_ACCOUNT, or NoKey
  locked,     \* the OS keychain service cannot be reached
  idfile,     \* identity.enc
  fresh,      \* how many random keys have been drawn
  proc,       \* [pc, id, kek, met, stuck] of every daemon and init process
  socket,     \* the daemons whose listener, open or dead, has the socket name
  session,    \* per daemon: the watch channel behind is_active
  client,     \* [pc, req, to, ans] of every client
  calls,      \* lines each client has read
  starts, faults,
  raced,      \* history: a probe missed a live listener, or one daemon bound
              \* the name while another was past its own probe
  overlap     \* history: two processes created an identity at once

vars == <<config, keychain, locked, idfile, fresh, proc, socket, session,
          client, calls, starts, faults, raced, overlap>>
machine == <<config, keychain, locked, idfile, fresh, overlap>>
bounds  == <<starts, faults>>

Procs == Daemons \cup Inits

\* met and stuck are history: while it started, another daemon was serving; the
\* leftover of a dead one could not be removed.
Idle  == [pc |-> "off", id |-> NoId, kek |-> NoKey, met |-> FALSE, stuck |-> FALSE]
Quiet == [pc |-> "idle", req |-> "none", to |-> NoDaemon, ans |-> "none"]

-----------------------------------------------------------------------------
(* Configuration.                                                          *)

\* SessionParams::validated, in seconds.
TimersValid(t) ==
  /\ t.idle \in 300 .. 14400
  /\ t.cap \in 1800 .. 86400
  /\ t.warn < t.idle

DefaultTimers == [idle |-> 1800, warn |-> 120, cap |-> 14400]

\* Config::validated: timer bounds, then every high-risk rule names a tier and
\* matches on something, then no configured path is blank.
Validated(c) ==
  /\ TimersValid(c.timers)
  /\ \A r \in c.rules : r.tier \in 1 .. 3 /\ r.matchers # {}
  /\ "blank" \notin {c.socket, c.execs}

\* resolve_runtime_config and resolve_config: a missing file means defaults, a
\* file that does not parse or validate refuses startup.
Resolves(c) == c.file = "absent" \/ (c.file = "parses" /\ Validated(c))

Init ==
  /\ config \in Configs
  /\ keychain = NoKey /\ locked = FALSE /\ idfile = Absent /\ fresh = 0
  /\ proc = [p \in Procs |-> Idle]
  /\ socket = {}
  /\ session = [d \in Daemons |-> FALSE]
  /\ client = [c \in Clients |-> Quiet]
  /\ calls = [c \in Clients |-> 0]
  /\ starts = 0 /\ faults = 0
  /\ raced = FALSE /\ overlap = FALSE

Stopped(p) == proc[p].pc \in {"off", "done", "refused", "in_use", "exited"}

Goes(p, pc) == proc' = [proc EXCEPT ![p].pc = pc]

-----------------------------------------------------------------------------
(* load_or_create_identity, run by `init identity` and by `pair`.          *)

\* Seeded fault: any failure to load counts as a first run.
MayCreateOnError(err) == err # "none"

\* The one load error that leads to a new identity.
MayCreate(err) == err = "not_found"

\* The processes between finding no file and having written one.
Creating(p) == proc[p].pc \in {"get", "set", "write", "fill"}

LoadOrCreate(p) ==
  /\ p \in Inits /\ Stopped(p) /\ starts < MaxStarts
  /\ starts' = starts + 1
  /\ LET got == Load(idfile, keychain, locked) IN
     \/ /\ got.err = "none"
        /\ proc' = [proc EXCEPT ![p] = [Idle EXCEPT !.pc = "done", !.id = got.id]]
        /\ UNCHANGED <<fresh, overlap>>
     \/ /\ MayCreate(got.err)
        /\ fresh' = fresh + 1
        /\ proc' = [proc EXCEPT ![p] = [Idle EXCEPT !.pc = "get", !.id = fresh]]
        /\ overlap' = (overlap \/ \E q \in Inits \ {p} : Creating(q))
     \/ /\ got.err # "none" /\ ~MayCreate(got.err)
        /\ proc' = [proc EXCEPT ![p] = [Idle EXCEPT !.pc = "refused"]]
        /\ UNCHANGED <<fresh, overlap>>
  /\ UNCHANGED <<config, keychain, locked, idfile, socket, raced, session, client, calls, faults>>

\* StoredIdentity::save: read the KEK, or draw one ...
GetKek(p) ==
  /\ proc[p].pc = "get"
  /\ LET got == KeychainGet(keychain, locked) IN
     \/ /\ got.err # "none" /\ UNCHANGED fresh
        /\ proc' = [proc EXCEPT ![p] = [Idle EXCEPT !.pc = "refused"]]
     \/ /\ got.err = "none" /\ got.kek # NoKey /\ UNCHANGED fresh
        /\ proc' = [proc EXCEPT ![p].pc = "write", ![p].kek = got.kek]
     \/ /\ got.err = "none" /\ got.kek = NoKey
        /\ fresh' = fresh + 1
        /\ proc' = [proc EXCEPT ![p].pc = "set", ![p].kek = fresh]
  /\ UNCHANGED <<config, keychain, locked, idfile, overlap, socket, raced, session, client, calls, bounds>>

\* ... and store it,
SetKek(p) ==
  /\ proc[p].pc = "set"
  /\ IF locked
     THEN proc' = [proc EXCEPT ![p] = [Idle EXCEPT !.pc = "refused"]] /\ UNCHANGED keychain
     ELSE Goes(p, "write") /\ keychain' = proc[p].kek
  /\ UNCHANGED <<config, locked, idfile, fresh, overlap, socket, raced, session, client, calls, bounds>>

\* then write the sealed keyset over the file: truncated first,
TruncateFile(p) ==
  /\ proc[p].pc = "write"
  /\ idfile' = Torn
  /\ Goes(p, "fill")
  /\ UNCHANGED <<config, keychain, locked, fresh, overlap, socket, raced, session, client, calls, bounds>>

\* filled second, under a nonce drawn for it.
FillFile(p) ==
  /\ proc[p].pc = "fill"
  /\ idfile' = Blob(proc[p].kek, fresh, proc[p].id)
  /\ fresh' = fresh + 1
  /\ Goes(p, "done")
  /\ UNCHANGED <<config, keychain, locked, overlap, socket, raced, session, client, calls, bounds>>

-----------------------------------------------------------------------------
(* The daemon's refuse-to-start chain and its socket.                      *)

\* The daemons whose listener is open.
Listening == {d \in Daemons : proc[d].pc \in {"serving", "draining"}}

\* A connect reaches a listener: the name leads to one that is open.
Served == socket \cap Listening # {}

StartDaemon(d) ==
  /\ Stopped(d) /\ starts < MaxStarts
  /\ starts' = starts + 1
  /\ proc' = [proc EXCEPT ![d] =
        [Idle EXCEPT !.pc = IF Resolves(config) THEN "identity" ELSE "refused"]]
  /\ UNCHANGED <<machine, socket, raced, session, client, calls, faults>>

\* refuse_to_start: no identity is ever created here.
LoadIdentity(d) ==
  /\ proc[d].pc = "identity"
  /\ LET got == Load(idfile, keychain, locked) IN
     proc' = [proc EXCEPT ![d] =
        IF got.err = "none" THEN [Idle EXCEPT !.pc = "stores", !.id = got.id]
                            ELSE [Idle EXCEPT !.pc = "refused"]]
  /\ UNCHANGED <<machine, socket, raced, session, client, calls, bounds>>

\* Both databases open and the sweep runs, or startup is refused.
OpenStores(d) ==
  /\ proc[d].pc = "stores"
  /\ \/ Goes(d, "probe")
     \/ proc' = [proc EXCEPT ![d] = [Idle EXCEPT !.pc = "refused"]]
  /\ UNCHANGED <<machine, socket, raced, session, client, calls, bounds>>

\* Seeded fault: no probe, the create error is trusted.
ProbeSkipped(d) ==
  /\ proc[d].pc = "probe"
  /\ proc' = [proc EXCEPT ![d].pc = "bind", ![d].met = Served]
  /\ UNCHANGED <<machine, socket, raced, session, client, calls, bounds>>

\* probe_is_served.  Any failure to connect, and a connect that takes longer than
\* PROBE_TIMEOUT, counts as absence: the probe may miss a live listener.
Probe(d) ==
  /\ proc[d].pc = "probe"
  /\ \/ /\ Served
        /\ proc' = [proc EXCEPT ![d] = [Idle EXCEPT !.pc = "in_use", !.met = TRUE]]
        /\ UNCHANGED raced
     \/ /\ proc' = [proc EXCEPT ![d].pc = "bind", ![d].met = Served]
        /\ raced' = (raced \/ Served)
  /\ UNCHANGED <<machine, socket, session, client, calls, bounds>>

\* local_name: a path, or a namespaced name, which is a file under /tmp on a Unix
\* other than Linux.
OnDisk == config.socket \in {"path", "tmp"}

\* May creating a listener find the name taken (t)?  A file is in the way whoever
\* left it, an abstract name is taken by a live listener only, and a pipe may
\* exist in several instances, so a live one need not be noticed.
NameTaken(t) ==
  CASE OnDisk -> t <=> socket # {}
    [] config.socket = "abstract" -> t <=> Served
    [] OTHER -> t => Served

\* A listener is created; daemons still starting up now have a rival.
Binds(d) ==
  /\ socket' = IF config.socket = "pipe" THEN socket \cup {d} ELSE {d}
  /\ proc' = [p \in Procs |->
        IF p = d THEN [proc[p] EXCEPT !.pc = "serving"]
        ELSE IF proc[p].pc \in {"bind", "rebind"} THEN [proc[p] EXCEPT !.met = TRUE]
        ELSE proc[p]]
  /\ raced' = (raced \/ \E e \in Daemons \ {d} : proc[e].pc \in {"bind", "rebind"})

\* Seeded fault: the retry without the removal.
LeaveStaleSocket == {[left |-> socket, failed |-> FALSE]}

\* remove_stale_socket: what may be left of the name, and whether a leftover is
\* still in the way.  Only a path is removed, and the error of that is ignored;
\* nothing removes the file under /tmp that a namespaced name may be.
RemoveStaleSocket ==
  IF config.socket = "path"
  THEN {[left |-> {}, failed |-> FALSE], [left |-> socket, failed |-> TRUE]}
  ELSE {[left |-> socket, failed |-> OnDisk /\ ~Served]}

\* An error other than AddrInUse: StartupError::SocketBind.
CreateFails(d) ==
  /\ proc' = [proc EXCEPT ![d] = [Idle EXCEPT !.pc = "refused"]]
  /\ UNCHANGED <<socket, raced>>

\* bind_with_stale_retry, the first attempt,
Bind(d) ==
  /\ proc[d].pc = "bind"
  /\ \/ NameTaken(FALSE) /\ Binds(d)
     \/ /\ NameTaken(TRUE)
        /\ \E r \in RemoveStaleSocket :
             /\ socket' = r.left
             /\ proc' = [proc EXCEPT ![d].pc = "rebind", ![d].stuck = r.failed]
        /\ UNCHANGED raced
     \/ CreateFails(d)
  /\ UNCHANGED <<machine, session, client, calls, bounds>>

\* and the second and last.
Rebind(d) ==
  /\ proc[d].pc = "rebind"
  /\ \/ NameTaken(FALSE) /\ Binds(d)
     \/ /\ NameTaken(TRUE)
        /\ proc' = [proc EXCEPT ![d].pc = "in_use", ![d].id = NoId]
        /\ UNCHANGED <<socket, raced>>
     \/ CreateFails(d)
  /\ UNCHANGED <<machine, session, client, calls, bounds>>

-----------------------------------------------------------------------------
(* Shutdown and death.                                                     *)

\* The clients whose connection to d is in one of these states read EOF.
Hangup(d, pcs) == [c \in Clients |->
  IF client[c].to = d /\ client[c].pc \in pcs
  THEN [client[c] EXCEPT !.pc = "closed"] ELSE client[c]]

OpenConn == {"sent", "served", "waiting"}

\* What has the name once d's listener is dropped: a file is unlinked by its
\* path, whoever that path leads to by now.
Unlinked(d) == IF OnDisk THEN {} ELSE socket \ {d}

\* SIGTERM: the shutdown flag is sent to the accept loop and to every handler,
Signal(d) ==
  /\ proc[d].pc = "serving"
  /\ Goes(d, "draining")
  /\ UNCHANGED <<machine, socket, raced, session, client, calls, bounds>>

\* which each sees in its own time: the accept loop drops its listener,
DropListener(d) ==
  /\ proc[d].pc = "draining"
  /\ Goes(d, "closed")
  /\ socket' = Unlinked(d)
  /\ client' = Hangup(d, {"sent"})
  /\ UNCHANGED <<machine, raced, session, calls, bounds>>

\* a handler its connection.
DropHandler(c) ==
  /\ client[c].to \in Daemons /\ proc[client[c].to].pc \in {"draining", "closed"}
  /\ client[c].pc \in {"served", "waiting"}
  /\ client' = [client EXCEPT ![c].pc = "closed"]
  /\ UNCHANGED <<machine, proc, socket, raced, session, calls, bounds>>

\* Meanwhile serve_until_signal ends the session, checkpoints and exits.
Drain(d) ==
  /\ proc[d].pc \in {"draining", "closed"}
  /\ session' = [session EXCEPT ![d] = FALSE]
  /\ proc' = [proc EXCEPT ![d] = [Idle EXCEPT !.pc = "exited"]]
  /\ socket' = IF proc[d].pc = "draining" THEN Unlinked(d) ELSE socket
  /\ client' = Hangup(d, OpenConn)
  /\ UNCHANGED <<machine, raced, calls, bounds>>

\* Any process is killed.  A socket file stays behind, an abstract name or a
\* pipe does not.
Kill(p) ==
  /\ ~Stopped(p) /\ faults < MaxFaults
  /\ faults' = faults + 1
  /\ proc' = [proc EXCEPT ![p] = Idle]
  /\ IF p \in Daemons
     THEN /\ session' = [session EXCEPT ![p] = FALSE]
          /\ client' = Hangup(p, OpenConn)
          /\ socket' = IF OnDisk THEN socket ELSE socket \ {p}
     ELSE UNCHANGED <<session, client, socket>>
  /\ UNCHANGED <<machine, raced, calls, starts>>

\* The keychain service goes down or comes back; its entry may be lost.
KeychainFault ==
  /\ faults < MaxFaults
  /\ faults' = faults + 1
  /\ \/ locked' = ~locked /\ UNCHANGED keychain
     \/ keychain # NoKey /\ keychain' = NoKey /\ UNCHANGED locked
  /\ UNCHANGED <<config, idfile, fresh, overlap, proc, socket, raced, session, client, calls, starts>>

-----------------------------------------------------------------------------
(* The clients: one line or command at a time, one connection each.        *)

Tools == [authenticated_request |-> "auth", list_services |-> "list",
          check_session |-> "check", end_session |-> "end"]

\* rpc::parse_line.
ParseLine(l) ==
  CASE l.form = "blank" -> "silent"
    [] l.form = "not_json" -> "-32700"
    [] l.form = "not_object" \/ l.form = "no_version" \/ l.form = "no_method" -> "-32600"
    [] l.form = "call" /\ ~l.id -> "silent"
    [] OTHER -> "request"

\* build_ipc_request: arguments must be an object; the strings must be there.
BuildIpcRequest(l) ==
  IF l.args = "not_object" THEN "-32602"
  ELSE IF l.tool \notin DOMAIN Tools THEN "-32602"
  ELSE IF l.tool = "authenticated_request" /\ l.args = "missing" THEN "-32602"
  ELSE Tools[l.tool]

\* Command::run: the commands that ask the daemon something.
CliRequest(tool) ==
  CASE tool = "status" -> "status" [] tool = "session start" -> "start"
    [] tool = "session end" -> "end"

\* handle_line: what is answered at once, or the request to send the daemon.
HandleLine(l) ==
  IF l.form = "cli" THEN CliRequest(l.tool)
  ELSE IF ParseLine(l) # "request" THEN ParseLine(l)
  ELSE CASE l.method \in {"initialize", "ping", "tools/list"} -> "result"
         [] l.method = "tools/call" -> BuildIpcRequest(l)
         [] OTHER -> "-32601"

Requests == {"auth", "list", "check", "end", "start", "status"}

ReadLine(c, l) ==
  /\ client[c].pc = "idle" /\ calls[c] < MaxCalls
  /\ calls' = [calls EXCEPT ![c] = @ + 1]
  /\ LET r == HandleLine(l) IN
     client' = [client EXCEPT ![c] =
        IF r \in Requests THEN [Quiet EXCEPT !.pc = "dial", !.req = r]
                          ELSE Quiet]
  /\ UNCHANGED <<machine, proc, socket, raced, session, bounds>>

\* single_request: connect and write, or the daemon is not running.
Connect(c) ==
  /\ client[c].pc = "dial"
  /\ \/ \E d \in socket \cap Listening :
          client' = [client EXCEPT ![c].pc = "sent", ![c].to = d]
     \/ ~Served /\ client' = [client EXCEPT ![c] = Quiet]
  /\ UNCHANGED <<machine, proc, socket, raced, session, calls, bounds>>

\* Seeded fault: a request that does not decode leaves its connection open.
AcceptAndKeep(c) ==
  /\ client[c].pc = "sent" /\ client[c].to \in Listening
  /\ \E pc \in {"served", "ignored"} : client' = [client EXCEPT ![c].pc = pc]
  /\ UNCHANGED <<machine, proc, socket, raced, session, calls, bounds>>

\* accept_loop and read_request.  A request that does not frame or decode ends
\* its connection.
AcceptAndRead(c) ==
  /\ client[c].pc = "sent" /\ client[c].to \in Listening
  /\ \E pc \in {"served", "closed"} : client' = [client EXCEPT ![c].pc = pc]
  /\ UNCHANGED <<machine, proc, socket, raced, session, calls, bounds>>

\* dispatch up to the point where it awaits the owner.  The cold-start gate
\* reads the watch channel.
Dispatch(c) ==
  /\ client[c].pc = "served"
  /\ LET d == client[c].to  r == client[c].req IN
     client' = [client EXCEPT ![c] =
       IF r = "status" THEN [@ EXCEPT !.pc = "answered", !.ans = "status"]
       ELSE IF r \in {"auth", "list", "check"} /\ ~session[d]
            THEN [@ EXCEPT !.pc = "answered", !.ans = "no_session"]
       ELSE [@ EXCEPT !.pc = "waiting"]]
  /\ UNCHANGED <<machine, proc, socket, raced, session, calls, bounds>>

\* What the owner answers a command with, and the session it leaves.
OwnerOutcomes(r, up) ==
  CASE r = "start" -> IF up THEN {<<"started", TRUE>>}
                      ELSE {<<"started", TRUE>>} \cup
                           {<<e, FALSE>> : e \in {"not_paired", "unreachable", "handshake"}}
    [] r = "end"   -> {<<"ended", FALSE>>}
    [] r = "check" -> {<<IF up THEN "view" ELSE "no_session", up>>}
    [] OTHER -> IF ~up THEN {<<"no_session", FALSE>>}
                ELSE {<<a, TRUE>> : a \in {"body", "denied", "timeout", "busy"}}
                       \cup {<<"session_ended", FALSE>>}

OwnerAnswers(c) ==
  /\ client[c].pc = "waiting"
  /\ LET d == client[c].to IN
     \E o \in OwnerOutcomes(client[c].req, session[d]) :
       /\ session' = [session EXCEPT ![d] = o[2]]
       /\ client' = [client EXCEPT ![c].pc = "answered", ![c].ans = o[1]]
  /\ UNCHANGED <<machine, proc, socket, raced, calls, bounds>>

\* A timer, the phone or the radio ends the session.
SessionLost(d) ==
  /\ session[d]
  /\ session' = [session EXCEPT ![d] = FALSE]
  /\ UNCHANGED <<machine, proc, socket, raced, client, calls, bounds>>

\* read_response and call_result_for: the answer, or EOF before one.
ReadAnswer(c) ==
  /\ client[c].pc = "answered"
  /\ client' = [client EXCEPT ![c] = Quiet]
  /\ UNCHANGED <<machine, proc, socket, raced, session, calls, bounds>>

ReadEof(c) ==
  /\ client[c].pc = "closed"
  /\ client' = [client EXCEPT ![c] = Quiet]
  /\ UNCHANGED <<machine, proc, socket, raced, session, calls, bounds>>

-----------------------------------------------------------------------------
InitNext == \E p \in Inits :
  LoadOrCreate(p) \/ GetKek(p) \/ SetKek(p) \/ TruncateFile(p) \/ FillFile(p)

DaemonNext == \E d \in Daemons :
  \/ StartDaemon(d) \/ LoadIdentity(d) \/ OpenStores(d)
  \/ Probe(d) \/ Bind(d) \/ Rebind(d)
  \/ Signal(d) \/ DropListener(d) \/ Drain(d) \/ SessionLost(d)

ClientNext == \E c \in Clients :
  \/ \E l \in Lines : ReadLine(c, l)
  \/ Connect(c) \/ AcceptAndRead(c) \/ Dispatch(c) \/ OwnerAnswers(c)
  \/ ReadAnswer(c) \/ ReadEof(c) \/ DropHandler(c)

Next == InitNext \/ DaemonNext \/ ClientNext \/ (\E p \in Procs : Kill(p)) \/ KeychainFault

\* The operating system and the runtime run every process and task that can
\* run; nobody has to start one, stop one or type a line.  The owner answers
\* every command (EveryCallerAnswered of SessionOwner).
Fairness ==
  /\ \A c \in Clients :
       /\ WF_vars(Connect(c)) /\ WF_vars(AcceptAndRead(c)) /\ WF_vars(Dispatch(c))
       /\ WF_vars(OwnerAnswers(c)) /\ WF_vars(ReadAnswer(c)) /\ WF_vars(ReadEof(c))
  /\ \A d \in Daemons : WF_vars(Drain(d))

Spec == Init /\ [][Next]_vars

FairSpec == Spec /\ Fairness

-----------------------------------------------------------------------------
(* Properties.                                                             *)

\* A daemon that believes it is serving is the one the socket name leads to, so
\* that clients reach it and no two daemons serve at once.  For a filesystem path
\* and for a pipe this is the work of the probe (server.rs, start_ipc_server), and
\* holds as long as no probe missed a live listener and no two daemons were between
\* probe and bind at once; an abstract name and a file under /tmp are refused by the
\* system as well, and there it holds without exception.
ServingIsReachable ==
  ~raced \/ config.socket \in {"abstract", "tmp"} =>
    \A d \in Daemons : proc[d].pc = "serving" => socket = {d}

\* What the comments of probe_is_served and bind_with_stale_retry say of the rest:
\* "conflicts that appear between probe and bind surface as AddrInUse at create
\* time" (server.rs:72-73), so no two listeners are ever open.
ConflictsSurface == Cardinality(Listening) <= 1

\* A daemon refuses to start for a socket in use only when another daemon was
\* really serving while it started, or when a dead one's socket file could not be
\* removed: what a killed daemon left behind is otherwise reclaimed (server.rs,
\* bind_with_stale_retry), whatever crashed and when.
RefusalIsEarned ==
  \A d \in Daemons : proc[d].pc = "in_use" => proc[d].met \/ proc[d].stuck

\* What the head of server.rs says without that exception: "A leftover that
\* nothing answers is removed once and the bind retried" (server.rs:12-13).
LeftoverIsReclaimed == \A d \in Daemons : proc[d].pc = "in_use" => proc[d].met

\* Every process that came by an identity has the one identity on this machine:
\* the file holds it, complete, under the key in the keychain (unless that
\* entry has been lost), and nothing replaced it since, neither a command that
\* could not open it nor one that died half way (identity.rs, save and load;
\* main.rs, load_or_create_identity).  Two commands that create one at the same
\* time are the exception: see SaversAreConsistent.
IdentityAgrees ==
  overlap \/
  \A p \in Procs :
    (p \in Daemons /\ proc[p].id # NoId) \/ proc[p].pc = "done" =>
      /\ idfile.form = "whole" /\ idfile.box.plaintext = proc[p].id
      /\ keychain \in {NoKey, idfile.box.key.ikm}

\* What the comment of save says of two savers: "each writer's file is sealed under
\* whichever KEK it read -- self-consistent either way" (identity.rs:121-124), so
\* that once they are through the file opens under the key that is kept.
SaversAreConsistent ==
  (\A p \in Inits : ~Creating(p)) /\ idfile.form = "whole" =>
    keychain \in {NoKey, idfile.box.key.ikm}

\* Every call a client makes comes back, with the daemon's answer or with an
\* error, whether or not the daemon is there, stops, is killed or cannot read
\* the request (server.rs, handle_conn; ipc.rs, single_request).
EveryCallAnswered == \A c \in Clients : client[c].pc # "idle" ~> client[c].pc = "idle"
=============================================================================
