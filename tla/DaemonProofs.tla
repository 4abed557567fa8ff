---------------------------- MODULE DaemonProofs ----------------------------
(***************************************************************************)
(* Proofs about Daemon, for any sets of daemons, creators and clients, any *)
(* configurations and any bounds.  The inductive invariant has three parts *)
(* that need one another only for types: Types, what the socket name says  *)
(* about the daemons (SocketInv), and what the identity file and the       *)
(* keychain say about the processes that read them (StoreInv), which holds *)
(* until two processes have created an identity at once.                   *)
(***************************************************************************)
EXTENDS Daemon, TLAPS

-----------------------------------------------------------------------------
(* The inductive invariant.                                                *)

InitPcs   == {"off", "get", "set", "write", "fill", "done", "refused"}
DaemonPcs == {"off", "identity", "stores", "probe", "bind", "rebind", "serving",
              "draining", "closed", "in_use", "refused", "exited"}
Ids  == Nat \cup {NoId}
Keys == Nat \cup {NoKey}

Record == [pc : InitPcs \cup DaemonPcs, id : Ids, kek : Keys, met : BOOLEAN, stuck : BOOLEAN]

ProcType ==
  /\ proc \in [Procs -> Record]
  /\ \A d \in Daemons : proc[d].pc \in DaemonPcs
  /\ \A p \in Inits : proc[p].pc \in InitPcs

SocketType == socket \in SUBSET Daemons /\ raced \in BOOLEAN

StoreType ==
  /\ keychain \in Keys /\ locked \in BOOLEAN /\ fresh \in Nat
  /\ \/ idfile = Absent \/ idfile = Torn
     \/ \E k \in Keys, n \in Nat, i \in Ids : idfile = Blob(k, n, i)

Types == ProcType /\ SocketType /\ StoreType

Open     == {"serving", "draining"}
Starting == {"bind", "rebind"}

\* An abstract name and a file under /tmp lead to every daemon whose listener is
\* open.
NameLeads == config.socket \in {"abstract", "tmp"} => \A d \in Listening : socket = {d}

\* What is not a file is gone with its listener.
OpenOnly == ~OnDisk => socket \subseteq Listening

\* Until there has been a race, an open listener has the name to itself and nobody
\* is past the probe.
Alone ==
  ~raced => \A d \in Listening : socket = {d} /\ \A e \in Daemons : proc[e].pc \notin Starting

\* A daemon that no rival has met between its probe and its bind finds the name
\* not served and, at its second attempt, the file gone unless it was stuck.
FreeUntilMet ==
  \A d \in Daemons : ~proc[d].met /\ proc[d].pc \in Starting =>
    /\ ~Served
    /\ proc[d].pc = "rebind" /\ OnDisk /\ ~proc[d].stuck => socket = {}

SocketInv == NameLeads /\ OpenOnly /\ Alone /\ FreeUntilMet /\ RefusalIsEarned

\* No two processes create an identity at once.
OneCreator == \A p, q \in Inits : Creating(p) /\ Creating(q) => p = q

\* What the file is while a process creates it,
Underway ==
  \A p \in Inits :
    /\ proc[p].pc \in {"get", "set", "write"} => idfile = Absent
    /\ proc[p].pc = "fill" => idfile = Torn
    /\ proc[p].pc \in {"write", "fill"} => keychain \in {NoKey, proc[p].kek}

\* and what it is sealed under once it is there.
Sealed == idfile.form = "whole" => keychain \in {NoKey, idfile.box.key.ikm}

\* A process that has an identity has the file's.
Agreed ==
  \A p \in Procs :
    (p \in Daemons /\ proc[p].id # NoId) \/ proc[p].pc = "done" =>
      idfile.form = "whole" /\ idfile.box.plaintext = proc[p].id

StoreInv == Underway /\ Sealed /\ Agreed

Inv == Types /\ SocketInv

-----------------------------------------------------------------------------
(* The files and what loading them gives.                                  *)

\* The three forms of identity.enc, and what a complete one holds.
LEMMA Files ==
  /\ Absent.form = "absent" /\ Torn.form = "torn"
  /\ \A k, n, i : /\ Blob(k, n, i).form = "whole"
                  /\ Blob(k, n, i).box.plaintext = i
                  /\ Blob(k, n, i).box.key.ikm = k
  BY DEF Absent, Torn, Blob, AeadSeal, Dek, Hkdf

\* load answers with an identity only from a complete file, and it is the one
\* in the file; it reports not_found only when there is none.
LEMMA Loaded ==
  ASSUME NEW f, NEW k, NEW l,
         f = Absent \/ f = Torn \/ \E kk \in Keys, n \in Nat, i \in Ids : f = Blob(kk, n, i)
  PROVE  /\ Load(f, k, l).err = "none" =>
              f.form = "whole" /\ Load(f, k, l).id = f.box.plaintext /\ f.box.plaintext \in Ids
         /\ Load(f, k, l).err = "not_found" => f = Absent
  <1>. DEFINE got == KeychainGet(k, l)
  <1>0. got.err = "none" \/ got.err = "keychain_unavailable"
    BY DEF KeychainGet
  <1>1. CASE f = Absent
    <2>1. Load(f, k, l) = [err |-> "not_found"]
      BY <1>1 DEF Load, Absent
    <2>. QED  BY <1>1, <2>1
  <1>2. CASE f = Torn
    <2>1. Load(f, k, l) = [err |-> "corrupt"]
      BY <1>2 DEF Load, Torn
    <2>. QED  BY <2>1
  <1>3. ASSUME NEW kk \in Keys, NEW n \in Nat, NEW i \in Ids, f = Blob(kk, n, i)
        PROVE  /\ Load(f, k, l).err = "none" =>
                    /\ f.form = "whole" /\ Load(f, k, l).id = f.box.plaintext
                    /\ f.box.plaintext \in Ids
               /\ Load(f, k, l).err # "not_found"
    <2>1. f.form = "whole" /\ f.version = FORMAT_VERSION /\ f.box.plaintext = i
      BY <1>3 DEF Blob, AeadSeal
    <2>. HIDE DEF got
    <2>2. Load(f, k, l) =
            IF got.err # "none" THEN [err |-> got.err]
            ELSE IF got.kek = NoKey THEN [err |-> "key_missing"]
            ELSE IF ~AeadOpens(Dek(got.kek), f.nonce, f.box, "") THEN [err |-> "decrypt"]
            ELSE [err |-> "none", id |-> f.box.plaintext]
      BY <2>1 DEF Load, got
    <2>3. CASE got.err # "none"
      <3>1. Load(f, k, l) = [err |-> got.err]
        BY <2>2, <2>3
      <3>2. Load(f, k, l).err = "keychain_unavailable"
        BY <3>1, <1>0, <2>3
      <3>. QED  BY <3>2
    <2>4. CASE got.err = "none" /\ got.kek = NoKey
      <3>1. Load(f, k, l) = [err |-> "key_missing"]
        BY <2>2, <2>4
      <3>. QED  BY <3>1
    <2>5. CASE /\ got.err = "none" /\ got.kek # NoKey
               /\ ~AeadOpens(Dek(got.kek), f.nonce, f.box, "")
      <3>1. Load(f, k, l) = [err |-> "decrypt"]
        BY <2>2, <2>5
      <3>. QED  BY <3>1
    <2>6. CASE /\ got.err = "none" /\ got.kek # NoKey
               /\ AeadOpens(Dek(got.kek), f.nonce, f.box, "")
      <3>1. Load(f, k, l) = [err |-> "none", id |-> f.box.plaintext]
        BY <2>2, <2>6
      <3>. QED  BY <2>1, <3>1
    <2>. QED  BY <2>3, <2>4, <2>5, <2>6
  <1>. QED  BY <1>1, <1>2, <1>3

-----------------------------------------------------------------------------
(* How a process's record moves.                                           *)

\* The record of a process that starts over,
LEMMA Restarted ==
  ASSUME NEW pc \in InitPcs \cup DaemonPcs
  PROVE  /\ [Idle EXCEPT !.pc = pc] \in Record
         /\ [Idle EXCEPT !.pc = pc].pc = pc
         /\ [Idle EXCEPT !.pc = pc].id = NoId
  BY DEF Idle, Record, Ids, Keys

\* with an identity,
LEMMA RestartedWith ==
  ASSUME NEW pc \in InitPcs \cup DaemonPcs, NEW i \in Ids
  PROVE  /\ [Idle EXCEPT !.pc = pc, !.id = i] \in Record
         /\ [Idle EXCEPT !.pc = pc, !.id = i].pc = pc
         /\ [Idle EXCEPT !.pc = pc, !.id = i].id = i
  BY DEF Idle, Record, Ids, Keys

\* or having met a rival.
LEMMA RestartedMet ==
  ASSUME NEW pc \in InitPcs \cup DaemonPcs
  PROVE  /\ [Idle EXCEPT !.pc = pc, !.met = TRUE] \in Record
         /\ [Idle EXCEPT !.pc = pc, !.met = TRUE].pc = pc
         /\ [Idle EXCEPT !.pc = pc, !.met = TRUE].met
         /\ [Idle EXCEPT !.pc = pc, !.met = TRUE].id = NoId
  BY DEF Idle, Record, Ids, Keys

\* The record of a process that moves on.
LEMMA MovedOn ==
  ASSUME NEW r \in Record, NEW pc \in InitPcs \cup DaemonPcs
  PROVE  /\ [r EXCEPT !.pc = pc] \in Record
         /\ [r EXCEPT !.pc = pc].pc = pc
         /\ [r EXCEPT !.pc = pc].id = r.id
         /\ [r EXCEPT !.pc = pc].kek = r.kek
         /\ [r EXCEPT !.pc = pc].met = r.met
         /\ [r EXCEPT !.pc = pc].stuck = r.stuck
  BY DEF Record

\* One process gets a new record.
LEMMA OneMoves ==
  ASSUME proc \in [Procs -> Record], NEW p \in Procs, NEW r \in Record,
         proc' = [proc EXCEPT ![p] = r]
  PROVE  /\ proc' \in [Procs -> Record] /\ proc'[p] = r
         /\ \A q \in Procs : q # p => proc'[q] = proc[q]
  OBVIOUS

\* One process moves on (the pc of its record changes and nothing else).
LEMMA OneGoes ==
  ASSUME proc \in [Procs -> Record], NEW p \in Procs, NEW pc \in InitPcs \cup DaemonPcs,
         Goes(p, pc)
  PROVE  /\ proc' \in [Procs -> Record]
         /\ proc'[p].pc = pc /\ proc'[p].id = proc[p].id
         /\ proc'[p].kek = proc[p].kek /\ proc'[p].met = proc[p].met
         /\ \A q \in Procs : q # p => proc'[q] = proc[q]
  <1>1. proc[p] \in Record
    OBVIOUS
  <1>2. proc' = [proc EXCEPT ![p] = [proc[p] EXCEPT !.pc = pc]]
    BY DEF Goes
  <1>. QED  BY <1>1, <1>2, MovedOn, OneMoves

-----------------------------------------------------------------------------
(* What a step of one process does to the invariant.                       *)

\* A step of p that opens no listener keeps what the socket says, when the name
\* is left alone, when p's listener closes and the name with it, or when the file
\* it was is unlinked.
LEMMA SocketStep ==
  ASSUME ProcType, SocketType, SocketInv, NEW p \in Procs, config' = config,
         proc' \in [Procs -> Record],
         \A q \in Procs : q # p => proc'[q] = proc[q],
         raced' \in BOOLEAN, raced => raced',
         p \in Daemons =>
           /\ proc'[p].pc \in Open => proc[p].pc \in Open
           /\ proc'[p].pc = "in_use" => proc'[p].met \/ proc'[p].stuck
           /\ proc'[p].pc = "bind" /\ Served => proc'[p].met /\ raced'
           /\ proc'[p].pc # "rebind",
         \/ socket' = socket /\ (OnDisk \/ p \notin Listening \/ p \in Listening')
         \/ socket' = socket \ {p} /\ ~OnDisk /\ p \notin Listening'
         \/ socket' = {} /\ OnDisk /\ p \in Listening /\ p \notin Listening'
  PROVE  SocketInv'
  <1>. USE DEF SocketInv
  <1>0. OnDisk' = OnDisk
    BY DEF OnDisk
  <1>1. Listening' \subseteq Listening /\ Listening \ {p} \subseteq Listening'
    BY DEF Listening, Open, Procs
  <1>2. socket' \subseteq socket
    OBVIOUS
  <1>3. Served' => Served
    BY <1>1, <1>2 DEF Served
  <1>4. ASSUME \A e \in Listening : socket = {e}, NEW d \in Listening'
        PROVE  socket' = {d}
    <2>1. d \in Listening /\ socket = {d}
      BY <1>1, <1>4
    <2>2. CASE socket' = {} /\ p \in Listening /\ p \notin Listening'
      BY <1>4, <2>1, <2>2
    <2>. QED  BY <2>1, <2>2
  <1>5. NameLeads'
    BY <1>4 DEF NameLeads
  <1>6. OpenOnly'
    <2>1. SUFFICES ASSUME ~OnDisk PROVE socket' \subseteq Listening'
      BY <1>0 DEF OpenOnly
    <2>2. socket \subseteq Listening
      BY <2>1 DEF OpenOnly
    <2>. QED  BY <1>1, <2>1, <2>2
  <1>7. Alone'
    <2>1. SUFFICES ASSUME ~raced', NEW d \in Listening'
                   PROVE  socket' = {d} /\ \A e \in Daemons : proc'[e].pc \notin Starting
      BY DEF Alone
    <2>2. /\ \A f \in Listening : socket = {f}
          /\ d \in Listening /\ \A e \in Daemons : proc[e].pc \notin Starting
      BY <1>1, <2>1 DEF Alone
    <2>3. Served
      BY <2>2 DEF Served
    <2>. QED  BY <1>4, <2>1, <2>2, <2>3 DEF Starting, Procs
  <1>8. FreeUntilMet'
    <2>1. SUFFICES ASSUME NEW d \in Daemons, ~proc'[d].met, proc'[d].pc \in Starting
                   PROVE  /\ ~Served'
                          /\ proc'[d].pc = "rebind" /\ OnDisk /\ ~proc'[d].stuck => socket' = {}
      BY <1>0 DEF FreeUntilMet
    <2>2. CASE d = p
      BY <1>3, <2>1, <2>2 DEF Starting
    <2>3. CASE d # p
      <3>1. proc'[d] = proc[d]
        BY <2>3 DEF Procs
      <3>2. /\ ~Served
            /\ proc[d].pc = "rebind" /\ OnDisk /\ ~proc[d].stuck => socket = {}
        BY <2>1, <3>1 DEF FreeUntilMet
      <3>. QED  BY <1>2, <1>3, <3>1, <3>2
    <2>. QED  BY <2>2, <2>3
  <1>9. RefusalIsEarned'
    BY DEF RefusalIsEarned, Procs
  <1>. QED  BY <1>5, <1>6, <1>7, <1>8, <1>9

\* Creating the listener keeps what the socket says: the name was not served, or
\* there has been a race, and whoever is still starting has now met d.
LEMMA BindsKeeps ==
  ASSUME ProcType, SocketType, SocketInv, NEW d \in Daemons, NameTaken(FALSE), Binds(d),
         proc[d].pc \in Starting, config' = config
  PROVE  ProcType' /\ SocketType' /\ SocketInv'
  <1>. USE DEF SocketInv
  <1>0. OnDisk' = OnDisk
    BY DEF OnDisk
  <1>1. d \in Procs /\ d \notin Inits
    BY ProcessesAssumption DEF Procs
  <1>2. /\ proc' \in [Procs -> Record]
        /\ proc'[d].pc = "serving"
        /\ \A q \in Procs : q # d => proc'[q].pc = proc[q].pc
        /\ \A q \in Procs : q # d => proc'[q].stuck = proc[q].stuck
        /\ \A q \in Procs : q # d => (proc'[q].met \/ (proc'[q] = proc[q] /\ proc[q].pc \notin Starting))
    <2>1. \A r \in Record : [r EXCEPT !.met = TRUE] \in Record /\ [r EXCEPT !.met = TRUE].pc = r.pc
                            /\ [r EXCEPT !.met = TRUE].met /\ [r EXCEPT !.met = TRUE].stuck = r.stuck
      BY DEF Record
    <2>2. \A r \in Record : [r EXCEPT !.pc = "serving"] \in Record /\ [r EXCEPT !.pc = "serving"].pc = "serving"
      BY MovedOn DEF DaemonPcs
    <2>3. \A q \in Procs : proc[q] \in Record
      BY DEF ProcType
    <2>. QED  BY <1>1, <2>1, <2>2, <2>3 DEF Binds, Starting
  <1>3. ProcType'
    BY <1>1, <1>2 DEF ProcType, Procs, DaemonPcs
  <1>4. SocketType'
    <2>1. raced' \in BOOLEAN
      BY DEF SocketType, Binds
    <2>2. socket' \in SUBSET Daemons
      BY DEF SocketType, Binds
    <2>. QED  BY <2>1, <2>2 DEF SocketType
  <1>5. Listening' = Listening \cup {d}
    BY <1>2 DEF Listening, Procs
  <1>6. config.socket \in {"abstract", "tmp"} => socket' = {d}
    BY DEF Binds
  <1>7. NameLeads'
    <2>1. SUFFICES ASSUME config.socket \in {"abstract", "tmp"}, NEW e \in Listening
                   PROVE  FALSE
      BY <1>5, <1>6 DEF NameLeads
    <2>2. socket = {e} /\ Served
      BY <2>1 DEF NameLeads, Served
    <2>. QED  BY <2>1, <2>2 DEF NameTaken, OnDisk
  <1>8. OpenOnly'
    BY <1>0, <1>5 DEF OpenOnly, Binds
  <1>9. Alone'
    <2>1. SUFFICES ASSUME ~raced' PROVE /\ \A e \in Listening' : socket' = {e}
                                       /\ \A e \in Daemons : proc'[e].pc \notin Starting
      BY DEF Alone
    <2>2. ~raced /\ \A e \in Daemons \ {d} : proc[e].pc \notin Starting
      BY <2>1 DEF Binds, Starting
    <2>3. Listening = {}
      BY <2>2 DEF Alone
    <2>4. socket' = {d}
      <3>1. CASE config.socket = "pipe"
        BY <2>3, <3>1 DEF OpenOnly, OnDisk, Binds
      <3>2. CASE config.socket # "pipe"
        BY <3>2 DEF Binds
      <3>. QED  BY <3>1, <3>2
    <2>. QED  BY <1>2, <1>5, <2>2, <2>3, <2>4 DEF Starting, Procs
  <1>10. FreeUntilMet'
    BY <1>2 DEF FreeUntilMet, Procs, Starting
  <1>11. RefusalIsEarned'
    BY <1>2 DEF RefusalIsEarned, Procs
  <1>. QED  BY <1>3, <1>4, <1>7, <1>8, <1>9, <1>10, <1>11

\* A step of p that touches neither file nor keychain keeps what they say, when
\* p gives up its identity, keeps it, or reads the one in the file.
LEMMA StoreStep ==
  ASSUME ProcType, StoreInv, NEW p \in Procs, UNCHANGED <<idfile, keychain>>,
         ProcType', \A q \in Procs : q # p => proc'[q] = proc[q],
         p \in Daemons =>
           \/ proc'[p].id = NoId \/ proc'[p].id = proc[p].id
           \/ idfile.form = "whole" /\ idfile.box.plaintext = proc'[p].id,
         p \in Inits =>
           \/ proc'[p].pc \in {"off", "refused"}
           \/ proc'[p].pc = "done" /\ idfile.form = "whole" /\ idfile.box.plaintext = proc'[p].id
           \/ proc'[p].pc \in {"get", "set"} /\ idfile = Absent
           \/ proc'[p].pc = "write" /\ idfile = Absent /\ proc'[p].kek = keychain
  PROVE  StoreInv'
  <1>. USE DEF StoreInv
  <1>1. Underway'
    <2>1. SUFFICES ASSUME NEW q \in Inits
                   PROVE  /\ proc'[q].pc \in {"get", "set", "write"} => idfile = Absent
                          /\ proc'[q].pc = "fill" => idfile = Torn
                          /\ proc'[q].pc \in {"write", "fill"} => keychain \in {NoKey, proc'[q].kek}
      BY DEF Underway
    <2>2. CASE q = p
      BY <2>2
    <2>3. CASE q # p
      BY <2>3 DEF Underway, Procs
    <2>. QED  BY <2>2, <2>3
  <1>2. Sealed'
    BY DEF Sealed
  <1>3. Agreed'
    <2>1. SUFFICES ASSUME NEW q \in Procs, (q \in Daemons /\ proc'[q].id # NoId) \/ proc'[q].pc = "done"
                   PROVE  idfile.form = "whole" /\ idfile.box.plaintext = proc'[q].id
      BY DEF Agreed
    <2>2. CASE q # p
      BY <2>1, <2>2 DEF Agreed
    <2>3. CASE q = p /\ q \in Daemons
      <3>1. proc'[q].pc # "done"
        BY <2>3 DEF ProcType, DaemonPcs
      <3>2. proc'[q].id # NoId
        BY <2>1, <2>3, <3>1
      <3>. QED  BY <2>3, <3>2 DEF Agreed
    <2>4. CASE q = p /\ q \in Inits /\ q \notin Daemons
      <3>1. proc'[q].pc = "done"
        BY <2>1, <2>4
      <3>. QED  BY <2>4, <3>1
    <2>. QED  BY <2>2, <2>3, <2>4 DEF Procs
  <1>. QED  BY <1>1, <1>2, <1>3

-----------------------------------------------------------------------------
(* The creators' steps.                                                    *)

\* load_or_create_identity: an identity read from the file, a new one when there
\* is no file, or a refusal.
LEMMA LoadOrCreateKeeps ==
  ASSUME Inv, NEW p \in Inits, LoadOrCreate(p)
  PROVE  Inv' /\ (StoreInv => StoreInv')
  <1>. USE DEF Inv, Types
  <1>. DEFINE got == Load(idfile, keychain, locked)
  <1>1. p \notin Daemons /\ p \in Procs
    BY ProcessesAssumption DEF Procs
  <1>2. /\ got.err = "none" =>
             idfile.form = "whole" /\ got.id = idfile.box.plaintext /\ got.id \in Ids
        /\ got.err = "not_found" => idfile = Absent
    BY Loaded DEF StoreType
  <1>. HIDE DEF got
  <1>3. /\ proc' \in [Procs -> Record]
        /\ \A q \in Procs : q # p => proc'[q] = proc[q]
        /\ \/ proc'[p].pc = "refused"
           \/ proc'[p].pc = "done" /\ idfile.form = "whole" /\ idfile.box.plaintext = proc'[p].id
           \/ proc'[p].pc = "get" /\ idfile = Absent
    <2>1. CASE /\ got.err = "none"
               /\ proc' = [proc EXCEPT ![p] = [Idle EXCEPT !.pc = "done", !.id = got.id]]
      <3>. DEFINE r == [Idle EXCEPT !.pc = "done", !.id = got.id]
      <3>1. r \in Record /\ r.pc = "done" /\ r.id = got.id
        <4>1. got.id \in Ids /\ "done" \in InitPcs \cup DaemonPcs
          BY <1>2, <2>1 DEF InitPcs
        <4>. QED  BY <4>1, RestartedWith
      <3>2. proc' = [proc EXCEPT ![p] = r]
        BY <2>1
      <3>. HIDE DEF r
      <3>. QED  BY <1>1, <1>2, <2>1, <3>1, <3>2, OneMoves DEF ProcType
    <2>2. CASE /\ MayCreate(got.err)
               /\ proc' = [proc EXCEPT ![p] = [Idle EXCEPT !.pc = "get", !.id = fresh]]
      <3>1. fresh \in Ids /\ idfile = Absent
        BY <1>2, <2>2 DEF StoreType, Ids, MayCreate
      <3>. DEFINE r == [Idle EXCEPT !.pc = "get", !.id = fresh]
      <3>2. r \in Record /\ r.pc = "get"
        BY <3>1, RestartedWith DEF InitPcs
      <3>3. proc' = [proc EXCEPT ![p] = r]
        BY <2>2
      <3>. HIDE DEF r
      <3>. QED  BY <1>1, <3>1, <3>2, <3>3, OneMoves DEF ProcType
    <2>3. CASE proc' = [proc EXCEPT ![p] = [Idle EXCEPT !.pc = "refused"]]
      <3>1. NoId \in Ids
        BY DEF Ids
      <3>. QED  BY <1>1, <2>3, <3>1, Restarted, OneMoves DEF ProcType, InitPcs
    <2>. QED  BY <2>1, <2>2, <2>3 DEF LoadOrCreate, got
  <1>4. ProcType'
    BY <1>1, <1>3 DEF ProcType, InitPcs, Procs
  <1>5. SocketType' /\ StoreType'
    BY DEF LoadOrCreate, SocketType, StoreType
  <1>6. UNCHANGED <<config, socket, raced, idfile, keychain>>
    BY DEF LoadOrCreate
  <1>7. SocketInv'
    BY <1>1, <1>3, <1>5, <1>6, SocketStep DEF Listening, SocketType
  <1>8. ASSUME StoreInv PROVE StoreInv'
    BY <1>1, <1>3, <1>4, <1>6, <1>8, StoreStep
  <1>. QED  BY <1>4, <1>5, <1>7, <1>8

\* save, the key-encryption key: the keychain's, or a new one.
LEMMA GetKekKeeps ==
  ASSUME Inv, NEW p \in Inits, GetKek(p)
  PROVE  Inv' /\ (StoreInv => StoreInv')
  <1>. USE DEF Inv, Types
  <1>1. p \notin Daemons /\ p \in Procs
    BY ProcessesAssumption DEF Procs
  <1>2. proc[p].pc = "get" /\ proc[p] \in Record
    BY <1>1 DEF GetKek, ProcType
  <1>3. /\ proc' \in [Procs -> Record]
        /\ \A q \in Procs : q # p => proc'[q] = proc[q]
        /\ \/ proc'[p].pc = "refused"
           \/ proc'[p].pc = "write" /\ proc'[p].kek = keychain
           \/ proc'[p].pc = "set"
    <2>0. \A r \in Record, pc \in {"write", "set"}, k \in Keys :
            /\ [r EXCEPT !.pc = pc, !.kek = k] \in Record
            /\ [r EXCEPT !.pc = pc, !.kek = k].pc = pc
            /\ [r EXCEPT !.pc = pc, !.kek = k].kek = k
      BY DEF Record, InitPcs
    <2>1. CASE proc' = [proc EXCEPT ![p] = [Idle EXCEPT !.pc = "refused"]]
      <3>1. NoId \in Ids
        BY DEF Ids
      <3>. QED  BY <1>1, <2>1, <3>1, Restarted, OneMoves DEF ProcType, InitPcs
    <2>2. CASE proc' = [proc EXCEPT ![p].pc = "write", ![p].kek = keychain]
      <3>1. keychain \in Keys
        BY DEF StoreType
      <3>. DEFINE r == [proc[p] EXCEPT !.pc = "write", !.kek = keychain]
      <3>2. r \in Record /\ r.pc = "write" /\ r.kek = keychain
        BY <1>2, <2>0, <3>1
      <3>3. proc' = [proc EXCEPT ![p] = r]
        BY <1>1, <2>2 DEF ProcType
      <3>. HIDE DEF r
      <3>. QED  BY <1>1, <3>2, <3>3, OneMoves DEF ProcType
    <2>3. CASE proc' = [proc EXCEPT ![p].pc = "set", ![p].kek = fresh]
      <3>1. fresh \in Keys
        BY DEF StoreType, Keys
      <3>. DEFINE r == [proc[p] EXCEPT !.pc = "set", !.kek = fresh]
      <3>2. r \in Record /\ r.pc = "set" /\ r.kek = fresh
        BY <1>2, <2>0, <3>1
      <3>3. proc' = [proc EXCEPT ![p] = r]
        BY <1>1, <2>3 DEF ProcType
      <3>. HIDE DEF r
      <3>. QED  BY <1>1, <3>2, <3>3, OneMoves DEF ProcType
    <2>. QED  BY <2>1, <2>2, <2>3 DEF GetKek, KeychainGet
  <1>4. ProcType'
    BY <1>1, <1>3 DEF ProcType, InitPcs, Procs
  <1>5. SocketType' /\ StoreType'
    BY DEF GetKek, SocketType, StoreType
  <1>6. UNCHANGED <<config, socket, raced, idfile, keychain>>
    BY DEF GetKek
  <1>7. SocketInv'
    BY <1>1, <1>3, <1>5, <1>6, SocketStep DEF Listening, SocketType
  <1>8. ASSUME StoreInv PROVE StoreInv'
    <2>1. idfile = Absent
      BY <1>2, <1>8 DEF StoreInv, Underway
    <2>. QED  BY <1>1, <1>3, <1>4, <1>6, <1>8, <2>1, StoreStep
  <1>. QED  BY <1>4, <1>5, <1>7, <1>8

\* save, the new key in the keychain.
LEMMA SetKekKeeps ==
  ASSUME Inv, NEW p \in Inits, SetKek(p)
  PROVE  Inv' /\ (StoreInv /\ OneCreator => StoreInv')
  <1>. USE DEF Inv, Types
  <1>1. p \notin Daemons /\ p \in Procs
    BY ProcessesAssumption DEF Procs
  <1>2. proc[p].pc = "set" /\ proc[p] \in Record
    BY <1>1 DEF SetKek, ProcType
  <1>3. /\ proc' \in [Procs -> Record]
        /\ \A q \in Procs : q # p => proc'[q] = proc[q]
        /\ \/ proc'[p].pc = "refused" /\ keychain' = keychain
           \/ /\ proc'[p].pc = "write" /\ proc'[p].kek = proc[p].kek
              /\ keychain' = proc[p].kek
    <2>1. CASE locked
      <3>. DEFINE r == [Idle EXCEPT !.pc = "refused"]
      <3>1. r \in Record /\ r.pc = "refused"
        BY Restarted DEF InitPcs, Ids
      <3>2. proc' = [proc EXCEPT ![p] = r] /\ keychain' = keychain
        BY <2>1 DEF SetKek
      <3>. HIDE DEF r
      <3>. QED  BY <1>1, <3>1, <3>2, OneMoves DEF ProcType
    <2>2. CASE ~locked
      <3>1. Goes(p, "write") /\ keychain' = proc[p].kek
        BY <2>2 DEF SetKek
      <3>. QED  BY <1>1, <3>1, OneGoes DEF ProcType, InitPcs
    <2>. QED  BY <2>1, <2>2
  <1>4. ProcType'
    BY <1>1, <1>3 DEF ProcType, InitPcs, Procs
  <1>5. SocketType' /\ StoreType'
    <2>1. proc[p].kek \in Keys
      BY <1>2 DEF Record
    <2>. QED  BY <1>3, <2>1 DEF SetKek, SocketType, StoreType
  <1>6. UNCHANGED <<config, socket, raced, idfile>>
    BY DEF SetKek
  <1>7. SocketInv'
    BY <1>1, <1>3, <1>5, <1>6, SocketStep DEF Listening, SocketType
  <1>8. ASSUME StoreInv, OneCreator PROVE StoreInv'
    <2>1. idfile = Absent /\ idfile.form # "whole"
      BY <1>2, <1>8, Files DEF StoreInv, Underway
    <2>2. \A q \in Inits : q # p => proc[q].pc \notin {"get", "set", "write", "fill"}
      BY <1>2, <1>8 DEF OneCreator, Creating
    <2>3. Underway'
      BY <1>1, <1>3, <1>6, <2>1, <2>2 DEF Underway, Procs
    <2>4. Sealed'
      BY <1>6, <2>1 DEF Sealed
    <2>5. Agreed'
      BY <1>1, <1>3, <1>6, <1>8, <2>1 DEF StoreInv, Agreed
    <2>. QED  BY <2>3, <2>4, <2>5 DEF StoreInv
  <1>. QED  BY <1>4, <1>5, <1>7, <1>8

\* save, the file: it is truncated only while it was absent, so nobody loses an
\* identity, and filled with the key that is in the keychain or was lost from it.
LEMMA TruncateFileKeeps ==
  ASSUME Inv, NEW p \in Inits, TruncateFile(p)
  PROVE  Inv' /\ (StoreInv /\ OneCreator => StoreInv')
  <1>. USE DEF Inv, Types
  <1>1. p \notin Daemons /\ p \in Procs
    BY ProcessesAssumption DEF Procs
  <1>2. proc[p].pc = "write" /\ Goes(p, "fill") /\ idfile' = Torn
    BY DEF TruncateFile
  <1>3. /\ proc' \in [Procs -> Record]
        /\ proc'[p].pc = "fill" /\ proc'[p].kek = proc[p].kek
        /\ \A q \in Procs : q # p => proc'[q] = proc[q]
    BY <1>1, <1>2, OneGoes DEF ProcType, InitPcs
  <1>4. ProcType'
    BY <1>1, <1>3 DEF ProcType, InitPcs, Procs
  <1>5. SocketType' /\ StoreType'
    BY DEF TruncateFile, SocketType, StoreType
  <1>6. UNCHANGED <<config, socket, raced, keychain>>
    BY DEF TruncateFile
  <1>7. SocketInv'
    BY <1>1, <1>3, <1>5, <1>6, SocketStep DEF Listening, SocketType
  <1>8. ASSUME StoreInv, OneCreator PROVE StoreInv'
    <2>1. idfile.form # "whole" /\ idfile'.form # "whole"
      BY <1>2, <1>8, Files DEF StoreInv, Underway
    <2>2. \A q \in Inits : q # p => proc[q].pc \notin {"get", "set", "write", "fill"}
      BY <1>2, <1>8 DEF OneCreator, Creating
    <2>3. keychain \in {NoKey, proc[p].kek}
      BY <1>2, <1>8 DEF StoreInv, Underway
    <2>4. Underway'
      BY <1>1, <1>2, <1>3, <1>6, <2>2, <2>3 DEF Underway, Procs
    <2>5. Sealed'
      BY <2>1 DEF Sealed
    <2>6. Agreed'
      BY <1>1, <1>3, <1>8, <2>1 DEF StoreInv, Agreed
    <2>. QED  BY <2>4, <2>5, <2>6 DEF StoreInv
  <1>. QED  BY <1>4, <1>5, <1>7, <1>8

LEMMA FillFileKeeps ==
  ASSUME Inv, NEW p \in Inits, FillFile(p)
  PROVE  Inv' /\ (StoreInv /\ OneCreator => StoreInv')
  <1>. USE DEF Inv, Types
  <1>1. p \notin Daemons /\ p \in Procs
    BY ProcessesAssumption DEF Procs
  <1>2. /\ proc[p].pc = "fill" /\ Goes(p, "done") /\ idfile' = Blob(proc[p].kek, fresh, proc[p].id)
        /\ proc[p] \in Record
    BY <1>1 DEF FillFile, ProcType
  <1>3. /\ proc' \in [Procs -> Record]
        /\ proc'[p].pc = "done" /\ proc'[p].id = proc[p].id
        /\ \A q \in Procs : q # p => proc'[q] = proc[q]
    BY <1>1, <1>2, OneGoes DEF ProcType, InitPcs
  <1>4. ProcType'
    BY <1>1, <1>3 DEF ProcType, InitPcs, Procs
  <1>5. SocketType' /\ StoreType'
    <2>1. proc[p].kek \in Keys /\ proc[p].id \in Ids
      BY <1>2 DEF Record
    <2>. QED  BY <1>2, <2>1 DEF FillFile, SocketType, StoreType
  <1>6. UNCHANGED <<config, socket, raced, keychain>>
    BY DEF FillFile
  <1>7. SocketInv'
    BY <1>1, <1>3, <1>5, <1>6, SocketStep DEF Listening, SocketType
  <1>8. ASSUME StoreInv, OneCreator PROVE StoreInv'
    <2>1. /\ idfile.form # "whole" /\ idfile'.form = "whole"
          /\ idfile'.box.plaintext = proc[p].id /\ idfile'.box.key.ikm = proc[p].kek
      BY <1>2, <1>8, Files DEF StoreInv, Underway
    <2>2. \A q \in Inits : q # p => proc[q].pc \notin {"get", "set", "write", "fill"}
      BY <1>2, <1>8 DEF OneCreator, Creating
    <2>3. keychain \in {NoKey, proc[p].kek}
      BY <1>2, <1>8 DEF StoreInv, Underway
    <2>4. Underway'
      BY <1>1, <1>3, <2>2 DEF Underway, Procs
    <2>5. Sealed'
      BY <1>6, <2>1, <2>3 DEF Sealed
    <2>6. Agreed'
      BY <1>1, <1>3, <1>8, <2>1 DEF StoreInv, Agreed
    <2>. QED  BY <2>4, <2>5, <2>6 DEF StoreInv
  <1>. QED  BY <1>4, <1>5, <1>7, <1>8

-----------------------------------------------------------------------------
(* The daemons' steps.                                                     *)

\* The refuse-to-start chain up to the probe.
LEMMA StartDaemonKeeps ==
  ASSUME Inv, NEW d \in Daemons, StartDaemon(d)
  PROVE  Inv' /\ (StoreInv => StoreInv')
  <1>. USE DEF Inv, Types
  <1>. DEFINE pc == IF Resolves(config) THEN "identity" ELSE "refused"
              r  == [Idle EXCEPT !.pc = pc]
  <1>1. d \notin Inits /\ d \in Procs
    BY ProcessesAssumption DEF Procs
  <1>2. /\ pc \in {"identity", "refused"} /\ proc' = [proc EXCEPT ![d] = r]
        /\ d \notin Listening
    BY DEF StartDaemon, Stopped, Listening
  <1>. HIDE DEF pc
  <1>3. r \in Record /\ r.pc = pc /\ r.id = NoId
    BY <1>2, Restarted DEF DaemonPcs, Ids
  <1>. HIDE DEF r
  <1>4. /\ proc' \in [Procs -> Record] /\ proc'[d] = r
        /\ \A q \in Procs : q # d => proc'[q] = proc[q]
    BY <1>1, <1>2, <1>3, OneMoves DEF ProcType
  <1>5. ProcType'
    BY <1>1, <1>2, <1>3, <1>4 DEF ProcType, DaemonPcs, Procs
  <1>6. UNCHANGED <<config, socket, raced, idfile, keychain, locked, fresh>>
    BY DEF StartDaemon, machine
  <1>7. SocketInv'
    BY <1>1, <1>2, <1>3, <1>4, <1>6, SocketStep DEF Open, SocketType
  <1>8. ASSUME StoreInv PROVE StoreInv'
    BY <1>1, <1>3, <1>4, <1>5, <1>6, <1>8, StoreStep
  <1>. QED  BY <1>5, <1>6, <1>7, <1>8 DEF SocketType, StoreType

LEMMA LoadIdentityKeeps ==
  ASSUME Inv, NEW d \in Daemons, LoadIdentity(d)
  PROVE  Inv' /\ (StoreInv => StoreInv')
  <1>. USE DEF Inv, Types
  <1>. DEFINE got == Load(idfile, keychain, locked)
              r   == IF got.err = "none" THEN [Idle EXCEPT !.pc = "stores", !.id = got.id]
                                         ELSE [Idle EXCEPT !.pc = "refused"]
  <1>1. d \notin Inits /\ d \in Procs
    BY ProcessesAssumption DEF Procs
  <1>2. got.err = "none" =>
          idfile.form = "whole" /\ got.id = idfile.box.plaintext /\ got.id \in Ids
    BY Loaded DEF StoreType
  <1>3. proc' = [proc EXCEPT ![d] = r] /\ d \notin Listening
    BY DEF LoadIdentity, Listening
  <1>. HIDE DEF got
  <1>4. /\ r \in Record /\ r.pc \in {"stores", "refused"}
        /\ r.id = NoId \/ (idfile.form = "whole" /\ idfile.box.plaintext = r.id)
    <2>1. CASE got.err = "none"
      <3>1. got.id \in Ids /\ "stores" \in InitPcs \cup DaemonPcs
        BY <1>2, <2>1 DEF DaemonPcs
      <3>2. r = [Idle EXCEPT !.pc = "stores", !.id = got.id]
        BY <2>1
      <3>. HIDE DEF r
      <3>3. r \in Record /\ r.pc = "stores" /\ r.id = got.id
        BY <3>1, <3>2, RestartedWith
      <3>. QED  BY <1>2, <2>1, <3>3
    <2>2. CASE got.err # "none"
      <3>1. NoId \in Ids /\ "refused" \in InitPcs \cup DaemonPcs
        BY DEF Ids, DaemonPcs
      <3>2. r = [Idle EXCEPT !.pc = "refused"]
        BY <2>2
      <3>. QED  BY <3>1, <3>2, Restarted
    <2>. QED  BY <2>1, <2>2
  <1>. HIDE DEF r
  <1>5. /\ proc' \in [Procs -> Record] /\ proc'[d] = r
        /\ \A q \in Procs : q # d => proc'[q] = proc[q]
    BY <1>1, <1>3, <1>4, OneMoves DEF ProcType
  <1>6. ProcType'
    BY <1>1, <1>4, <1>5 DEF ProcType, DaemonPcs, Procs
  <1>7. UNCHANGED <<config, socket, raced, idfile, keychain, locked, fresh>>
    BY DEF LoadIdentity, machine
  <1>8. SocketInv'
    BY <1>1, <1>3, <1>4, <1>5, <1>7, SocketStep DEF Open, SocketType
  <1>9. ASSUME StoreInv PROVE StoreInv'
    BY <1>1, <1>4, <1>5, <1>6, <1>7, <1>9, StoreStep
  <1>. QED  BY <1>6, <1>7, <1>8, <1>9 DEF SocketType, StoreType

LEMMA OpenStoresKeeps ==
  ASSUME Inv, NEW d \in Daemons, OpenStores(d)
  PROVE  Inv' /\ (StoreInv => StoreInv')
  <1>. USE DEF Inv, Types
  <1>1. d \notin Inits /\ d \in Procs
    BY ProcessesAssumption DEF Procs
  <1>2. /\ proc' \in [Procs -> Record]
        /\ proc'[d].pc \in {"probe", "refused"}
        /\ proc'[d].id = NoId \/ proc'[d].id = proc[d].id
        /\ \A q \in Procs : q # d => proc'[q] = proc[q]
    <2>1. CASE Goes(d, "probe")
      BY <1>1, <2>1, OneGoes DEF ProcType, DaemonPcs
    <2>2. CASE proc' = [proc EXCEPT ![d] = [Idle EXCEPT !.pc = "refused"]]
      <3>1. NoId \in Ids /\ "refused" \in InitPcs \cup DaemonPcs
        BY DEF Ids, DaemonPcs
      <3>. QED  BY <1>1, <2>2, <3>1, Restarted, OneMoves DEF ProcType
    <2>. QED  BY <2>1, <2>2 DEF OpenStores
  <1>3. ProcType'
    BY <1>1, <1>2 DEF ProcType, DaemonPcs, Procs
  <1>4. UNCHANGED <<config, socket, raced, idfile, keychain, locked, fresh>> /\ d \notin Listening
    BY DEF OpenStores, machine, Listening
  <1>5. SocketInv'
    BY <1>1, <1>2, <1>4, SocketStep DEF Open, SocketType
  <1>6. ASSUME StoreInv PROVE StoreInv'
    BY <1>1, <1>2, <1>3, <1>4, <1>6, StoreStep
  <1>. QED  BY <1>3, <1>4, <1>5, <1>6 DEF SocketType, StoreType

\* The probe: refused by a live rival, or on to the bind; if it missed a listener
\* there has been a race and d has met it.
LEMMA ProbeKeeps ==
  ASSUME Inv, NEW d \in Daemons, Probe(d)
  PROVE  Inv' /\ (StoreInv => StoreInv')
  <1>. USE DEF Inv, Types
  <1>1. d \notin Inits /\ d \in Procs
    BY ProcessesAssumption DEF Procs
  <1>2. /\ proc' \in [Procs -> Record]
        /\ proc'[d].pc \in {"in_use", "bind"}
        /\ proc'[d].pc = "in_use" => proc'[d].met
        /\ proc'[d].pc = "bind" /\ Served => proc'[d].met /\ raced'
        /\ proc'[d].id = NoId \/ proc'[d].id = proc[d].id
        /\ \A q \in Procs : q # d => proc'[q] = proc[q]
        /\ raced' \in BOOLEAN /\ (raced => raced')
    <2>1. CASE /\ proc' = [proc EXCEPT ![d] = [Idle EXCEPT !.pc = "in_use", !.met = TRUE]]
               /\ UNCHANGED raced
      <3>1. NoId \in Ids /\ "in_use" \in InitPcs \cup DaemonPcs
        BY DEF Ids, DaemonPcs
      <3>. QED  BY <1>1, <2>1, <3>1, RestartedMet, OneMoves DEF ProcType, SocketType
    <2>2. CASE /\ proc' = [proc EXCEPT ![d].pc = "bind", ![d].met = Served]
               /\ raced' = (raced \/ Served)
      <3>. DEFINE r == [proc[d] EXCEPT !.pc = "bind", !.met = Served]
      <3>1. r \in Record /\ r.pc = "bind" /\ r.met = Served /\ r.id = proc[d].id
        <4>1. Served \in BOOLEAN /\ proc[d] \in Record
          BY <1>1 DEF Served, ProcType
        <4>2. \A b \in BOOLEAN, x \in Record :
                /\ [x EXCEPT !.pc = "bind", !.met = b] \in Record
                /\ [x EXCEPT !.pc = "bind", !.met = b].pc = "bind"
                /\ [x EXCEPT !.pc = "bind", !.met = b].met = b
                /\ [x EXCEPT !.pc = "bind", !.met = b].id = x.id
          BY DEF Record, DaemonPcs
        <4>. QED  BY <4>1, <4>2
      <3>2. proc' = [proc EXCEPT ![d] = r]
        BY <1>1, <2>2 DEF ProcType
      <3>3. raced' \in BOOLEAN /\ (raced => raced') /\ (Served => raced')
        BY <2>2 DEF SocketType, Served
      <3>. HIDE DEF r
      <3>. QED  BY <1>1, <3>1, <3>2, <3>3, OneMoves DEF ProcType
    <2>. QED  BY <2>1, <2>2 DEF Probe
  <1>3. ProcType'
    BY <1>1, <1>2 DEF ProcType, DaemonPcs, Procs
  <1>4. UNCHANGED <<config, socket, idfile, keychain, locked, fresh>> /\ d \notin Listening
    BY DEF Probe, machine, Listening
  <1>5. SocketInv'
    BY <1>1, <1>2, <1>4, SocketStep DEF Open
  <1>6. ASSUME StoreInv PROVE StoreInv'
    BY <1>1, <1>2, <1>3, <1>4, <1>6, StoreStep
  <1>. QED  BY <1>2, <1>3, <1>4, <1>5, <1>6 DEF SocketType, StoreType

\* A bind touches no identity: its records differ in pc and met.
LEMMA BindsStores ==
  ASSUME ProcType, ProcType', StoreInv, NEW d \in Daemons, Binds(d), UNCHANGED <<idfile, keychain>>
  PROVE  StoreInv'
  <1>. USE DEF StoreInv
  <1>1. d \notin Inits /\ d \in Procs
    BY ProcessesAssumption DEF Procs
  <1>2. \A q \in Procs : proc'[q].id = proc[q].id /\ proc'[q].kek = proc[q].kek
    <2>1. \A r \in Record : /\ [r EXCEPT !.met = TRUE].id = r.id /\ [r EXCEPT !.met = TRUE].kek = r.kek
                            /\ [r EXCEPT !.pc = "serving"].id = r.id
                            /\ [r EXCEPT !.pc = "serving"].kek = r.kek
      BY DEF Record
    <2>2. \A q \in Procs : proc[q] \in Record
      BY DEF ProcType
    <2>. QED  BY <2>1, <2>2 DEF Binds
  <1>3. \A q \in Inits : proc'[q].pc = proc[q].pc
    <2>1. \A r \in Record : [r EXCEPT !.met = TRUE].pc = r.pc
      BY DEF Record
    <2>2. \A q \in Inits : q \in Procs /\ proc[q] \in Record
      BY DEF ProcType, Procs
    <2>. QED  BY <1>1, <2>1, <2>2 DEF Binds
  <1>4. \A q \in Daemons : proc'[q].pc # "done" /\ proc[q].pc # "done"
    BY DEF ProcType, DaemonPcs
  <1>5. Underway' /\ Sealed'
    BY <1>2, <1>3 DEF Underway, Sealed, Procs
  <1>6. Agreed'
    <2>1. SUFFICES ASSUME NEW q \in Procs, (q \in Daemons /\ proc'[q].id # NoId) \/ proc'[q].pc = "done"
                   PROVE  idfile.form = "whole" /\ idfile.box.plaintext = proc'[q].id
      BY DEF Agreed
    <2>2. (q \in Daemons /\ proc[q].id # NoId) \/ proc[q].pc = "done"
      BY <1>2, <1>3, <1>4, <2>1 DEF Procs
    <2>. QED  BY <1>2, <2>2 DEF Agreed
  <1>. QED  BY <1>5, <1>6

\* A create that fails with another error than AddrInUse ends the start.
LEMMA CreateFailsKeeps ==
  ASSUME Inv, NEW d \in Daemons, CreateFails(d), proc[d].pc \in Starting,
         UNCHANGED <<config, idfile, keychain, locked, fresh>>
  PROVE  Inv' /\ (StoreInv => StoreInv')
  <1>. USE DEF Inv, Types
  <1>1. d \notin Inits /\ d \in Procs
    BY ProcessesAssumption DEF Procs
  <1>2. UNCHANGED <<socket, raced>> /\ d \notin Listening
    BY DEF CreateFails, Listening, Starting
  <1>3. /\ proc' \in [Procs -> Record]
        /\ proc'[d].pc = "refused" /\ proc'[d].id = NoId
        /\ \A q \in Procs : q # d => proc'[q] = proc[q]
    <2>1. NoId \in Ids /\ "refused" \in InitPcs \cup DaemonPcs
      BY DEF Ids, DaemonPcs
    <2>. QED  BY <1>1, <2>1, Restarted, OneMoves DEF ProcType, CreateFails
  <1>4. ProcType'
    BY <1>1, <1>3 DEF ProcType, DaemonPcs, Procs
  <1>5. SocketInv'
    BY <1>1, <1>2, <1>3, SocketStep DEF Open, SocketType
  <1>6. ASSUME StoreInv PROVE StoreInv'
    BY <1>1, <1>2, <1>3, <1>4, <1>6, StoreStep
  <1>. QED  BY <1>2, <1>4, <1>5, <1>6 DEF SocketType, StoreType

\* bind_with_stale_retry: the first attempt creates the listener, or removes what
\* is left of a dead one, or finds that it cannot,
LEMMA BindKeeps ==
  ASSUME Inv, NEW d \in Daemons, Bind(d)
  PROVE  Inv' /\ (StoreInv => StoreInv')
  <1>. USE DEF Inv, Types
  <1>1. d \notin Inits /\ d \in Procs
    BY ProcessesAssumption DEF Procs
  <1>2. /\ proc[d].pc = "bind" /\ UNCHANGED <<config, idfile, keychain, locked, fresh>>
        /\ proc[d].pc \in Starting
    BY DEF Bind, machine, Starting
  <1>3. StoreType'
    BY <1>2 DEF StoreType
  <1>4. ASSUME NameTaken(TRUE), NEW x \in RemoveStaleSocket, socket' = x.left,
               proc' = [proc EXCEPT ![d].pc = "rebind", ![d].stuck = x.failed],
               UNCHANGED raced
        PROVE  Inv' /\ (StoreInv => StoreInv')
    <2>0. OnDisk' = OnDisk
      BY <1>2 DEF OnDisk
    <2>1. /\ x.failed \in BOOLEAN
          /\ \/ config.socket = "path" /\ socket' = {} /\ x.failed = FALSE
             \/ config.socket = "path" /\ socket' = socket /\ x.failed = TRUE
             \/ config.socket # "path" /\ socket' = socket /\ (OnDisk /\ ~Served => x.failed)
      <3>. DEFINE b == OnDisk /\ ~Served
      <3>1. b \in BOOLEAN /\ (OnDisk /\ ~Served => b)
        BY Zenon
      <3>. HIDE DEF b
      <3>2. CASE config.socket = "path"
        <4>1. \/ x = [left |-> {}, failed |-> FALSE]
              \/ x = [left |-> socket, failed |-> TRUE]
          BY <3>2, Zenon DEF RemoveStaleSocket
        <4>2. \/ x.left = {} /\ x.failed = FALSE
              \/ x.left = socket /\ x.failed = TRUE
          BY <4>1
        <4>. QED  BY <1>4, <3>2, <4>2, Zenon
      <3>3. CASE config.socket # "path"
        <4>1. x = [left |-> socket, failed |-> b]
          BY <3>3 DEF RemoveStaleSocket, b
        <4>. QED  BY <1>4, <3>1, <3>3, <4>1
      <3>. QED  BY <3>2, <3>3
    <2>2. /\ proc' \in [Procs -> Record]
          /\ proc'[d].pc = "rebind" /\ proc'[d].id = proc[d].id
          /\ proc'[d].met = proc[d].met /\ proc'[d].stuck = x.failed
          /\ \A q \in Procs : q # d => proc'[q] = proc[q]
      <3>. DEFINE r == [proc[d] EXCEPT !.pc = "rebind", !.stuck = x.failed]
      <3>1. r \in Record /\ r.pc = "rebind" /\ r.id = proc[d].id /\ r.met = proc[d].met
            /\ r.stuck = x.failed
        <4>1. proc[d] \in Record
          BY <1>1 DEF ProcType
        <4>. QED  BY <2>1, <4>1 DEF Record, DaemonPcs
      <3>2. proc' = [proc EXCEPT ![d] = r]
        BY <1>1, <1>4 DEF ProcType
      <3>. HIDE DEF r
      <3>. QED  BY <1>1, <3>1, <3>2, OneMoves DEF ProcType
    <2>3. ProcType'
      BY <1>1, <2>2 DEF ProcType, DaemonPcs, Procs
    <2>4. SocketType'
      BY <1>4, <2>1 DEF SocketType
    <2>5. Listening' = Listening
      BY <1>2, <2>2 DEF Listening, Procs
    <2>6. Served' => Served
      BY <2>1, <2>5 DEF Served
    <2>7. NameLeads' /\ OpenOnly'
      BY <1>2, <2>0, <2>1, <2>5 DEF SocketInv, NameLeads, OpenOnly, OnDisk
    <2>8. Alone'
      <3>1. ~raced => Listening = {}
        BY <1>2 DEF SocketInv, Alone
      <3>. QED  BY <1>4, <2>5, <3>1 DEF Alone
    <2>9. FreeUntilMet'
      <3>1. SUFFICES ASSUME NEW e \in Daemons, ~proc'[e].met, proc'[e].pc \in Starting
                     PROVE  /\ ~Served'
                            /\ proc'[e].pc = "rebind" /\ OnDisk /\ ~proc'[e].stuck => socket' = {}
        BY <2>0 DEF FreeUntilMet
      <3>2. CASE e = d
        <4>1. ~Served
          BY <1>2, <2>2, <3>1, <3>2 DEF SocketInv, FreeUntilMet
        <4>2. OnDisk /\ ~x.failed => socket' = {}
          BY <2>1, <4>1
        <4>. QED  BY <2>2, <2>6, <3>2, <4>1, <4>2
      <3>3. CASE e # d
        <4>1. proc'[e] = proc[e]
          BY <2>2, <3>3 DEF Procs
        <4>2. /\ ~Served
              /\ proc[e].pc = "rebind" /\ OnDisk /\ ~proc[e].stuck => socket = {}
          BY <3>1, <4>1 DEF SocketInv, FreeUntilMet
        <4>. QED  BY <2>1, <2>6, <4>1, <4>2
      <3>. QED  BY <3>2, <3>3
    <2>10. RefusalIsEarned'
      BY <2>2 DEF SocketInv, RefusalIsEarned, Procs
    <2>11. ASSUME StoreInv PROVE StoreInv'
      BY <1>1, <1>2, <2>2, <2>3, <2>11, StoreStep
    <2>. QED  BY <1>3, <2>3, <2>4, <2>7, <2>8, <2>9, <2>10, <2>11 DEF SocketInv
  <1>5. CASE NameTaken(FALSE) /\ Binds(d)
    <2>1. ProcType' /\ SocketType' /\ SocketInv'
      BY <1>2, <1>5, BindsKeeps
    <2>2. ASSUME StoreInv PROVE StoreInv'
      BY <1>2, <1>5, <2>1, <2>2, BindsStores
    <2>. QED  BY <1>3, <2>1, <2>2
  <1>6. CASE CreateFails(d)
    BY <1>2, <1>6, CreateFailsKeeps
  <1>. QED  BY <1>4, <1>5, <1>6 DEF Bind

\* and the second creates it or gives up, to a rival it has met or before a file it
\* could not remove: otherwise the name is still free.
LEMMA RebindKeeps ==
  ASSUME Inv, NEW d \in Daemons, Rebind(d)
  PROVE  Inv' /\ (StoreInv => StoreInv')
  <1>. USE DEF Inv, Types
  <1>1. d \notin Inits /\ d \in Procs
    BY ProcessesAssumption DEF Procs
  <1>2. /\ proc[d].pc = "rebind" /\ UNCHANGED <<config, idfile, keychain, locked, fresh>>
        /\ proc[d].pc \in Starting
    BY DEF Rebind, machine, Starting
  <1>3. StoreType'
    BY <1>2 DEF StoreType
  <1>4. ASSUME NameTaken(TRUE), proc' = [proc EXCEPT ![d].pc = "in_use", ![d].id = NoId],
               UNCHANGED <<socket, raced>>
        PROVE  Inv' /\ (StoreInv => StoreInv')
    <2>1. (OnDisk => socket # {}) /\ (~OnDisk => Served)
      <3>1. CASE OnDisk
        BY <1>4, <3>1 DEF NameTaken, OnDisk
      <3>2. CASE ~OnDisk /\ config.socket = "abstract"
        BY <1>4, <3>2 DEF NameTaken
      <3>3. CASE ~OnDisk /\ config.socket # "abstract"
        BY <1>4, <3>3 DEF NameTaken
      <3>. QED  BY <3>1, <3>2, <3>3
    <2>2. proc[d].met \/ proc[d].stuck
      BY <1>2, <2>1 DEF SocketInv, FreeUntilMet
    <2>3. /\ proc' \in [Procs -> Record]
          /\ proc'[d].pc = "in_use" /\ proc'[d].id = NoId
          /\ proc'[d].met = proc[d].met /\ proc'[d].stuck = proc[d].stuck
          /\ \A q \in Procs : q # d => proc'[q] = proc[q]
      <3>. DEFINE r == [proc[d] EXCEPT !.pc = "in_use", !.id = NoId]
      <3>1. r \in Record /\ r.pc = "in_use" /\ r.id = NoId /\ r.met = proc[d].met
            /\ r.stuck = proc[d].stuck
        <4>1. proc[d] \in Record
          BY <1>1 DEF ProcType
        <4>. QED  BY <4>1 DEF Record, DaemonPcs, Ids
      <3>2. proc' = [proc EXCEPT ![d] = r]
        BY <1>1, <1>4 DEF ProcType
      <3>. HIDE DEF r
      <3>. QED  BY <1>1, <3>1, <3>2, OneMoves DEF ProcType
    <2>4. ProcType'
      BY <1>1, <2>3 DEF ProcType, DaemonPcs, Procs
    <2>5. d \notin Listening
      BY <1>2 DEF Listening
    <2>6. SocketInv'
      BY <1>1, <1>2, <1>4, <2>2, <2>3, <2>5, SocketStep DEF Open, SocketType
    <2>7. ASSUME StoreInv PROVE StoreInv'
      BY <1>1, <1>2, <2>3, <2>4, <2>7, StoreStep
    <2>. QED  BY <1>3, <1>4, <2>4, <2>6, <2>7 DEF SocketType
  <1>5. CASE NameTaken(FALSE) /\ Binds(d)
    <2>1. ProcType' /\ SocketType' /\ SocketInv'
      BY <1>2, <1>5, BindsKeeps
    <2>2. ASSUME StoreInv PROVE StoreInv'
      BY <1>2, <1>5, <2>1, <2>2, BindsStores
    <2>. QED  BY <1>3, <2>1, <2>2
  <1>6. CASE CreateFails(d)
    BY <1>2, <1>6, CreateFailsKeeps
  <1>. QED  BY <1>4, <1>5, <1>6 DEF Rebind

\* Shutdown: a daemon that stops listening unlinks its name,
LEMMA SignalKeeps ==
  ASSUME Inv, NEW d \in Daemons, Signal(d)
  PROVE  Inv' /\ (StoreInv => StoreInv')
  <1>. USE DEF Inv, Types
  <1>1. d \notin Inits /\ d \in Procs
    BY ProcessesAssumption DEF Procs
  <1>2. /\ proc[d].pc = "serving" /\ Goes(d, "draining")
        /\ UNCHANGED <<config, socket, raced, idfile, keychain, locked, fresh>>
    BY DEF Signal, machine
  <1>3. /\ proc' \in [Procs -> Record]
        /\ proc'[d].pc = "draining" /\ proc'[d].id = proc[d].id
        /\ \A q \in Procs : q # d => proc'[q] = proc[q]
    BY <1>1, <1>2, OneGoes DEF ProcType, DaemonPcs
  <1>4. ProcType'
    BY <1>1, <1>3 DEF ProcType, DaemonPcs, Procs
  <1>5. SocketInv'
    BY <1>1, <1>2, <1>3, SocketStep DEF Open, SocketType, Listening
  <1>6. ASSUME StoreInv PROVE StoreInv'
    BY <1>1, <1>2, <1>3, <1>4, <1>6, StoreStep
  <1>. QED  BY <1>2, <1>4, <1>5, <1>6 DEF SocketType, StoreType

LEMMA DropListenerKeeps ==
  ASSUME Inv, NEW d \in Daemons, DropListener(d)
  PROVE  Inv' /\ (StoreInv => StoreInv')
  <1>. USE DEF Inv, Types
  <1>1. d \notin Inits /\ d \in Procs
    BY ProcessesAssumption DEF Procs
  <1>2. /\ Goes(d, "closed") /\ socket' = Unlinked(d) /\ d \in Listening
        /\ UNCHANGED <<config, raced, idfile, keychain, locked, fresh>>
    BY DEF DropListener, machine, Listening
  <1>3. /\ proc' \in [Procs -> Record]
        /\ proc'[d].pc = "closed" /\ proc'[d].id = proc[d].id
        /\ \A q \in Procs : q # d => proc'[q] = proc[q]
    BY <1>1, <1>2, OneGoes DEF ProcType, DaemonPcs
  <1>4. ProcType'
    BY <1>1, <1>3 DEF ProcType, DaemonPcs, Procs
  <1>5. SocketInv'
    BY <1>1, <1>2, <1>3, SocketStep DEF Open, Listening, SocketType, Unlinked
  <1>6. ASSUME StoreInv PROVE StoreInv'
    BY <1>1, <1>2, <1>3, <1>4, <1>6, StoreStep
  <1>. QED  BY <1>2, <1>4, <1>5, <1>6 DEF SocketType, StoreType, Unlinked

LEMMA DrainKeeps ==
  ASSUME Inv, NEW d \in Daemons, Drain(d)
  PROVE  Inv' /\ (StoreInv => StoreInv')
  <1>. USE DEF Inv, Types
  <1>1. d \notin Inits /\ d \in Procs
    BY ProcessesAssumption DEF Procs
  <1>2. /\ proc' = [proc EXCEPT ![d] = [Idle EXCEPT !.pc = "exited"]]
        /\ \/ socket' = socket /\ d \notin Listening
           \/ socket' = Unlinked(d) /\ d \in Listening
        /\ UNCHANGED <<config, raced, idfile, keychain, locked, fresh>>
    BY DEF Drain, machine, Listening
  <1>3. /\ proc' \in [Procs -> Record]
        /\ proc'[d].pc = "exited" /\ proc'[d].id = NoId
        /\ \A q \in Procs : q # d => proc'[q] = proc[q]
    <2>1. NoId \in Ids /\ "exited" \in InitPcs \cup DaemonPcs
      BY DEF Ids, DaemonPcs
    <2>. QED  BY <1>1, <1>2, <2>1, Restarted, OneMoves DEF ProcType
  <1>4. ProcType'
    BY <1>1, <1>3 DEF ProcType, DaemonPcs, Procs
  <1>5. SocketInv'
    BY <1>1, <1>2, <1>3, SocketStep DEF Open, Listening, SocketType, Unlinked
  <1>6. ASSUME StoreInv PROVE StoreInv'
    BY <1>1, <1>2, <1>3, <1>4, <1>6, StoreStep
  <1>. QED  BY <1>2, <1>4, <1>5, <1>6 DEF SocketType, StoreType, Unlinked

\* A kill at any step leaves the file, the keychain and the others as they were.
LEMMA KillKeeps ==
  ASSUME Inv, NEW p \in Procs, Kill(p)
  PROVE  Inv' /\ (StoreInv => StoreInv')
  <1>. USE DEF Inv, Types
  <1>1. /\ proc' = [proc EXCEPT ![p] = Idle]
        /\ \/ socket' = socket /\ (OnDisk \/ p \notin Daemons)
           \/ socket' = socket \ {p} /\ ~OnDisk
        /\ UNCHANGED <<config, raced, idfile, keychain, locked, fresh>>
    BY DEF Kill, machine
  <1>2. Idle \in Record /\ Idle.pc = "off" /\ Idle.id = NoId
    BY DEF Idle, Record, DaemonPcs, Ids, Keys
  <1>3. /\ proc' \in [Procs -> Record] /\ proc'[p] = Idle
        /\ \A q \in Procs : q # p => proc'[q] = proc[q]
    BY <1>1, <1>2, OneMoves DEF ProcType
  <1>4. ProcType'
    BY <1>2, <1>3 DEF ProcType, DaemonPcs, InitPcs, Procs
  <1>5. SocketInv'
    BY <1>1, <1>2, <1>3, SocketStep DEF Open, SocketType, Listening
  <1>6. ASSUME StoreInv PROVE StoreInv'
    BY <1>1, <1>2, <1>3, <1>4, <1>6, StoreStep
  <1>. QED  BY <1>1, <1>4, <1>5, <1>6 DEF SocketType, StoreType

\* A keychain that goes down changes no key; one that loses its entry has none.
LEMMA KeychainFaultKeeps ==
  ASSUME Inv, KeychainFault
  PROVE  Inv' /\ (StoreInv => StoreInv')
  <1>. USE DEF Inv, Types
  <1>1. /\ UNCHANGED <<config, idfile, fresh, proc, socket, raced>>
        /\ keychain' = keychain \/ keychain' = NoKey
        /\ locked' \in BOOLEAN
    BY DEF KeychainFault, StoreType
  <1>2. Types'
    BY <1>1 DEF ProcType, SocketType, StoreType, Keys
  <1>3. SocketInv'
    BY <1>1 DEF SocketInv, NameLeads, OpenOnly, Alone, FreeUntilMet, RefusalIsEarned, Served, Listening, OnDisk
  <1>4. ASSUME StoreInv PROVE StoreInv'
    BY <1>1, <1>4 DEF StoreInv, Underway, Sealed, Agreed
  <1>. QED  BY <1>2, <1>3, <1>4

\* The clients, and a session that ends, leave all of it alone.
LEMMA OthersKeep ==
  ASSUME Inv, UNCHANGED <<config, keychain, locked, idfile, fresh, proc, socket, raced>>
  PROVE  Inv' /\ (StoreInv => StoreInv')
  <1>1. Types'
    BY DEF Inv, Types, ProcType, SocketType, StoreType
  <1>2. SocketInv'
    BY DEF Inv, SocketInv, NameLeads, OpenOnly, Alone, FreeUntilMet, RefusalIsEarned, Served, Listening, OnDisk
  <1>3. ASSUME StoreInv PROVE StoreInv'
    BY <1>3 DEF StoreInv, Underway, Sealed, Agreed
  <1>. QED  BY <1>1, <1>2, <1>3 DEF Inv

-----------------------------------------------------------------------------
(* The theorems.                                                           *)

\* Init establishes the invariant.
LEMMA InitInv == Init => Inv /\ StoreInv
  <1>. SUFFICES ASSUME Init PROVE Inv /\ StoreInv
    OBVIOUS
  <1>1. Idle \in Record /\ Idle.pc = "off" /\ Idle.id = NoId
    BY DEF Idle, Record, DaemonPcs, Ids, Keys
  <1>2. proc \in [Procs -> Record] /\ \A p \in Procs : proc[p].pc = "off" /\ proc[p].id = NoId
    BY <1>1 DEF Init
  <1>3. Types
    BY <1>2 DEF Init, Types, ProcType, SocketType, StoreType, Keys, DaemonPcs, InitPcs, Procs
  <1>4. SocketInv
    BY <1>2 DEF Init, SocketInv, NameLeads, OpenOnly, Alone, FreeUntilMet, RefusalIsEarned, Listening, Procs, Starting
  <1>5. StoreInv
    BY <1>2, Files DEF Init, StoreInv, Underway, Sealed, Agreed, Procs
  <1>. QED  BY <1>3, <1>4, <1>5 DEF Inv

\* Every step keeps it, the part about the identity as long as no two processes
\* create one at once.
LEMMA NextInv ==
  ASSUME Inv, [Next]_vars
  PROVE  Inv' /\ (StoreInv /\ OneCreator => StoreInv')
  <1>1. CASE InitNext
    BY <1>1, LoadOrCreateKeeps, GetKekKeeps, SetKekKeeps, TruncateFileKeeps, FillFileKeeps
       DEF InitNext
  <1>2. CASE DaemonNext
    <2>1. ASSUME NEW d \in Daemons, SessionLost(d)
          PROVE  Inv' /\ (StoreInv => StoreInv')
      BY <2>1, OthersKeep DEF SessionLost, machine
    <2>. QED  BY <1>2, <2>1, StartDaemonKeeps, LoadIdentityKeeps, OpenStoresKeeps, ProbeKeeps,
                 BindKeeps, RebindKeeps, SignalKeeps, DropListenerKeeps, DrainKeeps DEF DaemonNext
  <1>3. CASE ClientNext
    <2>1. UNCHANGED <<config, keychain, locked, idfile, fresh, proc, socket, raced>>
      BY <1>3 DEF ClientNext, ReadLine, Connect, AcceptAndRead, Dispatch, OwnerAnswers,
                  ReadAnswer, ReadEof, DropHandler, machine
    <2>. QED  BY <2>1, OthersKeep
  <1>4. CASE \E p \in Procs : Kill(p)
    BY <1>4, KillKeeps
  <1>5. CASE KeychainFault
    BY <1>5, KeychainFaultKeeps
  <1>6. CASE UNCHANGED vars
    BY <1>6, OthersKeep DEF vars
  <1>. QED  BY <1>1, <1>2, <1>3, <1>4, <1>5, <1>6 DEF Next

\* The inductive invariant of the socket.
THEOREM Invariance == Spec => []Inv
  <1>1. Inv /\ [Next]_vars => Inv'
    BY NextInv
  <1>. QED  BY <1>1, InitInv, PTL DEF Spec

\* A step lets no process other than one that finds no file begin to create an
\* identity, and that one is noted when it is not alone.
LEMMA CreatorsStep ==
  ASSUME Inv, [Next]_vars, ~overlap'
  PROVE  ~overlap /\ (OneCreator => OneCreator')
  <1>. USE DEF Inv, Types
  <1>1. \A p \in Inits : p \in Procs /\ p \notin Daemons /\ proc[p] \in Record
    BY ProcessesAssumption DEF Procs, ProcType
  <1>2. \A d \in Daemons : d \in Procs /\ d \notin Inits
    BY ProcessesAssumption DEF Procs
  <1>3. DOMAIN proc = Procs
    BY DEF ProcType
  <1>4. ASSUME UNCHANGED overlap, \A p \in Inits : Creating(p)' => Creating(p)
        PROVE  ~overlap /\ (OneCreator => OneCreator')
    BY <1>4 DEF OneCreator
  <1>5. ASSUME UNCHANGED overlap, \A p \in Inits : proc'[p].pc = proc[p].pc
        PROVE  ~overlap /\ (OneCreator => OneCreator')
    BY <1>4, <1>5 DEF Creating
  <1>6. CASE InitNext
    <2>1. PICK p \in Inits : \/ LoadOrCreate(p) \/ GetKek(p) \/ SetKek(p)
                             \/ TruncateFile(p) \/ FillFile(p)
      BY <1>6 DEF InitNext
    <2>2. \A q \in Inits : q # p => proc'[q] = proc[q]
      BY <1>1, <1>3, <2>1 DEF LoadOrCreate, GetKek, SetKek, TruncateFile, FillFile, Goes
    <2>3. CASE LoadOrCreate(p) /\ UNCHANGED overlap /\ proc'[p].pc \in {"done", "refused"}
      BY <1>4, <2>2, <2>3 DEF Creating
    <2>4. CASE LoadOrCreate(p) /\ overlap' = (overlap \/ \E q \in Inits \ {p} : Creating(q))
      <3>1. ~overlap /\ \A q \in Inits \ {p} : ~Creating(q)
        BY <2>4
      <3>2. \A q \in Inits : Creating(q)' => q = p
        BY <2>2, <3>1 DEF Creating
      <3>. QED  BY <3>1, <3>2 DEF OneCreator
    <2>5. LoadOrCreate(p) => \/ UNCHANGED overlap /\ proc'[p].pc \in {"done", "refused"}
                             \/ overlap' = (overlap \/ \E q \in Inits \ {p} : Creating(q))
      BY <1>1, <1>3 DEF LoadOrCreate, Idle
    <2>6. CASE GetKek(p) \/ SetKek(p) \/ TruncateFile(p) \/ FillFile(p)
      <3>1. UNCHANGED overlap /\ Creating(p)
        BY <2>6 DEF GetKek, SetKek, TruncateFile, FillFile, Creating
      <3>. QED  BY <1>4, <2>2, <3>1 DEF Creating
    <2>. QED  BY <2>1, <2>3, <2>4, <2>5, <2>6
  <1>7. CASE DaemonNext
    <2>1. PICK d \in Daemons :
            \/ StartDaemon(d) \/ LoadIdentity(d) \/ OpenStores(d) \/ Probe(d)
            \/ Bind(d) \/ Rebind(d) \/ Signal(d) \/ DropListener(d) \/ Drain(d) \/ SessionLost(d)
      BY <1>7 DEF DaemonNext
    <2>2. UNCHANGED overlap
      BY <2>1 DEF StartDaemon, LoadIdentity, OpenStores, Probe, Bind, Rebind, Signal,
                  DropListener, Drain, SessionLost, machine
    <2>3. ASSUME Binds(d) PROVE \A p \in Inits : proc'[p].pc = proc[p].pc
      <3>1. \A r \in Record : [r EXCEPT !.met = TRUE].pc = r.pc
        BY DEF Record
      <3>. QED  BY <1>1, <1>2, <2>3, <3>1 DEF Binds
    <2>4. CASE ~Binds(d)
      BY <1>1, <1>2, <1>3, <1>5, <2>1, <2>2, <2>4
         DEF StartDaemon, LoadIdentity, OpenStores, Probe, Bind, Rebind, CreateFails, Signal,
             DropListener, Drain, SessionLost, Goes
    <2>. QED  BY <1>5, <2>2, <2>3, <2>4
  <1>8. CASE ClientNext
    <2>1. UNCHANGED <<proc, overlap>>
      BY <1>8 DEF ClientNext, ReadLine, Connect, AcceptAndRead, Dispatch, OwnerAnswers,
                  ReadAnswer, ReadEof, DropHandler, machine
    <2>. QED  BY <1>5, <2>1
  <1>9. CASE \E p \in Procs : Kill(p)
    <2>1. PICK p \in Procs : Kill(p)
      BY <1>9
    <2>2. \A q \in Procs : proc'[q] = proc[q] \/ proc'[q] = Idle
      BY <1>3, <2>1 DEF Kill
    <2>3. UNCHANGED overlap
      BY <2>1 DEF Kill, machine
    <2>. QED  BY <1>1, <1>4, <2>2, <2>3 DEF Creating, Idle
  <1>10. CASE KeychainFault
    BY <1>5, <1>10 DEF KeychainFault
  <1>11. CASE UNCHANGED vars
    BY <1>5, <1>11 DEF vars
  <1>. QED  BY <1>6, <1>7, <1>8, <1>9, <1>10, <1>11 DEF Next

\* Whatever daemons start, stop and die, and in whatever order their probes and
\* binds interleave, a serving daemon is the one its socket name leads to: for an
\* abstract name and a file under /tmp always, for any other kind until a probe has
\* missed a live listener or two daemons have been between probe and bind at once.
THEOREM Reachability == Spec => []ServingIsReachable
  <1>1. Inv => ServingIsReachable
    BY DEF Inv, SocketInv, NameLeads, Alone, Listening, ServingIsReachable
  <1>. QED  BY <1>1, Invariance, PTL

\* Under every kind of socket a daemon is refused only by a rival that really served
\* while it started or by a dead one's file that could not be removed:
\* bind_with_stale_retry reclaims every other dead name.
THEOREM EarnedRefusal == Spec => []RefusalIsEarned
  <1>1. Inv => RefusalIsEarned
    BY DEF Inv, SocketInv
  <1>. QED  BY <1>1, Invariance, PTL

\* Any number of creators, killed anywhere and with the keychain failing under
\* them, agree with every daemon on the identity until two of them have been
\* between load's not_found and the end of save at once.
THEOREM IdentityAgreement == Spec => []IdentityAgrees
  <1>. DEFINE Held == overlap \/ (OneCreator /\ StoreInv)
  <1>1. Init => Held
    <2>1. Init => OneCreator
      <3>1. SUFFICES ASSUME Init, NEW p \in Inits PROVE ~Creating(p)
        BY DEF OneCreator
      <3>. QED  BY <3>1 DEF Init, Creating, Idle, Procs
    <2>. QED  BY <2>1, InitInv
  <1>2. Inv /\ Held /\ [Next]_vars => Held'
    <2>1. SUFFICES ASSUME Inv, Held, [Next]_vars, ~overlap'
                   PROVE  OneCreator' /\ StoreInv'
      OBVIOUS
    <2>2. ~overlap
      BY <2>1, CreatorsStep
    <2>3. OneCreator /\ StoreInv
      BY <2>1, <2>2
    <2>. QED  BY <2>1, <2>3, CreatorsStep, NextInv
  <1>3. Held => IdentityAgrees
    BY DEF StoreInv, Agreed, Sealed, IdentityAgrees
  <1>. QED  BY <1>1, <1>2, <1>3, Invariance, PTL DEF Spec

=============================================================================
