------------------------- MODULE SessionOwnerProofs -------------------------
(***************************************************************************)
(* Machine-checked proofs about SessionOwner, for every set of calls and   *)
(* every value of the bounds.  IInv is inductive: one lemma per action     *)
(* shows that the action keeps it, frame lemmas carry the parts an action  *)
(* does not disturb.  RecordInv, what the log says of calls and sessions,  *)
(* is inductive given IInv: OneRow lists what a step may write.  The last  *)
(* part is what callers are told: every waiting caller is held in exactly  *)
(* one place, and the answers agree with the record.                       *)
(***************************************************************************)
EXTENDS SessionOwner, TLAPS

-----------------------------------------------------------------------------
(* Sequences *)

(* What appending one row does to a log trail: it becomes the newest row,  *)
(* and the other rows stay (LogDb::append never rewrites).                 *)
LEMMA Rows ==
  ASSUME NEW S, NEW s \in Seq(S), NEW x \in S
  PROVE  /\ Append(s, x) \in Seq(S)
         /\ Append(s, x) # <<>>
         /\ Newest(Append(s, x)) = x
         /\ \A y : HasRow(Append(s, x), y) <=> (HasRow(s, y) \/ y = x)
  <1>1. /\ Append(s, x) \in Seq(S) /\ Append(s, x) # <<>>
        /\ Len(Append(s, x)) = Len(s) + 1
        /\ Append(s, x)[Len(s) + 1] = x
        /\ \A i \in 1 .. Len(s) : Append(s, x)[i] = s[i]
    OBVIOUS
  <1>2. Newest(Append(s, x)) = x
    BY <1>1 DEF Newest
  <1>3. ASSUME NEW y PROVE HasRow(Append(s, x), y) <=> (HasRow(s, y) \/ y = x)
    BY <1>1 DEF HasRow
  <1> QED BY <1>1, <1>2, <1>3

(* Popping a queue (cmd_rx.recv, route_queue.pop_front). *)
LEMMA SeqTail ==
  ASSUME NEW S, NEW s \in Seq(S), s # <<>>
  PROVE  /\ Head(s) \in S /\ Head(s) = s[1]
         /\ Tail(s) \in Seq(S)
         /\ Len(s) \in Nat /\ Len(s) > 0 /\ Len(Tail(s)) = Len(s) - 1
         /\ \A i \in 1 .. Len(s) - 1 : Tail(s)[i] = s[i + 1]
  OBVIOUS

(* Pushing onto a queue. *)
LEMMA SeqAppend ==
  ASSUME NEW S, NEW s \in Seq(S), NEW x \in S
  PROVE  /\ Append(s, x) \in Seq(S)
         /\ Len(s) \in Nat /\ Len(Append(s, x)) = Len(s) + 1
         /\ Append(s, x)[Len(s) + 1] = x
         /\ \A i \in 1 .. Len(s) : Append(s, x)[i] = s[i]
  OBVIOUS

(* Writing one entry of a table. *)
LEMMA Updated ==
  ASSUME NEW S, NEW T, NEW f \in [S -> T], NEW x, NEW v, x \in S => v \in T
  PROVE  /\ [f EXCEPT ![x] = v] \in [S -> T]
         /\ \A y \in S : [f EXCEPT ![x] = v][y] = IF y = x THEN v ELSE f[y]
  OBVIOUS

-----------------------------------------------------------------------------
(* Frame lemmas *)

(* The rows and the radio are untouched. *)
LEMMA TrailFrame ==
  ASSUME TrailShape, trail' = trail, sent' = sent,
         unlogged \subseteq unlogged', toSweep' \subseteq toSweep
  PROVE  TrailShape'
  BY DEF TrailShape, NoExecute, Refused

(* The inbox only loses messages, within one session. *)
LEMMA InboxFrame ==
  ASSUME TypeOK, InboxShape, epoch' = epoch,
         approvedBy \subseteq approvedBy', resultBy \subseteq resultBy',
         \/ inbox' = inbox
         \/ inbox # <<>> /\ inbox' = Tail(inbox)
         \/ inbox' = <<>>
  PROVE  InboxShape'
  <1>1. CASE inbox' = inbox
    BY <1>1 DEF InboxShape
  <1>2. CASE inbox # <<>> /\ inbox' = Tail(inbox)
    <2>1. /\ Len(inbox) \in Nat /\ Len(inbox') = Len(inbox) - 1
          /\ \A i \in 1 .. Len(inbox) - 1 : inbox'[i] = inbox[i + 1]
      BY <1>2, SeqTail DEF TypeOK
    <2>2. \A i \in 1 .. Len(inbox') : i + 1 \in 1 .. Len(inbox) /\ inbox'[i] = inbox[i + 1]
      BY <2>1
    <2> QED BY <2>2 DEF InboxShape
  <1>3. CASE inbox' = <<>>
    BY <1>3 DEF InboxShape
  <1> QED BY <1>1, <1>2, <1>3

InCmds(r)  == \E i \in 1 .. Len(cmdq) :
                cmdq[i].kind = "route" /\ cmdq[i].req = r
InQueue(r) == \E i \in 1 .. Len(routeQueue) : routeQueue[i] = r
Queued(r)  == InCmds(r) \/ InQueue(r)

(* Taking a command leaves a shorter queue of the same commands. *)
LEMMA CmdsPopped ==
  ASSUME TypeOK,
         cmdq' = cmdq \/ (cmdq # <<>> /\ cmdq' = Tail(cmdq))
  PROVE  /\ cmdq' \in Seq(Cmds) /\ Len(cmdq') <= CmdCap
         /\ \A r : InCmds(r)' => InCmds(r)
  <1>0. cmdq \in Seq(Cmds) /\ Len(cmdq) <= CmdCap /\ CmdCap \in Nat
    BY BoundsAssumption DEF TypeOK
  <1>1. CASE cmdq' = cmdq
    BY <1>0, <1>1 DEF InCmds
  <1>2. CASE cmdq # <<>> /\ cmdq' = Tail(cmdq)
    <2>1. /\ cmdq' \in Seq(Cmds) /\ Len(cmdq) \in Nat /\ Len(cmdq) > 0
          /\ Len(cmdq') = Len(cmdq) - 1
          /\ \A i \in 1 .. Len(cmdq) - 1 : cmdq'[i] = cmdq[i + 1]
      BY <1>0, <1>2, SeqTail
    <2>2. Len(cmdq') <= CmdCap
      BY <1>0, <2>1
    <2>3. ASSUME NEW r, InCmds(r)' PROVE InCmds(r)
      <3>1. PICK i \in 1 .. Len(cmdq') : cmdq'[i].kind = "route" /\ cmdq'[i].req = r
        BY <2>3 DEF InCmds
      <3>2. i + 1 \in 1 .. Len(cmdq) /\ cmdq[i + 1] = cmdq'[i]
        BY <2>1
      <3> QED BY <3>1, <3>2 DEF InCmds
    <2> QED BY <2>1, <2>2, <2>3
  <1> QED BY <1>1, <1>2

(* The queues only lose calls, and a call that was touched has left them. *)
LEMMA QueuesFrame ==
  ASSUME TypeOK, QueuesShape,
         \/ cmdq' = cmdq
         \/ cmdq # <<>> /\ cmdq' = Tail(cmdq)
         \/ cmdq' = <<>>,
         \/ routeQueue' = routeQueue
         \/ routeQueue # <<>> /\ routeQueue' = Tail(routeQueue)
         \/ routeQueue' = <<>>,
         \A r \in Requests :
           \/ /\ reply'[r] = reply[r] /\ trail'[r] = trail[r] /\ sent'[r] = sent[r]
              /\ r \in thisLife' => r \in thisLife
           \/ reply'[r] # "none" /\ ~(Queued(r) /\ Queued(r)')
  PROVE  QueuesShape'
  <1>1. \E k \in {0, 1} :
          \A i \in 1 .. Len(cmdq') : i + k \in 1 .. Len(cmdq) /\ cmdq'[i] = cmdq[i + k]
    <2>1. CASE cmdq' = cmdq
      <3>1. \A i \in 1 .. Len(cmdq') : i + 0 \in 1 .. Len(cmdq) /\ cmdq'[i] = cmdq[i + 0]
        BY <2>1 DEF TypeOK
      <3> QED BY <3>1
    <2>2. CASE cmdq # <<>> /\ cmdq' = Tail(cmdq)
      <3>1. \A i \in 1 .. Len(cmdq') : i + 1 \in 1 .. Len(cmdq) /\ cmdq'[i] = cmdq[i + 1]
        BY <2>2, SeqTail DEF TypeOK
      <3> QED BY <3>1
    <2>3. CASE cmdq' = <<>>
      BY <2>3
    <2> QED BY <2>1, <2>2, <2>3
  <1>2. \E k \in {0, 1} :
          \A i \in 1 .. Len(routeQueue') :
            i + k \in 1 .. Len(routeQueue) /\ routeQueue'[i] = routeQueue[i + k]
    <2>1. CASE routeQueue' = routeQueue
      <3>1. \A i \in 1 .. Len(routeQueue') :
              i + 0 \in 1 .. Len(routeQueue) /\ routeQueue'[i] = routeQueue[i + 0]
        BY <2>1 DEF TypeOK
      <3> QED BY <3>1
    <2>2. CASE routeQueue # <<>> /\ routeQueue' = Tail(routeQueue)
      <3>1. \A i \in 1 .. Len(routeQueue') :
              i + 1 \in 1 .. Len(routeQueue) /\ routeQueue'[i] = routeQueue[i + 1]
        BY <2>2, SeqTail DEF TypeOK
      <3> QED BY <3>1
    <2>3. CASE routeQueue' = <<>>
      BY <2>3
    <2> QED BY <2>1, <2>2, <2>3
  <1>3. PICK k \in {0, 1} :
          \A i \in 1 .. Len(cmdq') : i + k \in 1 .. Len(cmdq) /\ cmdq'[i] = cmdq[i + k]
    BY <1>1
  <1>4. PICK n \in {0, 1} :
          \A i \in 1 .. Len(routeQueue') :
            i + n \in 1 .. Len(routeQueue) /\ routeQueue'[i] = routeQueue[i + n]
    BY <1>2
  <1>a. /\ \A i, j \in 1 .. Len(cmdq) :
            cmdq[i].kind = "route" /\ cmdq[j].kind = "route"
              /\ cmdq[i].req = cmdq[j].req => i = j
        /\ \A i, j \in 1 .. Len(routeQueue) :
            routeQueue[i] = routeQueue[j] => i = j
        /\ \A i \in 1 .. Len(cmdq), j \in 1 .. Len(routeQueue) :
            cmdq[i].kind = "route" => cmdq[i].req # routeQueue[j]
    BY DEF QueuesShape
  <1>b. \A i \in 1 .. Len(cmdq) : cmdq[i].kind = "route" =>
          /\ cmdq[i].req \in Requests /\ reply[cmdq[i].req] = "pending"
          /\ trail[cmdq[i].req] = <<>> /\ sent[cmdq[i].req] = <<>>
          /\ cmdq[i].req \notin thisLife
    <2>1. \A i \in 1 .. Len(cmdq) : cmdq[i] \in Cmds
      BY DEF TypeOK
    <2> QED BY <2>1 DEF QueuesShape, Unstarted, Cmds
  <1>c. \A i \in 1 .. Len(routeQueue) :
          /\ routeQueue[i] \in Requests /\ reply[routeQueue[i]] = "pending"
          /\ trail[routeQueue[i]] = <<>> /\ sent[routeQueue[i]] = <<>>
          /\ routeQueue[i] \notin thisLife
    BY DEF TypeOK, QueuesShape, Unstarted
  <1>d. \A r \in Requests : reply[r] = "none" =>
          trail[r] = <<>> /\ sent[r] = <<>> /\ r \notin thisLife
    BY DEF QueuesShape, Unstarted
  <1>e. k \in Nat /\ n \in Nat /\ Len(cmdq') \in Nat /\ Len(routeQueue') \in Nat
    BY SeqTail DEF TypeOK
  <1>5. \A i, j \in 1 .. Len(cmdq') :
          cmdq'[i].kind = "route" /\ cmdq'[j].kind = "route"
            /\ cmdq'[i].req = cmdq'[j].req => i = j
    <2> SUFFICES ASSUME NEW i \in 1 .. Len(cmdq'), NEW j \in 1 .. Len(cmdq'),
                        cmdq'[i].kind = "route", cmdq'[j].kind = "route",
                        cmdq'[i].req = cmdq'[j].req
                 PROVE  i = j
      OBVIOUS
    <2>0. /\ i + k \in 1 .. Len(cmdq) /\ cmdq[i + k] = cmdq'[i]
          /\ j + k \in 1 .. Len(cmdq) /\ cmdq[j + k] = cmdq'[j]
      BY <1>3
    <2>1. i + k = j + k
      BY <2>0, <1>a
    <2> QED BY <2>1, <1>e
  <1>6. \A i, j \in 1 .. Len(routeQueue') : routeQueue'[i] = routeQueue'[j] => i = j
    <2> SUFFICES ASSUME NEW i \in 1 .. Len(routeQueue'), NEW j \in 1 .. Len(routeQueue'),
                        routeQueue'[i] = routeQueue'[j]
                 PROVE  i = j
      OBVIOUS
    <2>1. i + n = j + n
      BY <1>4, <1>a
    <2> QED BY <2>1, <1>e
  <1>7. \A i \in 1 .. Len(cmdq'), j \in 1 .. Len(routeQueue') :
          cmdq'[i].kind = "route" => cmdq'[i].req # routeQueue'[j]
    <2> SUFFICES ASSUME NEW i \in 1 .. Len(cmdq'), NEW j \in 1 .. Len(routeQueue'),
                        cmdq'[i].kind = "route"
                 PROVE  cmdq'[i].req # routeQueue'[j]
      OBVIOUS
    <2>1. i + k \in 1 .. Len(cmdq) /\ cmdq[i + k] = cmdq'[i]
      BY <1>3
    <2>2. j + n \in 1 .. Len(routeQueue) /\ routeQueue[j + n] = routeQueue'[j]
      BY <1>4
    <2>3. cmdq[i + k].kind = "route" => cmdq[i + k].req # routeQueue[j + n]
      BY <2>1, <2>2, <1>a
    <2> QED BY <2>1, <2>2, <2>3
  <1>8. \A i \in 1 .. Len(cmdq') : cmdq'[i].kind = "route" =>
          /\ reply'[cmdq'[i].req] = "pending"
          /\ trail'[cmdq'[i].req] = <<>> /\ sent'[cmdq'[i].req] = <<>>
          /\ cmdq'[i].req \notin thisLife'
    <2> SUFFICES ASSUME NEW i \in 1 .. Len(cmdq'), cmdq'[i].kind = "route"
                 PROVE  /\ reply'[cmdq'[i].req] = "pending"
                        /\ trail'[cmdq'[i].req] = <<>>
                        /\ sent'[cmdq'[i].req] = <<>>
                        /\ cmdq'[i].req \notin thisLife'
      OBVIOUS
    <2>1. i + k \in 1 .. Len(cmdq) /\ cmdq[i + k] = cmdq'[i]
      BY <1>3
    <2>2. ASSUME NEW r \in Requests, r = cmdq'[i].req PROVE Queued(r) /\ Queued(r)'
      BY <2>1, <2>2 DEF Queued, InCmds
    <2> QED BY <2>1, <2>2, <1>b
  <1>9. \A i \in 1 .. Len(routeQueue') :
          /\ reply'[routeQueue'[i]] = "pending"
          /\ trail'[routeQueue'[i]] = <<>> /\ sent'[routeQueue'[i]] = <<>>
          /\ routeQueue'[i] \notin thisLife'
    <2> SUFFICES ASSUME NEW i \in 1 .. Len(routeQueue')
                 PROVE  /\ reply'[routeQueue'[i]] = "pending"
                        /\ trail'[routeQueue'[i]] = <<>>
                        /\ sent'[routeQueue'[i]] = <<>>
                        /\ routeQueue'[i] \notin thisLife'
      OBVIOUS
    <2>1. i + n \in 1 .. Len(routeQueue) /\ routeQueue[i + n] = routeQueue'[i]
      BY <1>4
    <2>2. ASSUME NEW r \in Requests, r = routeQueue'[i]
          PROVE  Queued(r) /\ Queued(r)'
      BY <2>1, <2>2 DEF Queued, InQueue
    <2> QED BY <2>1, <2>2, <1>c
  <1>10. \A r \in Requests : reply'[r] = "none" =>
           trail'[r] = <<>> /\ sent'[r] = <<>> /\ r \notin thisLife'
    BY <1>d
  <1> QED BY <1>5, <1>6, <1>7, <1>8, <1>9, <1>10 DEF QueuesShape, Unstarted

(* A call with rows in the log has been started, so it is in no queue. *)
LEMMA StartedIsOut ==
  ASSUME TypeOK, QueuesShape, NEW r \in Requests,
         r \in thisLife \/ trail[r] # <<>>
  PROVE  ~Queued(r) /\ reply[r] # "none"
  BY DEF QueuesShape, Unstarted, Queued, InCmds, InQueue

(* A flight is a started call. *)
LEMMA FlightIsStarted ==
  ASSUME TypeOK, PipelineShape, flight # NoFlight
  PROVE  /\ flight.req \in Requests /\ flight.stage \in Stages
         /\ flight.req \in thisLife
  BY DEF TypeOK, Flights, PipelineShape

Midway == {"route_send", "granted", "execute_send"}

(* A call a handler is midway with has been started. *)
LEMMA CurIsStarted ==
  ASSUME TypeOK, SlotShape, PipelineShape, pc \in Midway
  PROVE  cur \in Requests /\ cur \in thisLife /\ cur # NoReq
  BY DEF TypeOK, SlotShape, PipelineShape, Midway

(* The pipeline is where it was, and the log has at most grown. *)
LEMMA PipelineKept ==
  ASSUME TypeOK, SlotShape, PipelineShape,
         UNCHANGED <<sent, consumed, epoch, flight, cur>>,
         approvedBy \subseteq approvedBy', unlogged \subseteq unlogged',
         thisLife \subseteq thisLife',
         \A q \in Requests : Refused(q)' => Refused(q),
         \A q \in Requests : \A y : HasRow(trail[q], y) => HasRow(trail'[q], y),
         pc' = pc \/ pc' \notin Midway
  PROVE  PipelineShape'
  <1>1. flight # NoFlight => flight.req \in Requests
    BY DEF TypeOK, Flights
  <1>2. pc \in Midway => cur \in Requests
    BY CurIsStarted
  <1>3. /\ \A q \in Requests : Asked(q) => Asked(q)'
        /\ \A q \in Requests : Approved(q) => Approved(q)'
        /\ \A q \in Requests : NoExecute(q) => NoExecute(q)'
    BY DEF Asked, Approved, SentIn, NoExecute
  <1>4. flight' # NoFlight =>
          /\ flight'.req \in thisLife'
          /\ flight'.stage = "approval" =>
               /\ Asked(flight.req)' /\ flight'.req \notin consumed'
               /\ NoExecute(flight.req)' /\ ~Refused(flight.req)'
          /\ flight'.stage = "execute" => Approved(flight.req)'
    <2> SUFFICES ASSUME flight # NoFlight
                 PROVE  /\ flight'.req \in thisLife'
                        /\ flight'.stage = "approval" =>
                             /\ Asked(flight.req)' /\ flight'.req \notin consumed'
                             /\ NoExecute(flight.req)' /\ ~Refused(flight.req)'
                        /\ flight'.stage = "execute" => Approved(flight.req)'
      OBVIOUS
    <2>1. PICK f \in Requests : f = flight.req
      BY <1>1
    <2>2. /\ f \in thisLife
          /\ flight.stage = "approval" =>
               Asked(f) /\ f \notin consumed /\ NoExecute(f) /\ ~Refused(f)
          /\ flight.stage = "execute" => Approved(f)
      BY <2>1 DEF PipelineShape
    <2>3. /\ flight.stage = "approval" =>
               Asked(f)' /\ f \notin consumed' /\ NoExecute(f)' /\ ~Refused(f)'
          /\ flight.stage = "execute" => Approved(f)'
      BY <1>3, <2>2
    <2>4. /\ Asked(f)' => Asked(flight.req)'
          /\ NoExecute(f)' => NoExecute(flight.req)'
          /\ ~Refused(f)' => ~Refused(flight.req)'
          /\ Approved(f)' => Approved(flight.req)'
      BY <2>1 DEF Asked, Approved, SentIn, NoExecute, Refused
    <2> QED BY <2>1, <2>2, <2>3, <2>4
  <1>5. ASSUME pc' \in Midway
        PROVE
          /\ pc' = "route_send" =>
               /\ sent'[cur'] = <<>> /\ cur' \notin consumed' /\ ~Refused(cur)'
               /\ HasRow(trail'[cur'], FirstRow(cur')) \/ cur' \in unlogged'
          /\ pc' = "granted" =>
               /\ Approved(cur)' /\ cur' \notin consumed'
               /\ NoExecute(cur)' /\ ~Refused(cur)'
          /\ pc' = "execute_send" =>
               /\ Approved(cur)' /\ NoExecute(cur)' /\ ~Refused(cur)'
               /\ HasRow(trail'[cur'], "execute_sent") \/ cur' \in unlogged'
    <2>1. PICK c \in Requests : c = cur
      BY <1>2, <1>5
    <2>2. /\ pc = "route_send" =>
               /\ sent[c] = <<>> /\ c \notin consumed /\ ~Refused(c)
               /\ HasRow(trail[c], FirstRow(c)) \/ c \in unlogged
          /\ pc = "granted" =>
               Approved(c) /\ c \notin consumed /\ NoExecute(c) /\ ~Refused(c)
          /\ pc = "execute_send" =>
               /\ Approved(c) /\ NoExecute(c) /\ ~Refused(c)
               /\ HasRow(trail[c], "execute_sent") \/ c \in unlogged
      BY <2>1 DEF PipelineShape
    <2>3. /\ pc' = "route_send" =>
               /\ sent'[c] = <<>> /\ c \notin consumed' /\ ~Refused(c)'
               /\ HasRow(trail'[c], FirstRow(c)) \/ c \in unlogged'
          /\ pc' = "granted" =>
               Approved(c)' /\ c \notin consumed' /\ NoExecute(c)' /\ ~Refused(c)'
          /\ pc' = "execute_send" =>
               /\ Approved(c)' /\ NoExecute(c)' /\ ~Refused(c)'
               /\ HasRow(trail'[c], "execute_sent") \/ c \in unlogged'
      BY <1>3, <1>5, <2>2
    <2>4. /\ NoExecute(c)' => NoExecute(cur)'
          /\ ~Refused(c)' => ~Refused(cur)'
          /\ Approved(c)' => Approved(cur)'
      BY <2>1 DEF Asked, Approved, SentIn, NoExecute, Refused
    <2> QED BY <2>1, <2>3, <2>4
  <1>6. /\ cur' # NoReq => cur' \in thisLife'
        /\ \A q \in consumed' : sent'[q] # <<>>
    BY DEF PipelineShape
  <1> QED BY <1>4, <1>5, <1>6 DEF PipelineShape, Midway

(* The pipeline and the log are where they were. *)
LEMMA PipelineFrame ==
  ASSUME TypeOK, SlotShape, PipelineShape,
         UNCHANGED <<trail, sent, consumed, epoch, flight, cur>>,
         approvedBy \subseteq approvedBy', unlogged \subseteq unlogged',
         thisLife \subseteq thisLife',
         pc' = pc \/ pc' \notin Midway
  PROVE  PipelineShape'
  <1>1. /\ \A q \in Requests : Refused(q)' => Refused(q)
        /\ \A q \in Requests : \A y : HasRow(trail[q], y) => HasRow(trail'[q], y)
    BY DEF Refused
  <1> QED BY <1>1, PipelineKept

(* Nothing is in the pipeline any more. *)
LEMMA PipelineEmptied ==
  ASSUME PipelineShape, flight' = NoFlight, pc' \notin Midway,
         cur' = NoReq, consumed' \subseteq consumed, sent' = sent
  PROVE  PipelineShape'
  BY DEF PipelineShape, Midway

(* The call at the head of the route queue is in no other place. *)
LEMMA HeadOfQueue ==
  ASSUME TypeOK, QueuesShape, routeQueue # <<>>, routeQueue' = Tail(routeQueue),
         cmdq' = cmdq, NEW r, r = Head(routeQueue)
  PROVE  /\ r \in Requests /\ reply[r] = "pending" /\ Unstarted(r)
         /\ ~Queued(r)'
         /\ routeQueue' \in Seq(Requests) /\ Len(routeQueue') <= RouteQueueCap
  <1>1. /\ r \in Requests /\ r = routeQueue[1] /\ routeQueue' \in Seq(Requests)
        /\ Len(routeQueue) \in Nat /\ Len(routeQueue) > 0
        /\ Len(routeQueue') = Len(routeQueue) - 1
        /\ \A i \in 1 .. Len(routeQueue) - 1 : routeQueue'[i] = routeQueue[i + 1]
    BY SeqTail DEF TypeOK
  <1>2. 1 \in 1 .. Len(routeQueue)
    BY <1>1
  <1>3. reply[r] = "pending" /\ Unstarted(r)
    BY <1>1, <1>2 DEF QueuesShape
  <1>a. /\ \A a, b \in 1 .. Len(routeQueue) :
            routeQueue[a] = routeQueue[b] => a = b
        /\ \A i \in 1 .. Len(cmdq), j \in 1 .. Len(routeQueue) :
             cmdq[i].kind = "route" => cmdq[i].req # routeQueue[j]
    BY DEF QueuesShape
  <1>4. ~InCmds(r)'
    <2>1. ~InCmds(r)
      BY <1>1, <1>2, <1>a DEF InCmds
    <2> QED BY <2>1, CmdsPopped
  <1>5. ASSUME InQueue(r)' PROVE FALSE
    <2>1. PICK i \in 1 .. Len(routeQueue') : routeQueue'[i] = r
      BY <1>5 DEF InQueue
    <2>2. /\ i + 1 \in 1 .. Len(routeQueue) /\ routeQueue[i + 1] = r
          /\ i \in Nat /\ i > 0
      BY <1>1, <2>1
    <2>3. i + 1 = 1
      BY <1>1, <1>2, <1>a, <2>2
    <2> QED BY <2>2, <2>3
  <1>6. Len(routeQueue') <= RouteQueueCap
    BY <1>1, BoundsAssumption DEF TypeOK
  <1> QED BY <1>1, <1>3, <1>4, <1>5, <1>6 DEF Queued

(* Calls that were started are in no queue, so touching them is harmless. *)
LEMMA QueuesTouched ==
  ASSUME TypeOK, QueuesShape,
         \/ cmdq' = cmdq
         \/ cmdq # <<>> /\ cmdq' = Tail(cmdq)
         \/ cmdq' = <<>>,
         \/ routeQueue' = routeQueue
         \/ routeQueue # <<>> /\ routeQueue' = Tail(routeQueue)
         \/ routeQueue' = <<>>,
         NEW X \in SUBSET Requests,
         \A r \in X : /\ r \in thisLife \/ trail[r] # <<>>
                      /\ reply'[r] # "none" \/ reply'[r] = reply[r],
         thisLife' \subseteq thisLife,
         \A r \in Requests \ X :
           reply'[r] = reply[r] /\ trail'[r] = trail[r] /\ sent'[r] = sent[r]
  PROVE  QueuesShape'
  <1>1. \A r \in X : ~Queued(r) /\ reply[r] # "none"
    BY StartedIsOut
  <1>2. \A r \in Requests :
          \/ /\ reply'[r] = reply[r] /\ trail'[r] = trail[r] /\ sent'[r] = sent[r]
             /\ r \in thisLife' => r \in thisLife
          \/ reply'[r] # "none" /\ ~(Queued(r) /\ Queued(r)')
    BY <1>1
  <1> QED BY <1>2, QueuesFrame

-----------------------------------------------------------------------------
(* Ending a session *)

(* The start of a teardown keeps the invariant: the waiters are still there. *)
LEMMA TeardownInv ==
  ASSUME IInv, NEW keep \in BOOLEAN, Teardown(keep), slot, pc # "waiters",
         cmdq' = cmdq \/ (cmdq # <<>> /\ cmdq' = Tail(cmdq)),
         UNCHANGED <<trail, unlogged, contested, endRows, cutShort, cur,
                     approvedBy, resultBy, thisLife, starting, toSweep, rivals>>,
         sent' \in [Requests -> Seq(Sends)],
         \A q \in Requests : q # cur => sent'[q] = sent[q],
         \A q \in Requests : sent[q] # <<>> => sent'[q] # <<>>,
         flight # NoFlight /\ flight.stage # "services" => flight.req # cur
  PROVE  TypeOK' /\ SlotShape' /\ QueuesShape' /\ PipelineShape' /\ InboxShape'
  <1>0. TypeOK /\ SlotShape /\ QueuesShape /\ PipelineShape /\ InboxShape
    BY DEF IInv
  <1>1. cmdq' \in Seq(Cmds) /\ Len(cmdq') <= CmdCap
    BY <1>0, CmdsPopped
  <1>2. /\ core' = "ended" /\ watchdog' = "off" /\ link' = FALSE
        /\ inbox' = <<>> /\ keeps' = keep /\ pc' = "waiters"
        /\ UNCHANGED <<slot, active, epoch, flight, routeQueue, consumed, pump,
                       reply>>
    BY DEF Teardown
  <1>3. TypeOK'
    <2>1. inbox' \in Seq(PhoneMsgs)
      BY <1>2
    <2> QED BY <1>0, <1>1, <1>2, <2>1 DEF TypeOK, Running, Ending
  <1>4. SlotShape'
    BY <1>0, <1>2 DEF SlotShape, Live, Serving, Running, Ending
  <1>5. QueuesShape'
    <2> DEFINE X == {cur} \ {NoReq}
    <2>1. X \in SUBSET Requests /\ \A q \in X : q \in thisLife
      BY <1>0 DEF TypeOK, PipelineShape
    <2>2. \A q \in Requests \ X : q # cur
      BY RequestsAssumption
    <2>3. \A q \in Requests \ X :
            reply'[q] = reply[q] /\ trail'[q] = trail[q] /\ sent'[q] = sent[q]
      BY <1>2, <2>2
    <2> HIDE DEF X
    <2>4. \A q \in X : /\ q \in thisLife \/ trail[q] # <<>>
                       /\ reply'[q] # "none" \/ reply'[q] = reply[q]
      BY <1>2, <2>1
    <2> QED BY <1>0, <1>2, <2>1, <2>3, <2>4, QueuesTouched
  <1>6. PipelineShape'
    <2>1. flight # NoFlight => flight.req \in Requests /\ flight.stage \in Stages
      BY <1>0, FlightIsStarted
    <2>2. flight' # NoFlight =>
            /\ flight'.req \in thisLife'
            /\ flight'.stage = "approval" =>
                 /\ Asked(flight.req)' /\ flight'.req \notin consumed'
                 /\ NoExecute(flight.req)' /\ ~Refused(flight.req)'
            /\ flight'.stage = "execute" => Approved(flight.req)'
      BY <1>0, <1>2, <2>1
         DEF PipelineShape, Asked, Approved, SentIn, NoExecute, Refused
    <2>3. \A q \in consumed' : sent'[q] # <<>>
      BY <1>0, <1>2 DEF PipelineShape, TypeOK
    <2>4. cur' # NoReq => cur' \in thisLife'
      BY <1>0 DEF PipelineShape
    <2> QED BY <1>2, <2>2, <2>3, <2>4 DEF PipelineShape
  <1>7. InboxShape'
    BY <1>0, <1>2, InboxFrame
  <1> QED BY <1>3, <1>4, <1>5, <1>6, <1>7

(* One waiter is answered, or the last has been: the invariant is kept. *)
LEMMA AnswerWaiterInv ==
  ASSUME IInv, AnswerWaiter
  PROVE  IInv'
  <1>0. /\ TypeOK /\ SlotShape /\ QueuesShape /\ TrailShape /\ PipelineShape
        /\ InboxShape
    BY DEF IInv
  <1>1. /\ pc = "waiters" /\ slot /\ ~Live
        /\ UNCHANGED <<trail, unlogged, contested, endRows, cutShort, cur, keeps,
                       slot, active, epoch, core, consumed, cmdq, watchdog, pump,
                       link, inbox, sent, approvedBy, resultBy, thisLife,
                       starting, toSweep, rivals>>
    BY <1>0 DEF AnswerWaiter, durable, record, ends, channels, history, others,
                SlotShape, Ending
  <1>2. TrailShape' /\ InboxShape'
    BY <1>0, <1>1, TrailFrame, InboxFrame
  <1>3. CASE /\ flight # NoFlight
             /\ reply' = [reply EXCEPT ![flight.req] = "session_ended"]
             /\ flight' = NoFlight /\ UNCHANGED <<pc, routeQueue>>
    <2>1. PICK f : f = flight.req
      OBVIOUS
    <2>2. f \in Requests /\ f \in thisLife
      BY <1>0, <1>3, <2>1, FlightIsStarted
    <2>3. /\ reply' \in [Requests -> Answers \cup {"none", "pending"}]
          /\ \A q \in Requests : reply'[q] = IF q = f THEN "session_ended" ELSE reply[q]
      BY <1>0, <1>3, <2>1, Updated DEF TypeOK, Answers
    <2>4. TypeOK'
      BY <1>0, <1>1, <1>3, <2>3 DEF TypeOK, Flights
    <2>5. SlotShape'
      BY <1>0, <1>1, <1>3 DEF SlotShape, Live, Serving
    <2>6. QueuesShape'
      <3>1. /\ {f} \in SUBSET Requests
            /\ \A q \in {f} : /\ q \in thisLife \/ trail[q] # <<>>
                              /\ reply'[q] # "none" \/ reply'[q] = reply[q]
            /\ \A q \in Requests \ {f} :
                 reply'[q] = reply[q] /\ trail'[q] = trail[q] /\ sent'[q] = sent[q]
        BY <1>1, <2>2, <2>3
      <3> QED BY <1>0, <1>1, <1>3, <3>1, QueuesTouched
    <2>7. PipelineShape'
      BY <1>0, <1>1, <1>3 DEF PipelineShape
    <2> QED BY <1>2, <2>4, <2>5, <2>6, <2>7 DEF IInv
  <1>4. CASE /\ flight = NoFlight /\ routeQueue # <<>>
             /\ reply' = [reply EXCEPT ![Head(routeQueue)] = "session_ended"]
             /\ routeQueue' = Tail(routeQueue) /\ UNCHANGED <<pc, flight>>
    <2>1. PICK h : h = Head(routeQueue)
      OBVIOUS
    <2>2. /\ h \in Requests /\ ~Queued(h)'
          /\ routeQueue' \in Seq(Requests) /\ Len(routeQueue') <= RouteQueueCap
      BY <1>0, <1>1, <1>4, <2>1, HeadOfQueue
    <2>3. /\ reply' \in [Requests -> Answers \cup {"none", "pending"}]
          /\ \A q \in Requests : reply'[q] = IF q = h THEN "session_ended" ELSE reply[q]
      BY <1>0, <1>4, <2>1, Updated DEF TypeOK, Answers
    <2>4. TypeOK'
      BY <1>0, <1>1, <1>4, <2>2, <2>3 DEF TypeOK
    <2>5. SlotShape'
      BY <1>0, <1>1, <1>4 DEF SlotShape, Live, Serving
    <2>6. QueuesShape'
      BY <1>0, <1>1, <1>4, <2>2, <2>3, QueuesFrame
    <2>7. PipelineShape'
      BY <1>0, <1>1, <1>4, PipelineFrame
    <2> QED BY <1>2, <2>4, <2>5, <2>6, <2>7 DEF IInv
  <1>5. CASE /\ flight = NoFlight /\ routeQueue = <<>> /\ pc' = "end_row"
             /\ UNCHANGED <<reply, flight, routeQueue>>
    <2>1. TypeOK'
      BY <1>0, <1>1, <1>5 DEF TypeOK, Running, Ending
    <2>2. SlotShape'
      BY <1>0, <1>1, <1>5 DEF SlotShape, Live, Serving, Running, Ending
    <2>3. pc' \notin Midway
      BY <1>5 DEF Midway
    <2>4. QueuesShape' /\ PipelineShape'
      BY <1>0, <1>1, <1>5, <2>3, QueuesFrame, PipelineFrame
    <2> QED BY <1>2, <2>1, <2>2, <2>4 DEF IInv
  <1> QED BY <1>3, <1>4, <1>5 DEF AnswerWaiter

(* The session_end row keeps the invariant. *)
LEMMA LogEndInv ==
  ASSUME IInv, LogEnd
  PROVE  IInv'
  <1>0. /\ TypeOK /\ SlotShape /\ QueuesShape /\ TrailShape /\ PipelineShape
        /\ InboxShape
    BY DEF IInv
  <1>1. /\ pc = "end_row" /\ pc' = "publish" /\ slot /\ ~Live /\ epoch \in Epochs
        /\ UNCHANGED <<trail, unlogged, contested, cur, keeps, slot, active,
                       epoch, core, flight, routeQueue, consumed, cmdq, watchdog,
                       pump, link, inbox, reply, sent, approvedBy, resultBy,
                       thisLife, starting, toSweep, rivals>>
    BY <1>0 DEF LogEnd, record, session, channels, history, others, SlotShape, Ending
  <1>2. endRows' \in [Epochs -> Nat] /\ cutShort' \subseteq Epochs
    <2>1. /\ endRows \in [Epochs -> Nat] /\ cutShort \subseteq Epochs
          /\ endRows[epoch] + 1 \in Nat
      BY <1>0, <1>1 DEF TypeOK
    <2>2. \/ endRows' = [endRows EXCEPT ![epoch] = endRows[epoch] + 1]
             /\ cutShort' = cutShort
          \/ cutShort' = cutShort \cup {epoch} /\ endRows' = endRows
      BY DEF LogEnd
    <2> QED BY <1>1, <2>1, <2>2, Updated
  <1>3. TypeOK'
    BY <1>0, <1>1, <1>2 DEF TypeOK, Running, Ending
  <1>4. SlotShape'
    BY <1>0, <1>1 DEF SlotShape, Live, Serving, Running, Ending
  <1>5. pc' \notin Midway
    BY <1>1 DEF Midway
  <1>6. QueuesShape' /\ TrailShape' /\ PipelineShape' /\ InboxShape'
    BY <1>0, <1>1, <1>5, QueuesFrame, TrailFrame, PipelineFrame, InboxFrame
  <1> QED BY <1>3, <1>4, <1>6 DEF IInv

(* Telling the watch keeps the invariant. *)
LEMMA PublishInv ==
  ASSUME IInv, Publish
  PROVE  IInv'
  <1>0. /\ TypeOK /\ SlotShape /\ QueuesShape /\ TrailShape /\ PipelineShape
        /\ InboxShape
    BY DEF IInv
  <1>1. /\ pc = "publish" /\ pc' = "leave" /\ slot /\ ~Live /\ active' = FALSE
        /\ UNCHANGED <<trail, unlogged, contested, endRows, cutShort, cur, keeps,
                       slot, epoch, core, flight, routeQueue, consumed, cmdq,
                       watchdog, pump, link, inbox, reply, sent, approvedBy,
                       resultBy, thisLife, starting, toSweep, rivals>>
    BY <1>0 DEF Publish, durable, record, ends, channels, history, others,
                SlotShape, Ending
  <1>2. TypeOK'
    BY <1>0, <1>1 DEF TypeOK, Running, Ending
  <1>3. SlotShape'
    BY <1>0, <1>1 DEF SlotShape, Live, Serving, Running, Ending
  <1>4. pc' \notin Midway
    BY <1>1 DEF Midway
  <1>5. QueuesShape' /\ TrailShape' /\ PipelineShape' /\ InboxShape'
    BY <1>0, <1>1, <1>4, QueuesFrame, TrailFrame, PipelineFrame, InboxFrame
  <1> QED BY <1>2, <1>3, <1>5 DEF IInv

(* The end of a teardown keeps the invariant. *)
LEMMA LeaveInv ==
  ASSUME IInv, Leave
  PROVE  IInv'
  <1>0. /\ TypeOK /\ SlotShape /\ QueuesShape /\ TrailShape /\ PipelineShape
        /\ InboxShape
    BY DEF IInv
  <1>1. /\ pc = "leave" /\ pc' = "select" /\ cur' = NoReq /\ slot /\ ~Live
        /\ slot' = keeps /\ keeps' = FALSE
        /\ UNCHANGED <<trail, unlogged, contested, endRows, cutShort, active,
                       epoch, core, flight, routeQueue, consumed, cmdq, watchdog,
                       pump, link, inbox, sent, approvedBy, resultBy, thisLife,
                       starting, toSweep, rivals>>
    BY <1>0 DEF Leave, durable, record, ends, channels, history, others,
                SlotShape, Ending
  <1>2. flight = NoFlight /\ routeQueue = <<>> /\ active = FALSE
    BY <1>0, <1>1 DEF SlotShape, TypeOK
  <1>3. /\ reply' \in [Requests -> Answers \cup {"none", "pending"}]
        /\ \A q \in Requests : q # cur => reply'[q] = reply[q]
        /\ \A q \in Requests : q = cur => reply'[q] = "session_ended"
    <2>1. reply' = [q \in Requests |->
                      IF q \in {cur} \ {NoReq} THEN "session_ended" ELSE reply[q]]
      BY DEF Leave, Answer
    <2>2. /\ reply \in [Requests -> Answers \cup {"none", "pending"}]
          /\ "session_ended" \in Answers
      BY <1>0 DEF TypeOK, Answers
    <2>3. \A q \in Requests : q # NoReq
      BY RequestsAssumption
    <2> QED BY <2>1, <2>2, <2>3
  <1>4. TypeOK'
    BY <1>0, <1>1, <1>3 DEF TypeOK, Running, Ending
  <1>5. SlotShape'
    BY <1>0, <1>1, <1>2 DEF SlotShape, Live, Serving, Running, Ending
  <1>6. QueuesShape'
    <2> DEFINE X == {cur} \ {NoReq}
    <2>1. /\ X \in SUBSET Requests
          /\ \A q \in X : /\ q \in thisLife \/ trail[q] # <<>>
                          /\ reply'[q] # "none" \/ reply'[q] = reply[q]
      BY <1>0, <1>3 DEF TypeOK, PipelineShape
    <2>2. \A q \in Requests \ X : q # cur
      BY RequestsAssumption
    <2>3. \A q \in Requests \ X :
            reply'[q] = reply[q] /\ trail'[q] = trail[q] /\ sent'[q] = sent[q]
      BY <1>1, <1>3, <2>2
    <2> HIDE DEF X
    <2> QED BY <1>0, <1>1, <2>1, <2>3, QueuesTouched
  <1>7. PipelineShape'
    BY <1>0, <1>1, <1>2, PipelineEmptied DEF Midway
  <1>8. TrailShape' /\ InboxShape'
    BY <1>0, <1>1, TrailFrame, InboxFrame
  <1> QED BY <1>4, <1>5, <1>6, <1>7, <1>8 DEF IInv

-----------------------------------------------------------------------------
(* Callers and the other inputs *)

(* A new command: a route command is for a call nobody has submitted. *)
LEMMA QueuesGrow ==
  ASSUME TypeOK, QueuesShape, NEW c \in Cmds,
         cmdq' = Append(cmdq, c),
         UNCHANGED <<routeQueue, trail, sent, thisLife>>,
         \/ c.kind # "route" /\ reply' = reply
         \/ /\ c.kind = "route" /\ reply[c.req] = "none"
            /\ reply' = [reply EXCEPT ![c.req] = "pending"]
  PROVE  QueuesShape'
  <1> DEFINE N == Len(cmdq)
  <1>1. /\ N \in Nat /\ Len(cmdq') = N + 1 /\ cmdq'[N + 1] = c
        /\ \A i \in 1 .. N : cmdq'[i] = cmdq[i]
    BY SeqAppend DEF TypeOK
  <1>2. \A i \in 1 .. Len(cmdq') : (i \in 1 .. N /\ cmdq'[i] = cmdq[i]) \/ i = N + 1
    BY <1>1
  <1>3. \A i \in 1 .. N : cmdq[i] \in Cmds
    BY DEF TypeOK
  <1>4. \A i \in 1 .. N : cmdq[i].kind = "route" =>
          /\ cmdq[i].req \in Requests /\ reply[cmdq[i].req] = "pending"
          /\ trail[cmdq[i].req] = <<>> /\ sent[cmdq[i].req] = <<>>
          /\ cmdq[i].req \notin thisLife
    BY <1>3 DEF QueuesShape, Unstarted, Cmds
  <1>5. \A i \in 1 .. Len(routeQueue) :
          /\ routeQueue[i] \in Requests /\ reply[routeQueue[i]] = "pending"
          /\ trail[routeQueue[i]] = <<>> /\ sent[routeQueue[i]] = <<>>
          /\ routeQueue[i] \notin thisLife
    BY DEF TypeOK, QueuesShape, Unstarted
  <1>6. /\ \A i, j \in 1 .. N :
            cmdq[i].kind = "route" /\ cmdq[j].kind = "route"
              /\ cmdq[i].req = cmdq[j].req => i = j
        /\ \A i, j \in 1 .. Len(routeQueue) :
            routeQueue[i] = routeQueue[j] => i = j
        /\ \A i \in 1 .. N, j \in 1 .. Len(routeQueue) :
            cmdq[i].kind = "route" => cmdq[i].req # routeQueue[j]
        /\ \A r \in Requests : reply[r] = "none" =>
             trail[r] = <<>> /\ sent[r] = <<>> /\ r \notin thisLife
    BY DEF QueuesShape, Unstarted
  <1>7. c.kind = "route" => c.req \in Requests
    BY DEF Cmds
  <1>8. /\ \A r \in Requests : reply[r] = "pending" => reply'[r] = "pending"
        /\ \A r \in Requests : reply'[r] = "none" => reply[r] = "none"
        /\ c.kind = "route" => reply'[c.req] = "pending"
    BY <1>7 DEF TypeOK
  <1>9. \A i, j \in 1 .. Len(cmdq') :
          cmdq'[i].kind = "route" /\ cmdq'[j].kind = "route"
            /\ cmdq'[i].req = cmdq'[j].req => i = j
    BY <1>1, <1>2, <1>4, <1>6
  <1>10. \A i \in 1 .. Len(cmdq'), j \in 1 .. Len(routeQueue') :
           cmdq'[i].kind = "route" => cmdq'[i].req # routeQueue'[j]
    BY <1>1, <1>2, <1>5, <1>6
  <1>11. \A i \in 1 .. Len(cmdq') : cmdq'[i].kind = "route" =>
           /\ reply'[cmdq'[i].req] = "pending"
           /\ trail'[cmdq'[i].req] = <<>> /\ sent'[cmdq'[i].req] = <<>>
           /\ cmdq'[i].req \notin thisLife'
    BY <1>1, <1>2, <1>4, <1>6, <1>7, <1>8
  <1>12. \A i \in 1 .. Len(routeQueue') :
           /\ reply'[routeQueue'[i]] = "pending"
           /\ trail'[routeQueue'[i]] = <<>> /\ sent'[routeQueue'[i]] = <<>>
           /\ routeQueue'[i] \notin thisLife'
    BY <1>5, <1>8
  <1> QED BY <1>6, <1>8, <1>9, <1>10, <1>11, <1>12 DEF QueuesShape, Unstarted

(* dispatch keeps the invariant. *)
LEMMA SubmitInv ==
  ASSUME IInv, NEW r \in Requests, Submit(r)
  PROVE  IInv'
  <1>0. /\ TypeOK /\ SlotShape /\ QueuesShape /\ TrailShape /\ PipelineShape
        /\ InboxShape
    BY DEF IInv
  <1>1. /\ Serving /\ reply[r] = "none"
        /\ UNCHANGED <<trail, unlogged, contested, endRows, cutShort, pc, cur,
                       keeps, slot, active, epoch, core, flight, routeQueue,
                       consumed, watchdog, pump, link, inbox, sent, approvedBy,
                       resultBy, thisLife, starting, toSweep, rivals>>
    BY DEF Submit, durable, record, ends, session, history, others
  <1>2. TrailShape' /\ PipelineShape' /\ InboxShape'
    BY <1>0, <1>1, TrailFrame, PipelineFrame, InboxFrame
  <1>3. CASE active
    <2> DEFINE c == [kind |-> "route", req |-> r]
    <2>1. /\ Len(cmdq) < CmdCap /\ cmdq' = Append(cmdq, c)
          /\ reply' = [reply EXCEPT ![r] = "pending"]
      BY <1>3 DEF Submit
    <2>2. c \in Cmds
      BY DEF Cmds
    <2>3. cmdq' \in Seq(Cmds) /\ Len(cmdq') <= CmdCap
      BY <1>0, <2>1, <2>2, SeqAppend, BoundsAssumption DEF TypeOK
    <2>4. TypeOK'
      BY <1>0, <1>1, <2>1, <2>3 DEF TypeOK
    <2>5. SlotShape'
      BY <1>0, <1>1 DEF SlotShape, Live, Serving
    <2>6. QueuesShape'
      BY <1>0, <1>1, <2>1, <2>2, QueuesGrow
    <2> QED BY <1>2, <2>4, <2>5, <2>6 DEF IInv
  <1>4. CASE ~active
    <2>1. cmdq' = cmdq /\ reply' = [reply EXCEPT ![r] = "no_session"]
      BY <1>4 DEF Submit
    <2>2. TypeOK'
      BY <1>0, <1>1, <2>1 DEF TypeOK, Answers
    <2>3. SlotShape'
      BY <1>0, <1>1, <2>1 DEF SlotShape, Live, Serving
    <2>4. ~Queued(r)
      BY <1>0, <1>1 DEF QueuesShape, Queued, InCmds, InQueue
    <2>5. \A q \in Requests : reply'[q] = IF q = r THEN "no_session" ELSE reply[q]
      BY <1>0, <2>1 DEF TypeOK
    <2>6. QueuesShape'
      BY <1>0, <1>1, <2>1, <2>4, <2>5, QueuesFrame
    <2> QED BY <1>2, <2>2, <2>3, <2>6 DEF IInv
  <1> QED BY <1>0, <1>3, <1>4 DEF TypeOK

(* SessionHandle::start and SessionHandle::end keep the invariant. *)
LEMMA AskSessionInv ==
  ASSUME IInv, NEW kind \in {"start", "end"}, AskSession(kind)
  PROVE  IInv'
  <1>0. /\ TypeOK /\ SlotShape /\ QueuesShape /\ TrailShape /\ PipelineShape
        /\ InboxShape
    BY DEF IInv
  <1> DEFINE c == [kind |-> kind]
  <1>1. /\ Serving /\ Len(cmdq) < CmdCap /\ cmdq' = Append(cmdq, c)
        /\ UNCHANGED <<trail, unlogged, contested, endRows, cutShort, pc, cur,
                       keeps, slot, active, epoch, core, flight, routeQueue,
                       consumed, watchdog, pump, link, inbox, reply, sent,
                       approvedBy, resultBy, thisLife, starting, toSweep, rivals>>
    BY DEF AskSession, durable, record, ends, session, history, others
  <1>2. c \in Cmds /\ c.kind # "route"
    BY DEF Cmds
  <1>3. cmdq' \in Seq(Cmds) /\ Len(cmdq') <= CmdCap
    BY <1>0, <1>1, <1>2, SeqAppend, BoundsAssumption DEF TypeOK
  <1>4. TypeOK'
    BY <1>0, <1>1, <1>3 DEF TypeOK
  <1>5. SlotShape'
    BY <1>0, <1>1 DEF SlotShape, Live, Serving
  <1>6. QueuesShape'
    BY <1>0, <1>1, <1>2, QueuesGrow
  <1>7. TrailShape' /\ PipelineShape' /\ InboxShape'
    BY <1>0, <1>1, TrailFrame, PipelineFrame, InboxFrame
  <1> QED BY <1>4, <1>5, <1>6, <1>7 DEF IInv

(* The watchdog task keeps the invariant. *)
LEMMA WatchdogFiresInv ==
  ASSUME IInv, NEW ev \in TimerEvents, WatchdogFires(ev)
  PROVE  IInv'
  <1>0. /\ TypeOK /\ SlotShape /\ QueuesShape /\ TrailShape /\ PipelineShape
        /\ InboxShape
    BY DEF IInv
  <1>1. /\ pump' = [pump EXCEPT ![epoch] = Append(pump[epoch], ev)]
        /\ watchdog \in {"armed", "warned"} /\ watchdog' \in {"warned", "fired"}
        /\ UNCHANGED <<trail, unlogged, contested, endRows, cutShort, pc, cur,
                       keeps, slot, active, epoch, core, flight, routeQueue,
                       consumed, cmdq, link, inbox, reply, sent, approvedBy,
                       resultBy, thisLife, starting, toSweep, rivals>>
    BY DEF WatchdogFires, durable, record, ends, session, history, others
  <1>2. pump' \in [Epochs -> Seq(TimerEvents)]
    <2>1. pump \in [Epochs -> Seq(TimerEvents)]
      BY <1>0 DEF TypeOK
    <2>2. epoch \in Epochs => Append(pump[epoch], ev) \in Seq(TimerEvents)
      BY <2>1, SeqAppend
    <2> QED BY <1>1, <2>1, <2>2, Updated
  <1>3. TypeOK'
    BY <1>0, <1>1, <1>2 DEF TypeOK
  <1>4. SlotShape'
    <2>1. Live /\ Serving
      BY <1>0, <1>1 DEF SlotShape, TypeOK, Serving
    <2> QED BY <2>1, <1>0, <1>1 DEF SlotShape, Live, Serving
  <1>5. QueuesShape' /\ TrailShape' /\ PipelineShape' /\ InboxShape'
    BY <1>0, <1>1, QueuesFrame, TrailFrame, PipelineFrame, InboxFrame
  <1> QED BY <1>3, <1>4, <1>5 DEF IInv

(* A session's pump task keeps the invariant. *)
LEMMA PumpInv ==
  ASSUME IInv, NEW e \in Epochs, Pump(e)
  PROVE  IInv'
  <1>0. /\ TypeOK /\ SlotShape /\ QueuesShape /\ TrailShape /\ PipelineShape
        /\ InboxShape
    BY DEF IInv
  <1> DEFINE c == [kind |-> "timer", ev |-> Head(pump[e]), of |-> e]
  <1>1. /\ pump[e] # <<>> /\ Len(cmdq) < CmdCap /\ cmdq' = Append(cmdq, c)
        /\ pump' = [pump EXCEPT ![e] = Tail(pump[e])]
        /\ UNCHANGED <<trail, unlogged, contested, endRows, cutShort, pc, cur,
                       keeps, slot, active, epoch, core, flight, routeQueue,
                       consumed, watchdog, link, inbox, reply, sent, approvedBy,
                       resultBy, thisLife, starting, toSweep, rivals>>
    BY DEF Pump, durable, record, ends, session, history, others
  <1>2. pump \in [Epochs -> Seq(TimerEvents)] /\ pump[e] \in Seq(TimerEvents)
    BY <1>0 DEF TypeOK
  <1>3. Head(pump[e]) \in TimerEvents /\ Tail(pump[e]) \in Seq(TimerEvents)
    BY <1>1, <1>2, SeqTail
  <1>4. c \in Cmds /\ c.kind # "route"
    BY <1>3 DEF Cmds
  <1>5. cmdq' \in Seq(Cmds) /\ Len(cmdq') <= CmdCap
    BY <1>0, <1>1, <1>4, SeqAppend, BoundsAssumption DEF TypeOK
  <1>6. pump' \in [Epochs -> Seq(TimerEvents)]
    BY <1>1, <1>2, <1>3, Updated
  <1>7. TypeOK'
    BY <1>0, <1>1, <1>5, <1>6 DEF TypeOK
  <1>8. SlotShape'
    <2>1. Serving
      BY <1>0, <1>1 DEF SlotShape
    <2> QED BY <2>1, <1>0, <1>1 DEF SlotShape, Live, Serving
  <1>9. QueuesShape'
    BY <1>0, <1>1, <1>4, QueuesGrow
  <1>10. TrailShape' /\ PipelineShape' /\ InboxShape'
    BY <1>0, <1>1, TrailFrame, PipelineFrame, InboxFrame
  <1> QED BY <1>7, <1>8, <1>9, <1>10 DEF IInv

(* Whatever the phone sends, it only adds to the history and the inbox. *)
LEMMA PhoneSendsInv ==
  ASSUME IInv, NEW m \in PhoneMsgs, PhoneSends(m)
  PROVE  IInv'
  <1>0. /\ TypeOK /\ SlotShape /\ QueuesShape /\ TrailShape /\ PipelineShape
        /\ InboxShape
    BY DEF IInv
  <1>1. /\ Live /\ inbox' = Append(inbox, m)
        /\ approvedBy' =
             IF m.kind = "approval_response" /\ m.decision = "approved" /\ m.sig
               THEN approvedBy \cup {<<m.req, epoch>>} ELSE approvedBy
        /\ resultBy' = IF m.kind = "execute_response" /\ m.sig
                         THEN resultBy \cup {m.req} ELSE resultBy
        /\ UNCHANGED <<trail, unlogged, contested, endRows, cutShort, pc, cur,
                       keeps, slot, active, epoch, core, flight, routeQueue,
                       consumed, cmdq, watchdog, pump, link, reply, sent,
                       thisLife, starting, toSweep, rivals>>
    BY DEF PhoneSends, durable, record, ends, session
  <1>2. inbox' \in Seq(PhoneMsgs)
    BY <1>0, <1>1, SeqAppend DEF TypeOK
  <1>3. m.kind \in {"approval_response", "execute_response"} => m.req \in Requests
    BY DEF PhoneMsgs
  <1>4. epoch \in Epochs
    BY <1>0, <1>1 DEF SlotShape
  <1>5. approvedBy' \subseteq Requests \X Epochs /\ resultBy' \subseteq Requests
    BY <1>0, <1>1, <1>3, <1>4 DEF TypeOK
  <1>6. TypeOK'
    BY <1>0, <1>1, <1>2, <1>5 DEF TypeOK
  <1>7. SlotShape'
    BY <1>0, <1>1 DEF SlotShape, Live, Serving
  <1>8. QueuesShape' /\ TrailShape' /\ PipelineShape'
    BY <1>0, <1>1, QueuesFrame, TrailFrame, PipelineFrame
  <1>9. InboxShape'
    <2> DEFINE N == Len(inbox)
    <2>1. /\ N \in Nat /\ Len(inbox') = N + 1 /\ inbox'[N + 1] = m
          /\ \A i \in 1 .. N : inbox'[i] = inbox[i]
      BY <1>0, <1>1, SeqAppend DEF TypeOK
    <2> SUFFICES ASSUME NEW i \in 1 .. Len(inbox')
                 PROVE
          /\ inbox'[i].kind = "approval_response" =>
               (inbox'[i].sig /\ inbox'[i].decision = "approved"
                  => <<inbox'[i].req, epoch'>> \in approvedBy')
          /\ inbox'[i].kind = "execute_response" =>
               (inbox'[i].sig => inbox'[i].req \in resultBy')
      BY DEF InboxShape
    <2>2. approvedBy \subseteq approvedBy' /\ resultBy \subseteq resultBy'
      BY <1>1
    <2>3. CASE i \in 1 .. N
      BY <1>0, <1>1, <2>1, <2>2, <2>3 DEF InboxShape
    <2>4. CASE i = N + 1
      BY <1>1, <2>1, <2>4
    <2> QED BY <2>1, <2>3, <2>4
  <1> QED BY <1>6, <1>7, <1>8, <1>9 DEF IInv

(* The radio may drop at any time. *)
LEMMA LinkDropsInv ==
  ASSUME IInv, LinkDrops
  PROVE  IInv'
  <1>0. /\ TypeOK /\ SlotShape /\ QueuesShape /\ TrailShape /\ PipelineShape
        /\ InboxShape
    BY DEF IInv
  <1>1. /\ link' = FALSE
        /\ UNCHANGED <<trail, unlogged, contested, endRows, cutShort, pc, cur,
                       keeps, slot, active, epoch, core, flight, routeQueue,
                       consumed, cmdq, watchdog, pump, inbox, reply, sent,
                       approvedBy, resultBy, thisLife, starting, toSweep, rivals>>
    BY DEF LinkDrops, durable, record, ends, session, history, others
  <1>2. TypeOK'
    BY <1>0, <1>1 DEF TypeOK
  <1>3. SlotShape'
    BY <1>0, <1>1 DEF SlotShape, Live, Serving
  <1>4. QueuesShape' /\ TrailShape' /\ PipelineShape' /\ InboxShape'
    BY <1>0, <1>1, QueuesFrame, TrailFrame, PipelineFrame, InboxFrame
  <1> QED BY <1>2, <1>3, <1>4 DEF IInv

-----------------------------------------------------------------------------
(* Commands *)

(* SessionCmd::Start keeps the invariant. *)
LEMMA OnStartInv ==
  ASSUME IInv, OnStart
  PROVE  IInv'
  <1>0. /\ TypeOK /\ SlotShape /\ QueuesShape /\ TrailShape /\ PipelineShape
        /\ InboxShape
    BY DEF IInv
  <1>1. /\ pc = "select" /\ cmdq # <<>> /\ cmdq' = Tail(cmdq)
        /\ pc' = IF slot THEN "select" ELSE "dial"
        /\ UNCHANGED <<trail, unlogged, contested, endRows, cutShort, keeps, cur, slot,
                       active, epoch, core, flight, routeQueue, consumed,
                       watchdog, pump, link, inbox, reply, sent, approvedBy,
                       resultBy, thisLife, starting, toSweep, rivals>>
    BY DEF OnStart, NextCmd, durable, record, ends, session, history, others
  <1>2. cmdq' \in Seq(Cmds) /\ Len(cmdq') <= CmdCap
    BY <1>0, <1>1, CmdsPopped
  <1>3. TypeOK'
    BY <1>0, <1>1, <1>2 DEF TypeOK, Running, Ending
  <1>4. SlotShape'
    BY <1>0, <1>1 DEF SlotShape, Live, Serving, Running, Ending, TypeOK
  <1>5. QueuesShape' /\ TrailShape' /\ PipelineShape' /\ InboxShape'
    <2>1. pc' \notin Midway
      BY <1>1 DEF Midway
    <2> QED BY <1>0, <1>1, <2>1, QueuesFrame, TrailFrame, PipelineFrame, InboxFrame
  <1> QED BY <1>3, <1>4, <1>5 DEF IInv

(* begin_session installs a fresh slot. *)
LEMMA DialSucceedsInv ==
  ASSUME IInv, DialSucceeds
  PROVE  IInv'
  <1>0. /\ TypeOK /\ SlotShape /\ QueuesShape /\ TrailShape /\ PipelineShape
        /\ InboxShape
    BY DEF IInv
  <1>1. /\ pc = "dial" /\ epoch < MaxSessions /\ epoch' = epoch + 1
        /\ slot' = TRUE /\ active' = TRUE /\ core' = "active"
        /\ flight' = NoFlight /\ routeQueue' = <<>> /\ consumed' = {}
        /\ watchdog' = "armed" /\ link' = TRUE /\ inbox' = <<>>
        /\ pc' = "select"
        /\ UNCHANGED <<trail, unlogged, contested, endRows, cutShort, keeps, cur, cmdq,
                       pump, reply, sent, approvedBy, resultBy, thisLife,
                       starting, toSweep, rivals>>
    BY DEF DialSucceeds, durable, record, ends, history, others
  <1>2. epoch' \in Epochs /\ epoch' \in 0 .. MaxSessions
    BY <1>0, <1>1, BoundsAssumption DEF TypeOK, Epochs
  <1>3. TypeOK'
    <2>1. routeQueue' \in Seq(Requests) /\ Len(routeQueue') <= RouteQueueCap
          /\ inbox' \in Seq(PhoneMsgs)
      BY <1>1, BoundsAssumption
    <2> QED BY <1>0, <1>1, <1>2, <2>1 DEF TypeOK, Running, Ending, Flights
  <1>4. SlotShape'
    BY <1>0, <1>1, <1>2 DEF SlotShape, Live, Serving, Running, Ending
  <1>5. QueuesShape' /\ TrailShape'
    BY <1>0, <1>1, QueuesFrame, TrailFrame
  <1>6. PipelineShape'
    <2>1. cur' = NoReq /\ pc' \notin Midway /\ consumed' \subseteq consumed
      BY <1>0, <1>1 DEF SlotShape, Ending, Midway
    <2> QED BY <1>0, <1>1, <2>1, PipelineEmptied
  <1>7. InboxShape'
    BY <1>1 DEF InboxShape
  <1> QED BY <1>3, <1>4, <1>5, <1>6, <1>7 DEF IInv

(* A failed begin_session leaves everything as it was. *)
LEMMA DialFailsInv ==
  ASSUME IInv, DialFails
  PROVE  IInv'
  <1>0. /\ TypeOK /\ SlotShape /\ QueuesShape /\ TrailShape /\ PipelineShape
        /\ InboxShape
    BY DEF IInv
  <1>1. /\ pc = "dial" /\ pc' = "select"
        /\ UNCHANGED <<trail, unlogged, contested, endRows, cutShort, keeps, cur, slot,
                       active, epoch, core, flight, routeQueue, consumed, cmdq,
                       watchdog, pump, link, inbox, reply, sent, approvedBy,
                       resultBy, thisLife, starting, toSweep, rivals>>
    BY DEF DialFails, durable, record, ends, session, channels, history, others
  <1>2. TypeOK'
    BY <1>0, <1>1 DEF TypeOK, Running, Ending
  <1>3. SlotShape'
    BY <1>0, <1>1 DEF SlotShape, Live, Serving, Running, Ending
  <1>4. QueuesShape' /\ TrailShape' /\ PipelineShape' /\ InboxShape'
    <2>1. pc' \notin Midway
      BY <1>1 DEF Midway
    <2> QED BY <1>0, <1>1, <2>1, QueuesFrame, TrailFrame, PipelineFrame, InboxFrame
  <1> QED BY <1>2, <1>3, <1>4 DEF IInv

(* SessionCmd::End keeps the invariant. *)
LEMMA OnEndInv ==
  ASSUME IInv, OnEnd
  PROVE  IInv'
  <1>0. /\ TypeOK /\ SlotShape /\ QueuesShape /\ TrailShape /\ PipelineShape
        /\ InboxShape
    BY DEF IInv
  <1>1. /\ pc = "select" /\ cmdq # <<>> /\ cmdq' = Tail(cmdq)
        /\ UNCHANGED <<trail, unlogged, contested, endRows, cutShort, cur, sent,
                       approvedBy, resultBy, thisLife, starting, toSweep, rivals>>
    BY DEF OnEnd, NextCmd, durable, record, ends, history, others
  <1>2. cur = NoReq /\ sent' \in [Requests -> Seq(Sends)]
    BY <1>0, <1>1 DEF SlotShape, TypeOK, Ending
  <1>3. CASE slot
    <2>1. Teardown(FALSE)
      BY <1>3 DEF OnEnd
    <2>2. flight # NoFlight => flight.req # cur
      BY <1>0, <1>2, FlightIsStarted, RequestsAssumption
    <2> QED BY <1>0, <1>1, <1>2, <1>3, <2>1, <2>2, TeardownInv, TrailFrame DEF IInv
  <1>4. CASE ~slot
    <2>1. UNCHANGED <<pc, keeps, slot, active, epoch, core, flight, routeQueue,
                      consumed, watchdog, pump, link, inbox, reply>>
      BY <1>4 DEF OnEnd, session
    <2>2. cmdq' \in Seq(Cmds) /\ Len(cmdq') <= CmdCap
      BY <1>0, <1>1, CmdsPopped
    <2>3. TypeOK'
      BY <1>0, <1>1, <2>1, <2>2 DEF TypeOK
    <2>4. SlotShape'
      BY <1>0, <1>1, <2>1 DEF SlotShape, Live, Serving, Running, Ending
    <2>5. QueuesShape' /\ TrailShape' /\ PipelineShape' /\ InboxShape'
      BY <1>0, <1>1, <2>1, QueuesFrame, TrailFrame, PipelineFrame, InboxFrame
    <2> QED BY <2>3, <2>4, <2>5 DEF IInv
  <1> QED BY <1>0, <1>3, <1>4 DEF TypeOK

(* handle_timer_event keeps the invariant. *)
LEMMA OnTimerInv ==
  ASSUME IInv, OnTimer
  PROVE  IInv'
  <1>0. /\ TypeOK /\ SlotShape /\ QueuesShape /\ TrailShape /\ PipelineShape
        /\ InboxShape
    BY DEF IInv
  <1>1. /\ pc = "select" /\ cmdq # <<>> /\ cmdq' = Tail(cmdq)
        /\ UNCHANGED <<trail, unlogged, contested, endRows, cutShort, cur, sent,
                       approvedBy, resultBy, thisLife, starting, toSweep, rivals>>
    BY DEF OnTimer, NextCmd, durable, record, ends, history, others
  <1>2. cur = NoReq /\ sent' \in [Requests -> Seq(Sends)]
    BY <1>0, <1>1 DEF SlotShape, TypeOK, Ending
  <1>3. CASE slot /\ EndsSession(Head(cmdq).ev)
    <2>1. Teardown(FALSE)
      BY <1>3 DEF OnTimer
    <2>2. flight # NoFlight => flight.req # cur
      BY <1>0, <1>2, FlightIsStarted, RequestsAssumption
    <2> QED BY <1>0, <1>1, <1>2, <1>3, <2>1, <2>2, TeardownInv, TrailFrame DEF IInv
  <1>4. CASE ~(slot /\ EndsSession(Head(cmdq).ev))
    <2>1. /\ core' = core \/ (core = "active" /\ core' = "idle_warning")
          /\ UNCHANGED <<pc, keeps, slot, active, epoch, flight, routeQueue,
                         consumed, watchdog, pump, link, inbox, reply>>
      <3>1. core' = IF slot /\ core = "active" /\ Head(cmdq).ev = "warning_due"
                      THEN "idle_warning" ELSE core
        BY <1>4 DEF OnTimer
      <3>2. UNCHANGED <<pc, keeps, slot, active, epoch, flight, routeQueue,
                        consumed, watchdog, pump, link, inbox, reply>>
        BY <1>4 DEF OnTimer
      <3>3. CASE slot /\ core = "active" /\ Head(cmdq).ev = "warning_due"
        BY <3>1, <3>2, <3>3
      <3>4. CASE ~(slot /\ core = "active" /\ Head(cmdq).ev = "warning_due")
        <4>1. core' = core
          BY <3>1, <3>4
        <4> QED BY <4>1, <3>2
      <3> QED BY <3>3, <3>4
    <2>2. cmdq' \in Seq(Cmds) /\ Len(cmdq') <= CmdCap
      BY <1>0, <1>1, CmdsPopped
    <2>3. TypeOK'
      BY <1>0, <1>1, <2>1, <2>2 DEF TypeOK
    <2>4. SlotShape'
      BY <1>0, <1>1, <2>1 DEF SlotShape, Live, Serving, Running, Ending
    <2>5. QueuesShape' /\ TrailShape' /\ PipelineShape' /\ InboxShape'
      BY <1>0, <1>1, <2>1, QueuesFrame, TrailFrame, PipelineFrame, InboxFrame
    <2> QED BY <2>3, <2>4, <2>5 DEF IInv
  <1> QED BY <1>3, <1>4

(* log_req on a call that is still open keeps the trails in shape. *)
LEMMA LogKeeps ==
  ASSUME TypeOK, TrailShape, NEW r \in Requests, NEW ev \in EventTypes,
         Log(r, ev), sent' = sent, toSweep' = toSweep,
         ev = "approval_denied" => NoExecute(r)
  PROVE  /\ trail' \in [Requests -> Seq(EventTypes)]
         /\ unlogged' \subseteq Requests /\ contested' \subseteq Requests
         /\ unlogged \subseteq unlogged'
         /\ \A q \in Requests : q # r => trail'[q] = trail[q]
         /\ \A q \in Requests : \A y : HasRow(trail[q], y) => HasRow(trail'[q], y)
         /\ HasRow(trail'[r], ev) \/ r \in unlogged'
         /\ ev # "approval_denied" => \A q \in Requests : Refused(q)' => Refused(q)
         /\ TrailShape'
  <1>1. trail \in [Requests -> Seq(EventTypes)] /\ trail[r] \in Seq(EventTypes)
    BY DEF TypeOK
  <1>2. contested' \subseteq Requests
    BY DEF Log, TypeOK
  <1>3. CASE trail' = [trail EXCEPT ![r] = Append(trail[r], ev)] /\ unlogged' = unlogged
    <2>1. /\ Append(trail[r], ev) \in Seq(EventTypes) /\ Append(trail[r], ev) # <<>>
          /\ \A y : HasRow(Append(trail[r], ev), y) <=> (HasRow(trail[r], y) \/ y = ev)
      BY <1>1, Rows
    <2>2. /\ trail' \in [Requests -> Seq(EventTypes)]
          /\ \A q \in Requests : q # r => trail'[q] = trail[q]
          /\ trail'[r] = Append(trail[r], ev)
      BY <1>1, <1>3, <2>1, Updated
    <2>3. /\ \A q \in Requests : \A y : HasRow(trail[q], y) => HasRow(trail'[q], y)
          /\ HasRow(trail'[r], ev)
          /\ \A q \in Requests : Refused(q)' =>
               Refused(q) \/ (q = r /\ ev = "approval_denied")
      BY <2>1, <2>2 DEF Refused
    <2>4. TrailShape'
      <3>1. \A q \in Requests : NoExecute(q)' <=> NoExecute(q)
        BY DEF NoExecute
      <3>2. \A q \in Requests : trail[q] # <<>> => trail'[q] # <<>>
        BY <2>1, <2>2
      <3> QED BY <1>3, <2>3, <3>1, <3>2 DEF TrailShape
    <2> QED BY <1>2, <1>3, <2>2, <2>3, <2>4 DEF TypeOK
  <1>4. CASE unlogged' = unlogged \cup {r} /\ trail' = trail
    <2>1. TrailShape'
      BY <1>4, TrailFrame
    <2> QED BY <1>1, <1>2, <1>4, <2>1 DEF TypeOK, Refused
  <1> QED BY <1>3, <1>4 DEF Log

(* start_route on a call taken from a queue: the rows, the pipeline and    *)
(* the queues stay in order.                                               *)
LEMMA StartRouteKeeps ==
  ASSUME TypeOK, SlotShape, QueuesShape, TrailShape, PipelineShape,
         NEW r \in Requests, StartRoute(r),
         Unstarted(r), reply[r] = "pending", ~Queued(r)', pc \notin Midway,
         cur = NoReq,
         cmdq' = cmdq \/ (cmdq # <<>> /\ cmdq' = Tail(cmdq)),
         routeQueue' = routeQueue
           \/ (routeQueue # <<>> /\ routeQueue' = Tail(routeQueue)),
         UNCHANGED <<sent, consumed, epoch, flight, approvedBy, toSweep>>
  PROVE  /\ trail' \in [Requests -> Seq(EventTypes)]
         /\ unlogged' \subseteq Requests /\ contested' \subseteq Requests
         /\ reply' \in [Requests -> Answers \cup {"none", "pending"}]
         /\ thisLife' \subseteq Requests /\ cur' \in Requests \cup {NoReq}
         /\ \/ pc' = "select" /\ cur' = cur
            \/ pc' = "route_send" /\ cur' = r
         /\ QueuesShape' /\ TrailShape' /\ PipelineShape'
  <1>1. CASE r \in Malformed
    <2>1. /\ reply' = [reply EXCEPT ![r] = "internal"] /\ pc' = "select"
          /\ UNCHANGED <<trail, unlogged, contested, cur, thisLife>>
      BY <1>1 DEF StartRoute, record
    <2>2. /\ reply' \in [Requests -> Answers \cup {"none", "pending"}]
          /\ \A q \in Requests : reply'[q] = IF q = r THEN "internal" ELSE reply[q]
      BY <2>1, Updated DEF TypeOK, Answers
    <2>3. QueuesShape'
      BY <2>1, <2>2, QueuesFrame
    <2>4. TrailShape' /\ PipelineShape'
      BY <2>1, TrailFrame, PipelineFrame DEF Midway
    <2> QED BY <2>1, <2>2, <2>3, <2>4 DEF TypeOK
  <1>2. CASE r \notin Malformed
    <2>1. /\ Log(r, FirstRow(r)) /\ thisLife' = thisLife \cup {r}
          /\ \/ /\ reply' = [reply EXCEPT ![r] = "internal"]
                /\ pc' = "select" /\ cur' = cur
             \/ reply' = reply /\ pc' = "route_send" /\ cur' = r
      BY <1>2 DEF StartRoute
    <2>2. FirstRow(r) \in EventTypes /\ FirstRow(r) # "approval_denied"
      BY DEF FirstRow, EventTypes
    <2>3. /\ trail' \in [Requests -> Seq(EventTypes)]
          /\ unlogged' \subseteq Requests /\ contested' \subseteq Requests
          /\ unlogged \subseteq unlogged'
          /\ \A q \in Requests : q # r => trail'[q] = trail[q]
          /\ \A q \in Requests : \A y : HasRow(trail[q], y) => HasRow(trail'[q], y)
          /\ HasRow(trail'[r], FirstRow(r)) \/ r \in unlogged'
          /\ \A q \in Requests : Refused(q)' => Refused(q)
          /\ TrailShape'
      BY <2>1, <2>2, LogKeeps
    <2>4. /\ reply' \in [Requests -> Answers \cup {"none", "pending"}]
          /\ \A q \in Requests : q # r => reply'[q] = reply[q]
          /\ reply'[r] # "none"
      BY <2>1, Updated DEF TypeOK, Answers
    <2>5. QueuesShape'
      BY <2>1, <2>3, <2>4, QueuesFrame
    <2>6. trail[r] = <<>> /\ sent[r] = <<>> /\ r \notin thisLife
      BY DEF Unstarted
    <2>7. thisLife' \subseteq Requests /\ cur' \in Requests \cup {NoReq}
      BY <2>1 DEF TypeOK
    <2>8. PipelineShape'
      <3>1. CASE pc' = "select" /\ cur' = cur
        <4>1. pc' \notin Midway /\ thisLife \subseteq thisLife'
          BY <2>1, <3>1 DEF Midway
        <4> QED BY <2>3, <3>1, <4>1, PipelineKept
      <3>2. CASE pc' = "route_send" /\ cur' = r
        <4>1. flight # NoFlight => flight.req \in Requests
          BY FlightIsStarted
        <4>2. flight' # NoFlight =>
                /\ flight'.req \in thisLife'
                /\ flight'.stage = "approval" =>
                     /\ Asked(flight.req)' /\ flight'.req \notin consumed'
                     /\ NoExecute(flight.req)' /\ ~Refused(flight.req)'
                /\ flight'.stage = "execute" => Approved(flight.req)'
          <5>1. \A q \in Requests :
                  /\ Asked(q) => Asked(q)'
                  /\ Approved(q) => Approved(q)'
                  /\ NoExecute(q) => NoExecute(q)'
            BY DEF Asked, Approved, SentIn, NoExecute
          <5>2. PICK f : f = flight.req
            OBVIOUS
          <5>3. /\ Asked(f)' => Asked(flight.req)'
                /\ NoExecute(f)' => NoExecute(flight.req)'
                /\ Refused(flight.req)' => Refused(f)'
                /\ Approved(f)' => Approved(flight.req)'
            BY <5>2 DEF Asked, Approved, SentIn, NoExecute, Refused
          <5>4. flight # NoFlight =>
                  /\ f \in thisLife
                  /\ flight.stage = "approval" =>
                       Asked(f) /\ f \notin consumed /\ NoExecute(f) /\ ~Refused(f)
                  /\ flight.stage = "execute" => Approved(f)
            BY <5>2 DEF PipelineShape
          <5> QED BY <2>1, <2>3, <4>1, <5>1, <5>2, <5>3, <5>4
        <4>3. r \notin consumed
          BY <2>6 DEF PipelineShape
        <4>4. ~Refused(r)'
          <5>1. ~Refused(r)
            BY <2>6 DEF Refused, HasRow
          <5> QED BY <2>3, <5>1
        <4>5. ~Refused(cur)' /\ (HasRow(trail'[cur'], FirstRow(cur')) \/ cur' \in unlogged')
          BY <2>3, <3>2, <4>4 DEF Refused
        <4>6. \A q \in consumed' : sent'[q] # <<>>
          BY DEF PipelineShape
        <4> QED BY <2>1, <2>6, <3>2, <4>2, <4>3, <4>5, <4>6 DEF PipelineShape
      <3> QED BY <2>1, <3>1, <3>2
    <2> QED BY <2>1, <2>3, <2>4, <2>5, <2>7, <2>8
  <1> QED BY <1>1, <1>2

(* The call a route command carries is in no other place. *)
LEMMA HeadOfCmds ==
  ASSUME TypeOK, QueuesShape, NextCmd("route"), NEW r, r = Head(cmdq).req
  PROVE  /\ r \in Requests /\ reply[r] = "pending" /\ Unstarted(r)
         /\ ~InCmds(r)' /\ ~InQueue(r)
  <1>1. /\ cmdq \in Seq(Cmds) /\ cmdq # <<>> /\ cmdq' = Tail(cmdq)
        /\ Head(cmdq).kind = "route"
    BY DEF TypeOK, NextCmd
  <1>2. /\ Head(cmdq) \in Cmds /\ Head(cmdq) = cmdq[1]
        /\ Len(cmdq) \in Nat /\ Len(cmdq) > 0 /\ Len(cmdq') = Len(cmdq) - 1
        /\ \A i \in 1 .. Len(cmdq) - 1 : cmdq'[i] = cmdq[i + 1]
    BY <1>1, SeqTail
  <1>3. 1 \in 1 .. Len(cmdq) /\ cmdq[1].kind = "route" /\ cmdq[1].req = r
    BY <1>1, <1>2
  <1>4. r \in Requests
    BY <1>1, <1>2 DEF Cmds
  <1>5. reply[r] = "pending" /\ Unstarted(r) /\ ~InQueue(r)
    BY <1>3 DEF QueuesShape, InQueue
  <1>6. ASSUME InCmds(r)' PROVE FALSE
    <2>1. PICK i \in 1 .. Len(cmdq') : cmdq'[i].kind = "route" /\ cmdq'[i].req = r
      BY <1>6 DEF InCmds
    <2>2. i + 1 \in 1 .. Len(cmdq) /\ cmdq[i + 1] = cmdq'[i] /\ i \in Nat /\ i > 0
      BY <1>2
    <2>3. \A a, b \in 1 .. Len(cmdq) :
            cmdq[a].kind = "route" /\ cmdq[b].kind = "route"
              /\ cmdq[a].req = cmdq[b].req => a = b
      BY DEF QueuesShape
    <2>4. i + 1 = 1
      BY <1>3, <2>1, <2>2, <2>3
    <2> QED BY <2>2, <2>4
  <1> QED BY <1>4, <1>5, <1>6

(* A call moves from the command channel to the route queue. *)
LEMMA QueueMoves ==
  ASSUME TypeOK, QueuesShape, NextCmd("route"), NEW r, r = Head(cmdq).req,
         routeQueue' = Append(routeQueue, r),
         UNCHANGED <<reply, trail, sent, thisLife>>
  PROVE  QueuesShape'
  <1>0. /\ r \in Requests /\ reply[r] = "pending" /\ Unstarted(r)
        /\ ~InCmds(r)' /\ ~InQueue(r)
    BY HeadOfCmds
  <1>1. /\ cmdq # <<>> /\ cmdq' = Tail(cmdq) /\ cmdq \in Seq(Cmds)
    BY DEF NextCmd, TypeOK
  <1>2. /\ Len(cmdq) \in Nat /\ Len(cmdq') = Len(cmdq) - 1
        /\ \A i \in 1 .. Len(cmdq) - 1 : cmdq'[i] = cmdq[i + 1]
    BY <1>1, SeqTail
  <1>3. \A i \in 1 .. Len(cmdq') : i + 1 \in 1 .. Len(cmdq) /\ cmdq[i + 1] = cmdq'[i]
    BY <1>2
  <1> DEFINE N == Len(routeQueue)
  <1>4. /\ N \in Nat /\ Len(routeQueue') = N + 1 /\ routeQueue'[N + 1] = r
        /\ \A i \in 1 .. N : routeQueue'[i] = routeQueue[i]
    BY <1>0, SeqAppend DEF TypeOK
  <1>5. \A i \in 1 .. Len(routeQueue') :
          (i \in 1 .. N /\ routeQueue'[i] = routeQueue[i])
            \/ (i = N + 1 /\ routeQueue'[i] = r)
    BY <1>4
  <1>6. /\ \A i, j \in 1 .. Len(cmdq) :
             cmdq[i].kind = "route" /\ cmdq[j].kind = "route"
               /\ cmdq[i].req = cmdq[j].req => i = j
        /\ \A i, j \in 1 .. N : routeQueue[i] = routeQueue[j] => i = j
        /\ \A i \in 1 .. Len(cmdq), j \in 1 .. N :
             cmdq[i].kind = "route" => cmdq[i].req # routeQueue[j]
        /\ \A i \in 1 .. Len(cmdq) : cmdq[i].kind = "route" =>
             reply[cmdq[i].req] = "pending" /\ Unstarted(cmdq[i].req)
        /\ \A i \in 1 .. N :
             reply[routeQueue[i]] = "pending" /\ Unstarted(routeQueue[i])
        /\ \A q \in Requests : reply[q] = "none" => Unstarted(q)
    BY DEF QueuesShape
  <1>7. \A i \in 1 .. N : routeQueue[i] # r
    BY <1>0 DEF InQueue
  <1>8. \A i \in 1 .. Len(cmdq') : cmdq'[i].kind = "route" => cmdq'[i].req # r
    BY <1>0 DEF InCmds
  <1>9. \A i, j \in 1 .. Len(cmdq') :
          cmdq'[i].kind = "route" /\ cmdq'[j].kind = "route"
            /\ cmdq'[i].req = cmdq'[j].req => i = j
    <2> SUFFICES ASSUME NEW i \in 1 .. Len(cmdq'), NEW j \in 1 .. Len(cmdq'),
                        cmdq'[i].kind = "route", cmdq'[j].kind = "route",
                        cmdq'[i].req = cmdq'[j].req
                 PROVE  i = j
      OBVIOUS
    <2>1. /\ i + 1 \in 1 .. Len(cmdq) /\ cmdq[i + 1] = cmdq'[i]
          /\ j + 1 \in 1 .. Len(cmdq) /\ cmdq[j + 1] = cmdq'[j]
      BY <1>3
    <2>2. i + 1 = j + 1
      BY <2>1, <1>6
    <2> QED BY <2>2, <1>2
  <1>10. \A i, j \in 1 .. Len(routeQueue') : routeQueue'[i] = routeQueue'[j] => i = j
    BY <1>4, <1>5, <1>6, <1>7
  <1>11. \A i \in 1 .. Len(cmdq'), j \in 1 .. Len(routeQueue') :
           cmdq'[i].kind = "route" => cmdq'[i].req # routeQueue'[j]
    <2> SUFFICES ASSUME NEW i \in 1 .. Len(cmdq'), NEW j \in 1 .. Len(routeQueue'),
                        cmdq'[i].kind = "route"
                 PROVE  cmdq'[i].req # routeQueue'[j]
      OBVIOUS
    <2>1. i + 1 \in 1 .. Len(cmdq) /\ cmdq[i + 1] = cmdq'[i]
      BY <1>3
    <2>2. j \in 1 .. N => cmdq[i + 1].req # routeQueue[j]
      BY <2>1, <1>6
    <2> QED BY <2>1, <2>2, <1>5, <1>8
  <1>12. \A i \in 1 .. Len(cmdq') : cmdq'[i].kind = "route" =>
           reply[cmdq'[i].req] = "pending" /\ Unstarted(cmdq'[i].req)
    <2> SUFFICES ASSUME NEW i \in 1 .. Len(cmdq'), cmdq'[i].kind = "route"
                 PROVE  reply[cmdq'[i].req] = "pending" /\ Unstarted(cmdq'[i].req)
      OBVIOUS
    <2>1. i + 1 \in 1 .. Len(cmdq) /\ cmdq[i + 1] = cmdq'[i]
      BY <1>3
    <2>2. reply[cmdq[i + 1].req] = "pending" /\ Unstarted(cmdq[i + 1].req)
      BY <2>1, <1>6
    <2> QED BY <2>1, <2>2 DEF Unstarted
  <1>13. \A i \in 1 .. Len(routeQueue') :
           reply[routeQueue'[i]] = "pending" /\ Unstarted(routeQueue'[i])
    BY <1>0, <1>5, <1>6 DEF Unstarted
  <1> QED BY <1>6, <1>9, <1>10, <1>11, <1>12, <1>13 DEF QueuesShape, Unstarted

(* SessionCmd::Route keeps the invariant. *)
LEMMA OnRouteInv ==
  ASSUME IInv, OnRoute
  PROVE  IInv'
  <1>0. /\ TypeOK /\ SlotShape /\ QueuesShape /\ TrailShape /\ PipelineShape
        /\ InboxShape
    BY DEF IInv
  <1> DEFINE h == Head(cmdq).req
  <1>1. /\ pc = "select" /\ cmdq # <<>> /\ cmdq' = Tail(cmdq) /\ NextCmd("route")
        /\ UNCHANGED <<endRows, cutShort, keeps, slot, active, epoch, core,
                       flight, consumed, watchdog, pump, link, inbox, sent,
                       approvedBy, resultBy, starting, toSweep, rivals>>
    BY DEF OnRoute, NextCmd, ends, others
  <1>2. PICK r : r = h
    OBVIOUS
  <1>3. /\ r \in Requests /\ reply[r] = "pending" /\ Unstarted(r)
        /\ ~InCmds(r)' /\ ~InQueue(r)
    BY <1>0, <1>1, <1>2, HeadOfCmds
  <1>4. cmdq' \in Seq(Cmds) /\ Len(cmdq') <= CmdCap
    BY <1>0, <1>1, CmdsPopped
  <1>5. InboxShape' /\ cur = NoReq
    BY <1>0, <1>1, InboxFrame DEF SlotShape, Ending
  <1>6. ASSUME NEW a \in {"no_session", "busy"},
               reply' = [reply EXCEPT ![r] = a],
               UNCHANGED <<trail, unlogged, contested, thisLife, pc, cur, keeps,
                           routeQueue>>
        PROVE  IInv'
    <2>1. /\ reply' \in [Requests -> Answers \cup {"none", "pending"}]
          /\ \A q \in Requests : reply'[q] = IF q = r THEN a ELSE reply[q]
      BY <1>0, <1>6, Updated DEF TypeOK, Answers
    <2>2. TypeOK'
      BY <1>0, <1>1, <1>4, <1>6, <2>1 DEF TypeOK
    <2>3. SlotShape'
      BY <1>0, <1>1, <1>6 DEF SlotShape, Live, Serving, Running, Ending
    <2>4. ~Queued(r)'
      BY <1>3, <1>6 DEF Queued, InQueue
    <2>5. QueuesShape'
      BY <1>0, <1>1, <1>6, <2>1, <2>4, QueuesFrame
    <2>6. TrailShape' /\ PipelineShape'
      BY <1>0, <1>1, <1>6, TrailFrame, PipelineFrame
    <2> QED BY <1>5, <2>2, <2>3, <2>5, <2>6 DEF IInv
  <1>7. ASSUME slot, flight # NoFlight, ~QueueFull,
               routeQueue' = Append(routeQueue, r),
               UNCHANGED <<trail, unlogged, contested, thisLife, pc, cur, keeps,
                           reply>>
        PROVE  IInv'
    <2>1. routeQueue' \in Seq(Requests) /\ Len(routeQueue') <= RouteQueueCap
      BY <1>0, <1>3, <1>7, SeqAppend, BoundsAssumption DEF TypeOK, QueueFull
    <2>2. TypeOK'
      BY <1>0, <1>1, <1>4, <1>7, <2>1 DEF TypeOK
    <2>3. SlotShape'
      BY <1>0, <1>1, <1>7 DEF SlotShape, Live, Serving, Running, Ending
    <2>4. QueuesShape'
      BY <1>0, <1>1, <1>2, <1>7, QueueMoves
    <2>5. TrailShape' /\ PipelineShape'
      BY <1>0, <1>1, <1>7, TrailFrame, PipelineFrame
    <2> QED BY <1>5, <2>2, <2>3, <2>4, <2>5 DEF IInv
  <1>8. ASSUME slot, flight = NoFlight, StartRoute(r), routeQueue' = routeQueue
        PROVE  IInv'
    <2>1. ~Queued(r)' /\ pc \notin Midway
      BY <1>1, <1>3, <1>8 DEF Queued, InQueue, Midway
    <2>2. /\ trail' \in [Requests -> Seq(EventTypes)]
          /\ unlogged' \subseteq Requests /\ contested' \subseteq Requests
          /\ reply' \in [Requests -> Answers \cup {"none", "pending"}]
          /\ thisLife' \subseteq Requests /\ cur' \in Requests \cup {NoReq}
          /\ \/ pc' = "select" /\ cur' = cur
             \/ pc' = "route_send" /\ cur' = r
          /\ QueuesShape' /\ TrailShape' /\ PipelineShape'
      BY <1>0, <1>1, <1>3, <1>5, <1>8, <2>1, StartRouteKeeps
    <2>3. TypeOK'
      BY <1>0, <1>1, <1>4, <1>8, <2>2 DEF TypeOK, Running, Ending
    <2>4. r # NoReq
      BY <1>3, RequestsAssumption
    <2>5. SlotShape'
      BY <1>0, <1>1, <1>5, <1>8, <2>2, <2>4 DEF SlotShape, Live, Serving, Running, Ending
    <2> QED BY <1>5, <2>2, <2>3, <2>5 DEF IInv
  <1>9. \/ /\ reply' = [reply EXCEPT ![r] = "no_session"]
           /\ UNCHANGED <<trail, unlogged, contested, thisLife, pc, cur, keeps,
                          routeQueue>>
        \/ /\ reply' = [reply EXCEPT ![r] = "busy"]
           /\ UNCHANGED <<trail, unlogged, contested, thisLife, pc, cur, keeps,
                          routeQueue>>
        \/ /\ slot /\ flight # NoFlight /\ ~QueueFull
           /\ routeQueue' = Append(routeQueue, r)
           /\ UNCHANGED <<trail, unlogged, contested, thisLife, pc, cur, keeps,
                          reply>>
        \/ /\ slot /\ flight = NoFlight
           /\ StartRoute(r)
           /\ UNCHANGED routeQueue
    BY <1>2 DEF OnRoute, record
  <1> QED BY <1>6, <1>7, <1>8, <1>9

(* drain_route_queue keeps the invariant. *)
LEMMA DrainInv ==
  ASSUME IInv, Drain
  PROVE  IInv'
  <1>0. /\ TypeOK /\ SlotShape /\ QueuesShape /\ TrailShape /\ PipelineShape
        /\ InboxShape
    BY DEF IInv
  <1>1. /\ pc = "drain"
        /\ UNCHANGED <<endRows, cutShort, keeps, slot, active, epoch, core,
                       flight, consumed, cmdq, watchdog, pump, link, inbox, sent,
                       approvedBy, resultBy, starting, toSweep, rivals>>
    BY DEF Drain, ends, others
  <1>2. InboxShape' /\ cur = NoReq
    BY <1>0, <1>1, InboxFrame DEF SlotShape, Ending
  <1>3. CASE routeQueue = <<>>
    <2>1. pc' = "select" /\ UNCHANGED <<trail, unlogged, contested, thisLife, cur, reply, routeQueue>>
      BY <1>3 DEF Drain, record
    <2>2. TypeOK'
      BY <1>0, <1>1, <2>1 DEF TypeOK, Running, Ending
    <2>3. SlotShape'
      BY <1>0, <1>1, <2>1 DEF SlotShape, Live, Serving, Running, Ending
    <2>4. QueuesShape' /\ TrailShape' /\ PipelineShape'
      <3>1. pc' \notin Midway
        BY <2>1 DEF Midway
      <3> QED BY <1>0, <1>1, <2>1, <3>1, QueuesFrame, TrailFrame, PipelineFrame
    <2> QED BY <1>2, <2>2, <2>3, <2>4 DEF IInv
  <1>4. CASE routeQueue # <<>>
    <2> DEFINE h == Head(routeQueue)
    <2>1. StartRoute(h) /\ routeQueue' = Tail(routeQueue)
      BY <1>4 DEF Drain
    <2>2. PICK r : r = h
      OBVIOUS
    <2>3. /\ r \in Requests /\ reply[r] = "pending" /\ Unstarted(r) /\ ~Queued(r)'
          /\ routeQueue' \in Seq(Requests) /\ Len(routeQueue') <= RouteQueueCap
      BY <1>0, <1>1, <1>4, <2>1, <2>2, HeadOfQueue
    <2>4. StartRoute(r) /\ pc \notin Midway
      BY <1>1, <2>1, <2>2 DEF Midway
    <2>5. /\ trail' \in [Requests -> Seq(EventTypes)]
          /\ unlogged' \subseteq Requests /\ contested' \subseteq Requests
          /\ reply' \in [Requests -> Answers \cup {"none", "pending"}]
          /\ thisLife' \subseteq Requests /\ cur' \in Requests \cup {NoReq}
          /\ \/ pc' = "select" /\ cur' = cur
             \/ pc' = "route_send" /\ cur' = r
          /\ QueuesShape' /\ TrailShape' /\ PipelineShape'
      BY <1>0, <1>1, <1>2, <1>4, <2>1, <2>3, <2>4, StartRouteKeeps
    <2>6. TypeOK'
      BY <1>0, <1>1, <2>3, <2>5 DEF TypeOK, Running, Ending
    <2>7. r # NoReq
      BY <2>3, RequestsAssumption
    <2>8. SlotShape'
      BY <1>0, <1>1, <1>2, <2>5, <2>7 DEF SlotShape, Live, Serving, Running, Ending
    <2> QED BY <1>2, <2>5, <2>6, <2>8 DEF IInv
  <1> QED BY <1>3, <1>4

-----------------------------------------------------------------------------
(* One row, one message *)

(* send_over_session on a call whose row is written keeps them in shape.   *)
LEMMA SendKeeps ==
  ASSUME TypeOK, TrailShape, epoch \in Epochs,
         UNCHANGED <<trail, unlogged, toSweep, epoch>>,
         NEW r \in Requests,
         NEW kind \in {"approval_request", "list_services_request",
                       "execute_request"},
         Send(r, kind), HasRow(trail[r], FirstRow(r)) \/ r \in unlogged,
         kind = "execute_request" =>
           ~Refused(r) /\ (HasRow(trail[r], "execute_sent") \/ r \in unlogged)
  PROVE  /\ sent' \in [Requests -> Seq(Sends)]
         /\ \A q \in Requests : q # r => sent'[q] = sent[q]
         /\ sent'[r] # <<>>
         /\ \A k, e : SentIn(r, k, e) => SentIn(r, k, e)'
         /\ SentIn(r, kind, epoch)'
         /\ kind # "execute_request" /\ NoExecute(r) => NoExecute(r)'
         /\ TrailShape'
  <1> DEFINE m == [kind |-> kind, during |-> epoch]
             N == Len(sent[r])
  <1>1. /\ sent \in [Requests -> Seq(Sends)] /\ sent[r] \in Seq(Sends) /\ m \in Sends
    BY DEF TypeOK, Sends
  <1>2. /\ Append(sent[r], m) \in Seq(Sends) /\ N \in Nat
        /\ Len(Append(sent[r], m)) = N + 1 /\ Append(sent[r], m)[N + 1] = m
        /\ \A i \in 1 .. N : Append(sent[r], m)[i] = sent[r][i]
        /\ Append(sent[r], m) # <<>>
    BY <1>1, SeqAppend, Rows
  <1>3. sent' = [sent EXCEPT ![r] = Append(sent[r], m)]
    BY DEF Send
  <1>4. /\ sent' \in [Requests -> Seq(Sends)]
        /\ \A q \in Requests : q # r => sent'[q] = sent[q]
        /\ sent'[r] = Append(sent[r], m)
    BY <1>1, <1>2, <1>3, Updated
  <1>5. /\ Len(sent'[r]) = N + 1 /\ sent'[r][N + 1] = m
        /\ \A i \in 1 .. N : i \in 1 .. Len(sent'[r]) /\ sent'[r][i] = sent[r][i]
        /\ N + 1 \in 1 .. Len(sent'[r])
    BY <1>2, <1>4
  <1>6. \A k, e : SentIn(r, k, e) => SentIn(r, k, e)'
    BY <1>5 DEF SentIn
  <1>7. SentIn(r, kind, epoch)'
    BY <1>5 DEF SentIn
  <1>8. kind # "execute_request" /\ NoExecute(r) => NoExecute(r)'
    <2> SUFFICES ASSUME kind # "execute_request", NoExecute(r),
                        NEW i \in 1 .. Len(sent'[r])
                 PROVE  sent'[r][i].kind # "execute_request"
      BY DEF NoExecute
    <2>1. i \in 1 .. N \/ i = N + 1
      BY <1>2, <1>5
    <2>2. CASE i \in 1 .. N
      BY <1>5, <2>2 DEF NoExecute
    <2>3. CASE i = N + 1
      BY <1>5, <2>3
    <2> QED BY <2>1, <2>2, <2>3
  <1>9. TrailShape'
    <2> SUFFICES ASSUME NEW q \in Requests
                 PROVE
          /\ sent'[q] # <<>> => HasRow(trail[q], FirstRow(q)) \/ q \in unlogged
          /\ ~NoExecute(q)' => HasRow(trail[q], "execute_sent") \/ q \in unlogged
          /\ Refused(q) => NoExecute(q)'
          /\ q \in toSweep => trail[q] # <<>>
      BY DEF TrailShape, Refused
    <2>1. /\ sent[q] # <<>> => HasRow(trail[q], FirstRow(q)) \/ q \in unlogged
          /\ ~NoExecute(q) => HasRow(trail[q], "execute_sent") \/ q \in unlogged
          /\ Refused(q) => NoExecute(q)
          /\ q \in toSweep => trail[q] # <<>>
      BY DEF TrailShape
    <2>2. CASE q # r
      <3>1. NoExecute(q)' <=> NoExecute(q)
        BY <1>4, <2>2 DEF NoExecute
      <3> QED BY <1>4, <2>1, <2>2, <3>1
    <2>3. CASE q = r /\ kind # "execute_request"
      BY <1>8, <2>1, <2>3
    <2>4. CASE q = r /\ kind = "execute_request"
      BY <2>1, <2>4
    <2> QED BY <2>2, <2>3, <2>4
  <1> QED BY <1>2, <1>4, <1>6, <1>7, <1>8, <1>9

(* on_activity never wakes or stops a session. *)
LEMMA OnActivityKeeps ==
  ASSUME TypeOK, SlotShape, core' = CoreOnActivity, watchdog' = WatchdogOnActivity
  PROVE  /\ core' \in {"active", "idle_warning", "ended"}
         /\ watchdog' \in {"off", "armed", "warned", "fired"}
         /\ Live' <=> Live
         /\ watchdog' \in {"armed", "warned"} => Live
  BY DEF TypeOK, SlotShape, CoreOnActivity, WatchdogOnActivity, Live

(* The send of start_route and the installed flight keep the invariant. *)
LEMMA RouteSentInv ==
  ASSUME IInv, RouteSent
  PROVE  IInv'
  <1>0. /\ TypeOK /\ SlotShape /\ QueuesShape /\ TrailShape /\ PipelineShape
        /\ InboxShape
    BY DEF IInv
  <1>1. /\ pc = "route_send" /\ Live /\ Send(cur, FirstRow(cur))
        /\ flight' = [stage |-> RouteStage(cur), req |-> cur]
        /\ reply' = Answer({flight.req} \ {NoReq}, "lost")
        /\ core' = CoreOnActivity /\ watchdog' = WatchdogOnActivity
        /\ pc' = "select" /\ cur' = NoReq
        /\ UNCHANGED <<trail, unlogged, contested, endRows, cutShort, keeps, slot,
                       active, epoch, routeQueue, consumed, cmdq, pump, link,
                       inbox, approvedBy, resultBy, thisLife, starting, toSweep,
                       rivals>>
    BY DEF RouteSent, durable, record, ends, others
  <1>2. cur \in Requests /\ cur \in thisLife
    BY <1>0, <1>1, CurIsStarted DEF Midway
  <1>3. /\ sent[cur] = <<>> /\ cur \notin consumed /\ ~Refused(cur)
        /\ HasRow(trail[cur], FirstRow(cur)) \/ cur \in unlogged
    BY <1>0, <1>1 DEF PipelineShape
  <1>4. epoch \in Epochs /\ slot
    BY <1>0, <1>1 DEF SlotShape
  <1>6. /\ FirstRow(cur) \in {"approval_request", "list_services_request",
                              "execute_request"}
        /\ FirstRow(cur) # "execute_request"
    BY DEF FirstRow
  <1>7. PICK c : c = cur
    OBVIOUS
  <1>8. /\ sent' \in [Requests -> Seq(Sends)]
        /\ \A q \in Requests : q # c => sent'[q] = sent[q]
        /\ sent'[c] # <<>>
        /\ SentIn(c, FirstRow(c), epoch)'
        /\ NoExecute(c) => NoExecute(c)'
        /\ TrailShape'
    BY <1>0, <1>1, <1>2, <1>3, <1>4, <1>6, <1>7, SendKeeps
  <1>9. /\ reply' \in [Requests -> Answers \cup {"none", "pending"}]
        /\ \A q \in Requests : q # flight.req => reply'[q] = reply[q]
        /\ \A q \in Requests : q = flight.req => reply'[q] = "lost"
    <2>1. reply' = [q \in Requests |->
                      IF q \in {flight.req} \ {NoReq} THEN "lost" ELSE reply[q]]
      BY <1>1 DEF Answer
    <2>2. reply \in [Requests -> Answers \cup {"none", "pending"}] /\ "lost" \in Answers
      BY <1>0 DEF TypeOK, Answers
    <2>3. \A q \in Requests : q # NoReq
      BY RequestsAssumption
    <2> QED BY <2>1, <2>2, <2>3
  <1>10. /\ core' \in {"active", "idle_warning", "ended"}
         /\ watchdog' \in {"off", "armed", "warned", "fired"}
         /\ Live'
    BY <1>0, <1>1, OnActivityKeeps
  <1>11. flight' \in Flights /\ flight' # NoFlight
    BY <1>1, <1>2, RequestsAssumption DEF Flights, NoFlight, RouteStage, Stages
  <1>12. TypeOK'
    BY <1>0, <1>1, <1>8, <1>9, <1>10, <1>11 DEF TypeOK, Running, Ending
  <1>13. SlotShape'
    BY <1>0, <1>1, <1>4, <1>10 DEF SlotShape, Serving, Running, Ending
  <1>14. QueuesShape'
    <2> DEFINE X == {cur} \cup ({flight.req} \ {NoReq})
    <2>1. flight.req # NoReq => flight # NoFlight
      BY DEF NoFlight
    <2>2. X \in SUBSET Requests /\ \A q \in X : q \in thisLife
      BY <1>0, <1>2, <2>1, FlightIsStarted
    <2>3. \A q \in X : /\ q \in thisLife \/ trail[q] # <<>>
                       /\ reply'[q] # "none" \/ reply'[q] = reply[q]
      BY <1>9, <2>2
    <2>4. \A q \in Requests \ X :
            reply'[q] = reply[q] /\ trail'[q] = trail[q] /\ sent'[q] = sent[q]
      <3>1. \A q \in Requests \ X : q # cur /\ q # flight.req
        BY RequestsAssumption
      <3> QED BY <1>1, <1>7, <1>8, <1>9, <3>1
    <2> HIDE DEF X
    <2> QED BY <1>0, <1>1, <2>2, <2>3, <2>4, QueuesTouched
  <1>15. PipelineShape'
    <2>1. flight'.req = c /\ flight'.stage = RouteStage(c)
      BY <1>1, <1>7
    <2>2. NoExecute(c)
      BY <1>3, <1>7 DEF NoExecute
    <2>3. c \in AuthRequests => Asked(c)'
      BY <1>8 DEF Asked, FirstRow
    <2>4. /\ NoExecute(flight.req)' /\ ~Refused(flight.req)'
          /\ c \in AuthRequests => Asked(flight.req)'
      BY <1>1, <1>3, <1>7, <1>8, <2>1, <2>2, <2>3
         DEF NoExecute, Refused, Asked, SentIn
    <2>5. \A q \in consumed' : sent'[q] # <<>>
      BY <1>0, <1>1, <1>8 DEF PipelineShape, TypeOK
    <2>6. /\ RouteStage(c) = "approval" => c \in AuthRequests
          /\ RouteStage(c) # "execute"
      BY DEF RouteStage
    <2> QED BY <1>1, <1>2, <1>3, <1>7, <2>1, <2>4, <2>5, <2>6 DEF PipelineShape
  <1>16. InboxShape'
    BY <1>0, <1>1, InboxFrame
  <1> QED BY <1>8, <1>12, <1>13, <1>14, <1>15, <1>16 DEF IInv

(* A failed send of start_route keeps the invariant. *)
LEMMA RouteSendFailsInv ==
  ASSUME IInv, RouteSendFails
  PROVE  IInv'
  <1>0. /\ TypeOK /\ SlotShape /\ QueuesShape /\ TrailShape /\ PipelineShape
        /\ InboxShape
    BY DEF IInv
  <1>1. /\ pc = "route_send"
        /\ sent' = sent \/ (Live /\ Send(cur, FirstRow(cur)))
        /\ Teardown(TRUE)
        /\ UNCHANGED <<trail, unlogged, contested, endRows, cutShort, cur, cmdq,
                       approvedBy, resultBy, thisLife, starting, toSweep, rivals>>
    BY DEF RouteSendFails, durable, record, ends, others
  <1>2. cur \in Requests /\ slot
    BY <1>0, <1>1, CurIsStarted DEF Midway, SlotShape
  <1>3. /\ sent[cur] = <<>>
        /\ HasRow(trail[cur], FirstRow(cur)) \/ cur \in unlogged
    BY <1>0, <1>1 DEF PipelineShape
  <1>4. epoch' = epoch
    BY <1>1 DEF Teardown
  <1>5. /\ FirstRow(cur) \in {"approval_request", "list_services_request",
                              "execute_request"}
        /\ FirstRow(cur) # "execute_request"
    BY DEF FirstRow
  <1>6. /\ sent' \in [Requests -> Seq(Sends)]
        /\ \A q \in Requests : q # cur => sent'[q] = sent[q]
        /\ TrailShape'
    <2>1. CASE sent' = sent
      BY <1>0, <1>1, <2>1, TrailFrame DEF TypeOK
    <2>2. CASE Live /\ Send(cur, FirstRow(cur))
      <3>1. epoch \in Epochs
        BY <1>0, <2>2 DEF SlotShape
      <3>2. PICK c : c = cur
        OBVIOUS
      <3>3. /\ sent' \in [Requests -> Seq(Sends)]
            /\ \A q \in Requests : q # c => sent'[q] = sent[q]
            /\ TrailShape'
        BY <1>0, <1>1, <1>2, <1>3, <1>4, <1>5, <2>2, <3>1, <3>2, SendKeeps
      <3> QED BY <3>2, <3>3
    <2> QED BY <1>1, <2>1, <2>2
  <1>7. \A q \in Requests : sent[q] # <<>> => sent'[q] # <<>>
    BY <1>3, <1>6
  <1>8. flight # NoFlight /\ flight.stage # "services" => flight.req # cur
    <2>1. flight # NoFlight /\ flight.stage # "services" => Asked(flight.req)
      BY <1>0, FlightIsStarted DEF PipelineShape, Stages, Approved
    <2>2. Asked(flight.req) => sent[flight.req] # <<>>
      BY DEF Asked, SentIn
    <2> QED BY <1>3, <2>1, <2>2
  <1>9. pc # "waiters"
    BY <1>1
  <1> QED BY <1>1, <1>2, <1>6, <1>7, <1>8, <1>9, TeardownInv DEF IInv

-----------------------------------------------------------------------------
(* Inbound messages *)

(* A session ended from the waiting owner keeps the invariant. *)
LEMMA EndedWhileWaiting ==
  ASSUME IInv, pc = "select", slot, Teardown(FALSE),
         UNCHANGED <<durable, cur, cmdq, history>>
  PROVE  IInv'
  <1>0. /\ TypeOK /\ SlotShape /\ QueuesShape /\ TrailShape /\ PipelineShape
        /\ InboxShape
    BY DEF IInv
  <1>1. /\ cur = NoReq /\ sent' \in [Requests -> Seq(Sends)] /\ pc # "waiters"
        /\ UNCHANGED <<trail, unlogged, contested, endRows, cutShort, sent,
                       approvedBy, resultBy, thisLife, starting, toSweep, rivals>>
    BY <1>0 DEF SlotShape, TypeOK, durable, record, ends, history, others, Ending
  <1>2. flight # NoFlight => flight.req # cur
    BY <1>0, <1>1, FlightIsStarted, RequestsAssumption
  <1> QED BY <1>0, <1>1, <1>2, TeardownInv, TrailFrame DEF IInv

(* A transport error keeps the invariant. *)
LEMMA OnLinkErrorInv ==
  ASSUME IInv, OnLinkError
  PROVE  IInv'
  BY EndedWhileWaiting DEF OnLinkError

(* SessionEnd and garbage keep the invariant. *)
LEMMA OnTerminalMessageInv ==
  ASSUME IInv, OnTerminalMessage
  PROVE  IInv'
  <1>1. pc = "select" /\ slot
    BY DEF OnTerminalMessage, NextMsg
  <1> QED BY <1>1, EndedWhileWaiting DEF OnTerminalMessage

(* Ping, answered or not, keeps the invariant. *)
LEMMA OnPingInv ==
  ASSUME IInv, OnPing
  PROVE  IInv'
  <1>0. /\ TypeOK /\ SlotShape /\ QueuesShape /\ TrailShape /\ PipelineShape
        /\ InboxShape
    BY DEF IInv
  <1>1. /\ pc = "select" /\ slot /\ inbox # <<>>
        /\ UNCHANGED <<durable, cur, cmdq, history>>
    BY DEF OnPing, NextMsg
  <1>2. CASE link
    <2>1. /\ core' = CoreOnActivity /\ watchdog' = WatchdogOnActivity
          /\ inbox' = Tail(inbox)
          /\ UNCHANGED <<pc, keeps, slot, active, epoch, flight, routeQueue,
                         consumed, pump, link, reply>>
      BY <1>2 DEF OnPing
    <2>2. UNCHANGED <<trail, unlogged, contested, endRows, cutShort, cur, cmdq,
                      sent, approvedBy, resultBy, thisLife, starting, toSweep,
                      rivals>>
      BY <1>1 DEF durable, record, ends, history, others
    <2>3. /\ core' \in {"active", "idle_warning", "ended"}
          /\ watchdog' \in {"off", "armed", "warned", "fired"}
          /\ Live' <=> Live
          /\ watchdog' \in {"armed", "warned"} => Live
      BY <1>0, <2>1, OnActivityKeeps
    <2>4. inbox' \in Seq(PhoneMsgs)
      BY <1>0, <1>1, <2>1, SeqTail DEF TypeOK
    <2>5. TypeOK'
      BY <1>0, <2>1, <2>2, <2>3, <2>4 DEF TypeOK
    <2>6. SlotShape'
      BY <1>0, <1>1, <2>1, <2>2, <2>3 DEF SlotShape, Serving, Running, Ending
    <2>7. QueuesShape' /\ TrailShape' /\ PipelineShape' /\ InboxShape'
      BY <1>0, <1>1, <2>1, <2>2, QueuesFrame, TrailFrame, PipelineFrame, InboxFrame
    <2> QED BY <2>5, <2>6, <2>7 DEF IInv
  <1>3. CASE ~link
    <2>1. Teardown(FALSE)
      BY <1>3 DEF OnPing
    <2> QED BY <1>1, <2>1, EndedWhileWaiting
  <1> QED BY <1>0, <1>2, <1>3 DEF TypeOK

(* Traffic nobody waits for keeps the invariant. *)
LEMMA OnUnsolicitedInv ==
  ASSUME IInv, OnUnsolicited
  PROVE  IInv'
  <1>0. /\ TypeOK /\ SlotShape /\ QueuesShape /\ TrailShape /\ PipelineShape
        /\ InboxShape
    BY DEF IInv
  <1>1. inbox # <<>> /\ inbox' = Tail(inbox)
    BY DEF OnUnsolicited, NextMsg
  <1>2. UNCHANGED <<trail, unlogged, contested, endRows, cutShort, pc, cur, keeps,
                    slot, active, epoch, core, flight, routeQueue, consumed, cmdq,
                    watchdog, pump, link, reply, sent, approvedBy, resultBy,
                    thisLife, starting, toSweep, rivals>>
    BY DEF OnUnsolicited, durable, record, ends, session, history, others
  <1>3. inbox' \in Seq(PhoneMsgs)
    BY <1>0, <1>1, SeqTail DEF TypeOK
  <1>4. TypeOK'
    BY <1>0, <1>2, <1>3 DEF TypeOK
  <1>5. SlotShape'
    BY <1>0, <1>2 DEF SlotShape, Live, Serving, Running, Ending
  <1>6. QueuesShape' /\ TrailShape' /\ PipelineShape' /\ InboxShape'
    BY <1>0, <1>1, <1>2, QueuesFrame, TrailFrame, PipelineFrame, InboxFrame
  <1> QED BY <1>4, <1>5, <1>6 DEF IInv

(* Taking the flight out of the slot, its caller answered, with or without *)
(* a terminal row, keeps the invariant.                                    *)
LEMMA FlightFinished ==
  ASSUME IInv, pc = "select", slot, flight # NoFlight,
         NEW a \in Answers, reply' = [reply EXCEPT ![flight.req] = a],
         NEW ev \in TerminalEvents, UNCHANGED record \/ Log(flight.req, ev),
         ev = "approval_denied" => flight.stage = "approval",
         flight' = NoFlight, pc' = "drain",
         inbox' = inbox \/ (inbox # <<>> /\ inbox' = Tail(inbox)),
         UNCHANGED <<ends, cur, keeps, slot, active, epoch, core, routeQueue,
                     consumed, cmdq, watchdog, pump, link, history>>
  PROVE  IInv'
  <1>0. /\ TypeOK /\ SlotShape /\ QueuesShape /\ TrailShape /\ PipelineShape
        /\ InboxShape
    BY DEF IInv
  <1>1. UNCHANGED <<endRows, cutShort, sent, approvedBy, resultBy, thisLife,
                    starting, toSweep, rivals>>
    BY DEF ends, history, others
  <1>2. PICK f : f = flight.req
    OBVIOUS
  <1>3. f \in Requests /\ f \in thisLife
    BY <1>0, <1>2, FlightIsStarted
  <1>4. Live
    BY <1>0 DEF SlotShape
  <1>5. flight.stage = "approval" => NoExecute(f)
    BY <1>0, <1>2 DEF PipelineShape
  <1>6. /\ trail' \in [Requests -> Seq(EventTypes)]
        /\ unlogged' \subseteq Requests /\ contested' \subseteq Requests
        /\ \A q \in Requests : q # f => trail'[q] = trail[q]
        /\ TrailShape'
    <2>1. CASE UNCHANGED record
      <3>1. UNCHANGED <<trail, unlogged, contested>>
        BY <2>1 DEF record
      <3> QED BY <1>0, <1>1, <3>1, TrailFrame DEF TypeOK
    <2>2. CASE Log(flight.req, ev)
      <3>1. ev \in EventTypes
        BY DEF EventTypes
      <3> QED BY <1>0, <1>1, <1>2, <1>3, <1>5, <2>2, <3>1, LogKeeps
    <2> QED BY <2>1, <2>2
  <1>7. /\ reply' \in [Requests -> Answers \cup {"none", "pending"}]
        /\ \A q \in Requests : reply'[q] = IF q = f THEN a ELSE reply[q]
    BY <1>0, <1>2, Updated DEF TypeOK
  <1>8. inbox' \in Seq(PhoneMsgs)
    BY <1>0, SeqTail, ZenonT(60) DEF TypeOK
  <1>9. TypeOK'
    BY <1>0, <1>1, <1>6, <1>7, <1>8 DEF TypeOK, Running, Ending, Flights
  <1>10. SlotShape'
    BY <1>0, <1>4 DEF SlotShape, Live, Serving, Running, Ending
  <1>11. QueuesShape'
    <2>1. \A q \in {f} : /\ q \in thisLife \/ trail[q] # <<>>
                         /\ reply'[q] # "none" \/ reply'[q] = reply[q]
      BY <1>3, <1>7 DEF Answers
    <2>2. \A q \in Requests \ {f} :
            reply'[q] = reply[q] /\ trail'[q] = trail[q] /\ sent'[q] = sent[q]
      BY <1>1, <1>6, <1>7
    <2> QED BY <1>0, <1>1, <1>3, <2>1, <2>2, QueuesTouched
  <1>12. PipelineShape'
    <2>1. cur' = NoReq
      BY <1>0 DEF SlotShape, Ending
    <2> QED BY <1>0, <1>1, <2>1, PipelineEmptied DEF Midway
  <1>13. InboxShape'
    BY <1>0, <1>1, InboxFrame
  <1> QED BY <1>6, <1>9, <1>10, <1>11, <1>12, <1>13 DEF IInv

(* The flight a message answers is there. *)
LEMMA CompletesFlight ==
  ASSUME IInv, NEW stage \in Stages, NEW kind, NextMsg(kind), Completes(stage)
  PROVE  /\ pc = "select" /\ slot /\ inbox # <<>> /\ flight # NoFlight
         /\ flight.req = Head(inbox).req /\ flight.stage = stage
  BY DEF NextMsg, Completes, NoFlight, Stages

(* A refused approval keeps the invariant. *)
LEMMA OnApprovalRefusedInv ==
  ASSUME IInv, OnApprovalRefused
  PROVE  IInv'
  <1>1. /\ pc = "select" /\ slot /\ inbox # <<>> /\ flight # NoFlight
        /\ flight.req = Head(inbox).req /\ flight.stage = "approval"
    BY CompletesFlight DEF OnApprovalRefused, Stages
  <1>2. /\ flight' = NoFlight /\ inbox' = Tail(inbox) /\ pc' = "drain"
        /\ UNCHANGED <<ends, cur, keeps, slot, active, epoch, core, routeQueue,
                       consumed, cmdq, watchdog, pump, link, history>>
    BY DEF OnApprovalRefused
  <1>3. CASE /\ reply' = [reply EXCEPT ![Head(inbox).req] = "sig_invalid"]
             /\ UNCHANGED record
    <2>1. "sig_invalid" \in Answers /\ "request_timeout" \in TerminalEvents
      BY DEF Answers, TerminalEvents
    <2>2. reply' = [reply EXCEPT ![flight.req] = "sig_invalid"]
      BY <1>1, <1>3
    <2> QED BY <1>1, <1>2, <1>3, <2>1, <2>2, FlightFinished
  <1>4. CASE /\ Log(Head(inbox).req, "approval_denied")
             /\ reply' = [reply EXCEPT ![Head(inbox).req] =
                  IF Head(inbox).decision = "denied" THEN "denied" ELSE "timeout"]
    <2>1. PICK a : a = IF Head(inbox).decision = "denied" THEN "denied" ELSE "timeout"
      OBVIOUS
    <2>2. a \in Answers /\ "approval_denied" \in TerminalEvents
      BY <2>1 DEF Answers, TerminalEvents
    <2>3. /\ reply' = [reply EXCEPT ![flight.req] = a]
          /\ Log(flight.req, "approval_denied")
      BY <1>1, <1>4, <2>1
    <2> QED BY <1>1, <1>2, <2>2, <2>3, FlightFinished
  <1> QED BY <1>3, <1>4 DEF OnApprovalRefused

(* finish_execute keeps the invariant. *)
LEMMA OnExecuteResponseInv ==
  ASSUME IInv, OnExecuteResponse
  PROVE  IInv'
  <1>1. /\ pc = "select" /\ slot /\ inbox # <<>> /\ flight # NoFlight
    BY CompletesFlight DEF OnExecuteResponse, Stages
  <1>2. /\ flight' = NoFlight /\ inbox' = Tail(inbox) /\ pc' = "drain"
        /\ UNCHANGED <<ends, cur, keeps, slot, active, epoch, core, routeQueue,
                       consumed, cmdq, watchdog, pump, link, history>>
    BY DEF OnExecuteResponse
  <1>3. PICK a \in {"body", "sig_invalid"} :
          /\ reply' = [reply EXCEPT ![flight.req] = a]
          /\ UNCHANGED record \/ Log(flight.req, "execute_result")
    BY DEF OnExecuteResponse
  <1>4. a \in Answers /\ "execute_result" \in TerminalEvents
    BY DEF Answers, TerminalEvents
  <1> QED BY <1>1, <1>2, <1>3, <1>4, FlightFinished

(* A services answer keeps the invariant. *)
LEMMA OnServicesResponseInv ==
  ASSUME IInv, OnServicesResponse
  PROVE  IInv'
  <1>1. /\ pc = "select" /\ slot /\ inbox # <<>> /\ flight # NoFlight
    BY CompletesFlight DEF OnServicesResponse, Stages
  <1>2. /\ flight' = NoFlight /\ inbox' = Tail(inbox) /\ pc' = "drain"
        /\ UNCHANGED record /\ reply' = [reply EXCEPT ![flight.req] = "services"]
        /\ UNCHANGED <<ends, cur, keeps, slot, active, epoch, core, routeQueue,
                       consumed, cmdq, watchdog, pump, link, history>>
    BY DEF OnServicesResponse, durable
  <1>3. "services" \in Answers /\ "request_timeout" \in TerminalEvents
    BY DEF Answers, TerminalEvents
  <1> QED BY <1>1, <1>2, <1>3, FlightFinished

(* route_timed_out keeps the invariant. *)
LEMMA RouteTimesOutInv ==
  ASSUME IInv, RouteTimesOut
  PROVE  IInv'
  <1>1. /\ pc = "select" /\ slot /\ flight # NoFlight /\ flight' = NoFlight
        /\ pc' = "drain" /\ Log(flight.req, "request_timeout")
        /\ UNCHANGED <<ends, cur, keeps, slot, active, epoch, core, routeQueue,
                       consumed, cmdq, watchdog, pump, link, inbox, history>>
    BY DEF RouteTimesOut, channels
  <1>2. PICK a : a = IF flight.stage = "services" THEN "internal" ELSE "timeout"
    OBVIOUS
  <1>3. a \in Answers /\ "request_timeout" \in TerminalEvents
    BY <1>2 DEF Answers, TerminalEvents
  <1>4. reply' = [reply EXCEPT ![flight.req] = a]
    BY <1>2 DEF RouteTimesOut
  <1> QED BY <1>1, <1>3, <1>4, FlightFinished

(* A verified approval keeps the invariant: its flight becomes the call    *)
(* finish_approval is midway with.                                         *)
LEMMA OnApprovalGrantedInv ==
  ASSUME IInv, OnApprovalGranted
  PROVE  IInv'
  <1>0. /\ TypeOK /\ SlotShape /\ QueuesShape /\ TrailShape /\ PipelineShape
        /\ InboxShape
    BY DEF IInv
  <1>1. /\ pc = "select" /\ slot /\ inbox # <<>> /\ flight # NoFlight
        /\ flight.req = Head(inbox).req /\ flight.stage = "approval"
    BY CompletesFlight DEF OnApprovalGranted, Stages
  <1>2. /\ Head(inbox).kind = "approval_response"
        /\ Head(inbox).sig /\ Head(inbox).decision = "approved"
        /\ Log(flight.req, "approval_granted") /\ cur' = flight.req
        /\ flight' = NoFlight /\ inbox' = Tail(inbox) /\ pc' = "granted"
        /\ UNCHANGED <<endRows, cutShort, keeps, slot, active, epoch, core,
                       routeQueue, consumed, cmdq, watchdog, pump, link, reply,
                       sent, approvedBy, resultBy, thisLife, starting, toSweep,
                       rivals>>
    BY DEF OnApprovalGranted, NextMsg, ends, history, others
  <1>3. PICK f : f = flight.req
    OBVIOUS
  <1>4. f \in Requests /\ f \in thisLife
    BY <1>0, <1>1, <1>3, FlightIsStarted
  <1>5. Live
    BY <1>0, <1>1 DEF SlotShape
  <1>6. Asked(f) /\ f \notin consumed /\ NoExecute(f) /\ ~Refused(f)
    BY <1>0, <1>1, <1>3 DEF PipelineShape
  <1>8. <<f, epoch>> \in approvedBy
    <2>1. Head(inbox) = inbox[1] /\ 1 \in 1 .. Len(inbox)
      BY <1>0, <1>1, SeqTail DEF TypeOK
    <2> QED BY <1>0, <1>1, <1>2, <1>3, <2>1 DEF InboxShape
  <1>9. /\ trail' \in [Requests -> Seq(EventTypes)]
        /\ unlogged' \subseteq Requests /\ contested' \subseteq Requests
        /\ \A q \in Requests : q # f => trail'[q] = trail[q]
        /\ \A q \in Requests : Refused(q)' => Refused(q)
        /\ TrailShape'
    <2>1. "approval_granted" \in EventTypes
      BY DEF EventTypes
    <2> QED BY <1>0, <1>2, <1>3, <1>4, <2>1, LogKeeps
  <1>10. inbox' \in Seq(PhoneMsgs)
    BY <1>0, <1>1, <1>2, SeqTail DEF TypeOK
  <1>11. TypeOK'
    BY <1>0, <1>2, <1>3, <1>4, <1>9, <1>10 DEF TypeOK, Running, Ending, Flights
  <1>12. cur' # NoReq
    BY <1>2, <1>3, <1>4, RequestsAssumption
  <1>13. SlotShape'
    BY <1>0, <1>1, <1>2, <1>5, <1>12 DEF SlotShape, Live, Serving, Running, Ending
  <1>14. QueuesShape'
    <2>1. /\ {f} \in SUBSET Requests
          /\ \A q \in {f} : /\ q \in thisLife \/ trail[q] # <<>>
                            /\ reply'[q] # "none" \/ reply'[q] = reply[q]
      BY <1>2, <1>4
    <2>2. \A q \in Requests \ {f} :
            reply'[q] = reply[q] /\ trail'[q] = trail[q] /\ sent'[q] = sent[q]
      BY <1>2, <1>9
    <2> QED BY <1>0, <1>2, <1>4, <2>1, <2>2, QueuesTouched
  <1>15. PipelineShape'
    <2>1. Approved(f)' /\ NoExecute(f)' /\ ~Refused(f)'
      BY <1>2, <1>4, <1>6, <1>8, <1>9 DEF Approved, Asked, SentIn, NoExecute
    <2>2. /\ Approved(cur)' /\ cur' \notin consumed'
          /\ NoExecute(cur)' /\ ~Refused(cur)' /\ cur' \in thisLife'
      BY <1>2, <1>3, <1>4, <1>6, <2>1
         DEF Approved, Asked, SentIn, NoExecute, Refused
    <2>3. \A q \in consumed' : sent'[q] # <<>>
      BY <1>0, <1>2 DEF PipelineShape
    <2> QED BY <1>2, <2>2, <2>3 DEF PipelineShape
  <1>16. InboxShape'
    BY <1>0, <1>1, <1>2, InboxFrame
  <1> QED BY <1>9, <1>11, <1>13, <1>14, <1>15, <1>16 DEF IInv

(* record_approval and validate_execute always bind here, and keep the     *)
(* invariant.                                                              *)
LEMMA BindExecuteInv ==
  ASSUME IInv, BindExecute
  PROVE  IInv'
  <1>0. /\ TypeOK /\ SlotShape /\ QueuesShape /\ TrailShape /\ PipelineShape
        /\ InboxShape
    BY DEF IInv
  <1>1. /\ pc = "granted" /\ Approved(cur) /\ cur \notin consumed
        /\ NoExecute(cur) /\ ~Refused(cur)
    BY <1>0 DEF BindExecute, PipelineShape
  <1>2. /\ consumed' = consumed \cup {cur} /\ Log(cur, "execute_sent")
        /\ pc' = "execute_send" /\ cur' = cur /\ reply' = reply
        /\ UNCHANGED <<endRows, cutShort, keeps, slot, active, epoch, core,
                       flight, routeQueue, cmdq, watchdog, pump, link, inbox,
                       sent, approvedBy, resultBy, thisLife, starting, toSweep,
                       rivals>>
    BY <1>1 DEF BindExecute, channels, ends, history, others
  <1>3. PICK c : c = cur
    OBVIOUS
  <1>4. c \in Requests /\ c \in thisLife
    BY <1>0, <1>1, <1>3, CurIsStarted DEF Midway
  <1>5. Approved(c) /\ NoExecute(c) /\ ~Refused(c)
    BY <1>1, <1>3
  <1>6. slot /\ Live /\ flight = NoFlight
    BY <1>0, <1>1 DEF SlotShape
  <1>7. /\ trail' \in [Requests -> Seq(EventTypes)]
        /\ unlogged' \subseteq Requests /\ contested' \subseteq Requests
        /\ \A q \in Requests : q # c => trail'[q] = trail[q]
        /\ HasRow(trail'[c], "execute_sent") \/ c \in unlogged'
        /\ \A q \in Requests : Refused(q)' => Refused(q)
        /\ TrailShape'
    <2>1. "execute_sent" \in EventTypes
      BY DEF EventTypes
    <2> QED BY <1>0, <1>2, <1>3, <1>4, <2>1, LogKeeps
  <1>8. TypeOK'
    BY <1>0, <1>2, <1>3, <1>4, <1>7 DEF TypeOK, Running, Ending
  <1>9. SlotShape'
    BY <1>0, <1>1, <1>2, <1>6 DEF SlotShape, Live, Serving, Running, Ending
  <1>10. QueuesShape'
    <2>1. /\ {c} \in SUBSET Requests
          /\ \A q \in {c} : /\ q \in thisLife \/ trail[q] # <<>>
                            /\ reply'[q] # "none" \/ reply'[q] = reply[q]
      BY <1>2, <1>4
    <2>2. \A q \in Requests \ {c} :
            reply'[q] = reply[q] /\ trail'[q] = trail[q] /\ sent'[q] = sent[q]
      BY <1>2, <1>7
    <2> QED BY <1>0, <1>2, <1>4, <2>1, <2>2, QueuesTouched
  <1>11. PipelineShape'
    <2>1. Approved(c)' /\ NoExecute(c)' /\ ~Refused(c)'
      BY <1>2, <1>4, <1>5, <1>7 DEF Approved, Asked, SentIn, NoExecute
    <2>2. /\ Approved(cur)' /\ NoExecute(cur)' /\ ~Refused(cur)'
          /\ HasRow(trail'[cur'], "execute_sent") \/ cur' \in unlogged'
          /\ cur' \in thisLife'
      BY <1>2, <1>3, <1>4, <1>7, <2>1 DEF Approved, Asked, SentIn, NoExecute, Refused
    <2>3. \A q \in consumed' : sent'[q] # <<>>
      <3>1. sent[c] # <<>>
        BY <1>5 DEF Approved, Asked, SentIn
      <3> QED BY <1>0, <1>2, <1>3, <3>1 DEF PipelineShape
    <2>4. flight' = NoFlight
      BY <1>2, <1>6
    <2> QED BY <1>2, <2>2, <2>3, <2>4 DEF PipelineShape
  <1>12. InboxShape'
    BY <1>0, <1>2, InboxFrame
  <1> QED BY <1>7, <1>8, <1>9, <1>10, <1>11, <1>12 DEF IInv

(* The call about to be executed has its first row. *)
LEMMA AskedHasRow ==
  ASSUME TypeOK, TrailShape, NEW c \in Requests, Asked(c)
  PROVE  HasRow(trail[c], FirstRow(c)) \/ c \in unlogged
  <1>1. sent[c] # <<>>
    <2>1. PICK i \in 1 .. Len(sent[c]) :
            sent[c][i] = [kind |-> "approval_request", during |-> epoch]
      BY DEF Asked, SentIn
    <2> QED BY <2>1 DEF TypeOK
  <1> QED BY <1>1 DEF TrailShape

(* The ExecuteRequest that went out keeps the invariant. *)
LEMMA ExecuteSentInv ==
  ASSUME IInv, ExecuteSent
  PROVE  IInv'
  <1>0. /\ TypeOK /\ SlotShape /\ QueuesShape /\ TrailShape /\ PipelineShape
        /\ InboxShape
    BY DEF IInv
  <1>1. /\ pc = "execute_send" /\ Send(cur, "execute_request")
        /\ flight' = [stage |-> "execute", req |-> cur]
        /\ core' = CoreOnActivity /\ watchdog' = WatchdogOnActivity
        /\ pc' = "drain" /\ cur' = NoReq
        /\ UNCHANGED <<trail, unlogged, contested, endRows, cutShort, keeps, slot,
                       active, epoch, routeQueue, consumed, cmdq, pump, link,
                       inbox, reply, approvedBy, resultBy, thisLife, starting,
                       toSweep, rivals>>
    BY DEF ExecuteSent, durable, record, ends, others
  <1>2. PICK c : c = cur
    OBVIOUS
  <1>3. c \in Requests /\ c \in thisLife
    BY <1>0, <1>1, <1>2, CurIsStarted DEF Midway
  <1>4. /\ Approved(c) /\ Asked(c) /\ ~Refused(c)
        /\ HasRow(trail[c], "execute_sent") \/ c \in unlogged
    BY <1>0, <1>1, <1>2 DEF PipelineShape, Approved
  <1>5. slot /\ Live /\ epoch \in Epochs
    BY <1>0, <1>1 DEF SlotShape
  <1>6. /\ sent' \in [Requests -> Seq(Sends)]
        /\ \A q \in Requests : q # c => sent'[q] = sent[q]
        /\ sent'[c] # <<>>
        /\ \A k, e : SentIn(c, k, e) => SentIn(c, k, e)'
        /\ TrailShape'
    BY <1>0, <1>1, <1>2, <1>3, <1>4, <1>5, AskedHasRow, SendKeeps
  <1>7. /\ core' \in {"active", "idle_warning", "ended"}
        /\ watchdog' \in {"off", "armed", "warned", "fired"}
        /\ Live'
    BY <1>0, <1>1, <1>5, OnActivityKeeps
  <1>8. flight' \in Flights /\ flight' # NoFlight
    BY <1>1, <1>2, <1>3, RequestsAssumption DEF Flights, NoFlight, Stages
  <1>9. TypeOK'
    BY <1>0, <1>1, <1>6, <1>7, <1>8 DEF TypeOK, Running, Ending
  <1>10. SlotShape'
    BY <1>0, <1>1, <1>5, <1>7 DEF SlotShape, Serving, Running, Ending
  <1>11. QueuesShape'
    <2>1. /\ {c} \in SUBSET Requests
          /\ \A q \in {c} : /\ q \in thisLife \/ trail[q] # <<>>
                            /\ reply'[q] # "none" \/ reply'[q] = reply[q]
      BY <1>1, <1>3
    <2>2. \A q \in Requests \ {c} :
            reply'[q] = reply[q] /\ trail'[q] = trail[q] /\ sent'[q] = sent[q]
      BY <1>1, <1>6
    <2> QED BY <1>0, <1>1, <1>3, <2>1, <2>2, QueuesTouched
  <1>12. PipelineShape'
    <2>1. flight'.req = c /\ flight'.stage = "execute"
      BY <1>1, <1>2
    <2>2. Approved(flight.req)'
      <3>1. /\ c \in AuthRequests /\ SentIn(c, "approval_request", epoch)
            /\ <<c, epoch>> \in approvedBy
        BY <1>4 DEF Approved, Asked
      <3>2. PICK e : e = epoch
        OBVIOUS
      <3>3. SentIn(c, "approval_request", e)'
        BY <1>6, <3>1, <3>2
      <3>4. SentIn(c, "approval_request", epoch)'
        BY <1>1, <3>2, <3>3
      <3> QED BY <1>1, <2>1, <3>1, <3>4 DEF Approved, Asked
    <2>3. \A q \in consumed' : sent'[q] # <<>>
      BY <1>0, <1>1, <1>6 DEF PipelineShape, TypeOK
    <2>4. cur' = NoReq /\ pc' \notin Midway /\ flight'.req \in thisLife'
      BY <1>1, <1>3, <2>1 DEF Midway
    <2> QED BY <2>1, <2>2, <2>3, <2>4 DEF PipelineShape, Midway
  <1>13. InboxShape'
    BY <1>0, <1>1, InboxFrame
  <1> QED BY <1>6, <1>9, <1>10, <1>11, <1>12, <1>13 DEF IInv

(* A failed ExecuteRequest keeps the invariant. *)
LEMMA ExecuteSendFailsInv ==
  ASSUME IInv, ExecuteSendFails
  PROVE  IInv'
  <1>0. /\ TypeOK /\ SlotShape /\ QueuesShape /\ TrailShape /\ PipelineShape
        /\ InboxShape
    BY DEF IInv
  <1>1. /\ pc = "execute_send"
        /\ sent' = sent \/ Send(cur, "execute_request")
        /\ Teardown(FALSE)
        /\ UNCHANGED <<trail, unlogged, contested, endRows, cutShort, cur, cmdq,
                       approvedBy, resultBy, thisLife, starting, toSweep, rivals>>
    BY DEF ExecuteSendFails, durable, record, ends, others
  <1>2. PICK c : c = cur
    OBVIOUS
  <1>3. c \in Requests
    BY <1>0, <1>1, <1>2, CurIsStarted DEF Midway
  <1>4. /\ Asked(c) /\ ~Refused(c)
        /\ HasRow(trail[c], "execute_sent") \/ c \in unlogged
    BY <1>0, <1>1, <1>2 DEF PipelineShape, Approved
  <1>5. slot /\ Live /\ epoch \in Epochs /\ flight = NoFlight /\ epoch' = epoch
    BY <1>0, <1>1 DEF SlotShape, Teardown
  <1>6. /\ sent' \in [Requests -> Seq(Sends)]
        /\ \A q \in Requests : q # c => sent'[q] = sent[q]
        /\ \A q \in Requests : sent[q] # <<>> => sent'[q] # <<>>
        /\ TrailShape'
    <2>1. CASE sent' = sent
      BY <1>0, <1>1, <2>1, TrailFrame DEF TypeOK
    <2>2. CASE Send(cur, "execute_request")
      <3>1. /\ sent' \in [Requests -> Seq(Sends)]
            /\ \A q \in Requests : q # c => sent'[q] = sent[q]
            /\ sent'[c] # <<>>
            /\ TrailShape'
        BY <1>0, <1>1, <1>2, <1>3, <1>4, <1>5, <2>2, AskedHasRow, SendKeeps
      <3> QED BY <3>1
    <2> QED BY <1>1, <2>1, <2>2
  <1>7. pc # "waiters"
    BY <1>1
  <1> QED BY <1>1, <1>2, <1>5, <1>6, <1>7, TeardownInv DEF IInv

-----------------------------------------------------------------------------
(* The process *)

(* A crash loses everything but the log, and keeps the invariant. *)
LEMMA CrashInv ==
  ASSUME IInv, Crash
  PROVE  IInv'
  <1>0. /\ TypeOK /\ SlotShape /\ QueuesShape /\ TrailShape /\ PipelineShape
        /\ InboxShape
    BY DEF IInv
  <1>1. /\ pc' = "down" /\ cur' = NoReq /\ keeps' = FALSE
        /\ slot' = FALSE /\ active' = FALSE /\ core' = "ended"
        /\ flight' = NoFlight /\ routeQueue' = <<>> /\ consumed' = {}
        /\ cmdq' = <<>> /\ watchdog' = "off" /\ pump' = [e \in Epochs |-> <<>>]
        /\ link' = FALSE /\ inbox' = <<>>
        /\ UNCHANGED <<trail, unlogged, contested, endRows, epoch, sent,
                       approvedBy, resultBy, thisLife, starting, toSweep, rivals>>
    BY DEF Crash, record, history, others
  <1>2. /\ reply' \in [Requests -> Answers \cup {"none", "pending"}]
        /\ \A q \in Requests : reply'[q] = reply[q] \/ reply'[q] = "lost"
    BY <1>0 DEF Crash, Answer, TypeOK, Answers
  <1>3. TypeOK'
    <2>1. /\ routeQueue' \in Seq(Requests) /\ Len(routeQueue') <= RouteQueueCap
          /\ cmdq' \in Seq(Cmds) /\ Len(cmdq') <= CmdCap
          /\ inbox' \in Seq(PhoneMsgs) /\ pump' \in [Epochs -> Seq(TimerEvents)]
      BY <1>1, BoundsAssumption
    <2>2. cutShort' \subseteq Epochs
      BY <1>0 DEF Crash, TypeOK, SlotShape
    <2> QED BY <1>0, <1>1, <1>2, <2>1, <2>2 DEF TypeOK, Flights
  <1>4. SlotShape'
    BY <1>1 DEF SlotShape, Live, Serving, Running, Ending
  <1>5. QueuesShape'
    <2>1. \A r \in Requests : ~Queued(r)'
      BY <1>1 DEF Queued, InCmds, InQueue
    <2>2. \A r \in Requests :
            \/ /\ reply'[r] = reply[r] /\ trail'[r] = trail[r] /\ sent'[r] = sent[r]
               /\ r \in thisLife' => r \in thisLife
            \/ reply'[r] # "none" /\ ~(Queued(r) /\ Queued(r)')
      BY <1>1, <1>2, <2>1
    <2> QED BY <1>0, <1>1, <2>2, QueuesFrame
  <1>6. TrailShape' /\ InboxShape'
    BY <1>0, <1>1, TrailFrame DEF InboxShape
  <1>7. PipelineShape'
    BY <1>0, <1>1, PipelineEmptied DEF Midway
  <1> QED BY <1>3, <1>4, <1>5, <1>6, <1>7 DEF IInv

(* A daemon that starts up keeps the invariant. *)
LEMMA LaunchInv ==
  ASSUME IInv, Launch
  PROVE  IInv'
  <1>0. /\ TypeOK /\ SlotShape /\ QueuesShape /\ TrailShape /\ PipelineShape
        /\ InboxShape
    BY DEF IInv
  <1>1. /\ starting' = TRUE /\ toSweep' = Orphans
        /\ rivals' = IF Serving THEN rivals + 1 ELSE rivals
        /\ contested' = IF Serving THEN contested \cup Orphans ELSE contested
        /\ UNCHANGED <<trail, unlogged, endRows, cutShort, pc, cur, keeps, slot,
                       active, epoch, core, flight, routeQueue, consumed, cmdq,
                       watchdog, pump, link, inbox, reply, sent, approvedBy,
                       resultBy, thisLife>>
    BY DEF Launch, ends, session, channels
  <1>2. Orphans \subseteq Requests /\ \A q \in Orphans : trail[q] # <<>>
    BY DEF Orphans, Orphan
  <1>3. /\ toSweep' \subseteq Requests /\ contested' \subseteq Requests
        /\ rivals' \in Nat
    BY <1>0, <1>1, <1>2 DEF TypeOK
  <1>4. TypeOK'
    BY <1>0, <1>1, <1>3 DEF TypeOK
  <1>5. SlotShape'
    BY <1>0, <1>1 DEF SlotShape, Live, Serving
  <1>6. TrailShape'
    BY <1>0, <1>1, <1>2 DEF TrailShape, NoExecute, Refused
  <1>7. QueuesShape' /\ PipelineShape' /\ InboxShape'
    BY <1>0, <1>1, QueuesFrame, PipelineFrame, InboxFrame
  <1> QED BY <1>4, <1>5, <1>6, <1>7 DEF IInv

(* A start-up that fails keeps the invariant. *)
LEMMA LaunchFailsInv ==
  ASSUME IInv, LaunchFails
  PROVE  IInv'
  <1>0. /\ TypeOK /\ SlotShape /\ QueuesShape /\ TrailShape /\ PipelineShape
        /\ InboxShape
    BY DEF IInv
  <1>1. /\ starting' = FALSE /\ toSweep' = {}
        /\ UNCHANGED <<trail, unlogged, contested, endRows, cutShort, pc, cur,
                       keeps, slot, active, epoch, core, flight, routeQueue,
                       consumed, cmdq, watchdog, pump, link, inbox, reply, sent,
                       approvedBy, resultBy, thisLife, rivals>>
    BY DEF LaunchFails, durable, record, ends, session, channels
  <1>2. TypeOK'
    BY <1>0, <1>1 DEF TypeOK
  <1>3. SlotShape'
    BY <1>0, <1>1 DEF SlotShape, Live, Serving
  <1>4. QueuesShape' /\ TrailShape' /\ PipelineShape' /\ InboxShape'
    BY <1>0, <1>1, QueuesFrame, TrailFrame, PipelineFrame, InboxFrame
  <1> QED BY <1>2, <1>3, <1>4 DEF IInv

(* The sweep's row keeps the invariant. *)
LEMMA SweepOneInv ==
  ASSUME IInv, NEW r \in Requests, SweepOne(r)
  PROVE  IInv'
  <1>0. /\ TypeOK /\ SlotShape /\ QueuesShape /\ TrailShape /\ PipelineShape
        /\ InboxShape
    BY DEF IInv
  <1>1. /\ r \in toSweep /\ toSweep' = toSweep \ {r}
        /\ trail' = [trail EXCEPT ![r] = Append(trail[r], "request_timeout")]
        /\ UNCHANGED <<unlogged, contested, endRows, cutShort, pc, cur, keeps,
                       slot, active, epoch, core, flight, routeQueue, consumed,
                       cmdq, watchdog, pump, link, inbox, reply, sent, approvedBy,
                       resultBy, thisLife, starting, rivals>>
    BY DEF SweepOne, ends, session, channels
  <1>2. trail[r] # <<>>
    BY <1>0, <1>1 DEF TrailShape
  <1>3. /\ trail' \in [Requests -> Seq(EventTypes)]
        /\ \A q \in Requests : q # r => trail'[q] = trail[q]
        /\ \A q \in Requests : \A y : HasRow(trail[q], y) => HasRow(trail'[q], y)
        /\ \A q \in Requests : Refused(q)' => Refused(q)
        /\ \A q \in Requests : trail[q] # <<>> => trail'[q] # <<>>
    <2>1. /\ trail \in [Requests -> Seq(EventTypes)]
          /\ "request_timeout" \in EventTypes
      BY <1>0 DEF TypeOK, EventTypes, TerminalEvents
    <2>2. /\ Append(trail[r], "request_timeout") \in Seq(EventTypes)
          /\ Append(trail[r], "request_timeout") # <<>>
          /\ \A y : HasRow(Append(trail[r], "request_timeout"), y)
                      <=> (HasRow(trail[r], y) \/ y = "request_timeout")
      BY <2>1, Rows
    <2>3. /\ trail' \in [Requests -> Seq(EventTypes)]
          /\ \A q \in Requests : q # r => trail'[q] = trail[q]
          /\ trail'[r] = Append(trail[r], "request_timeout")
      BY <1>1, <2>1, <2>2, Updated
    <2> QED BY <2>2, <2>3 DEF Refused
  <1>4. TypeOK'
    BY <1>0, <1>1, <1>3 DEF TypeOK
  <1>5. SlotShape'
    BY <1>0, <1>1 DEF SlotShape, Live, Serving
  <1>6. QueuesShape'
    <2>1. /\ {r} \in SUBSET Requests
          /\ \A q \in {r} : /\ q \in thisLife \/ trail[q] # <<>>
                            /\ reply'[q] # "none" \/ reply'[q] = reply[q]
      BY <1>1, <1>2
    <2>2. \A q \in Requests \ {r} :
            reply'[q] = reply[q] /\ trail'[q] = trail[q] /\ sent'[q] = sent[q]
      BY <1>1, <1>3
    <2> QED BY <1>0, <1>1, <2>1, <2>2, QueuesTouched
  <1>7. TrailShape'
    <2>1. \A q \in Requests : NoExecute(q)' <=> NoExecute(q)
      BY <1>1 DEF NoExecute
    <2> QED BY <1>0, <1>1, <1>3, <2>1 DEF TrailShape
  <1>8. PipelineShape'
    BY <1>0, <1>1, <1>3, PipelineKept
  <1>9. InboxShape'
    BY <1>0, <1>1, InboxFrame
  <1> QED BY <1>4, <1>5, <1>6, <1>7, <1>8, <1>9 DEF IInv

(* The end of the sweep keeps the invariant. *)
LEMMA SweepDoneInv ==
  ASSUME IInv, SweepDone
  PROVE  IInv'
  <1>0. /\ TypeOK /\ SlotShape /\ QueuesShape /\ TrailShape /\ PipelineShape
        /\ InboxShape
    BY DEF IInv
  <1>1. /\ starting' = FALSE /\ toSweep' = {}
        /\ pc' = IF Serving THEN pc ELSE "select"
        /\ thisLife' = IF Serving THEN thisLife ELSE {}
        /\ UNCHANGED <<trail, unlogged, contested, endRows, cutShort, cur, keeps,
                       slot, active, epoch, core, flight, routeQueue, consumed,
                       cmdq, watchdog, pump, link, inbox, reply, sent, approvedBy,
                       resultBy, rivals>>
    BY DEF SweepDone, TakesOver, durable, record, ends, session, channels
  <1>2. TypeOK'
    BY <1>0, <1>1 DEF TypeOK, Running, Ending
  <1>3. SlotShape'
    BY <1>0, <1>1 DEF SlotShape, Live, Serving, Running, Ending
  <1>4. QueuesShape' /\ TrailShape' /\ InboxShape'
    BY <1>0, <1>1, QueuesFrame, TrailFrame, InboxFrame
  <1>5. PipelineShape'
    <2>1. CASE Serving
      BY <1>0, <1>1, <2>1, PipelineFrame
    <2>2. CASE ~Serving
      <3>1. pc = "down" /\ flight = NoFlight /\ cur = NoReq
        BY <1>0, <2>2 DEF TypeOK, SlotShape, Serving, Ending
      <3> QED BY <1>0, <1>1, <2>2, <3>1, PipelineEmptied DEF Midway
    <2> QED BY <2>1, <2>2
  <1> QED BY <1>2, <1>3, <1>4, <1>5 DEF IInv

-----------------------------------------------------------------------------
(* The invariant holds at the start and every step keeps it. *)

(* The daemon's first start. *)
LEMMA InitInv == Init => IInv
  <1> SUFFICES ASSUME Init PROVE IInv
    OBVIOUS
  <1>1. TypeOK
    <2>1. /\ routeQueue \in Seq(Requests) /\ Len(routeQueue) <= RouteQueueCap
          /\ cmdq \in Seq(Cmds) /\ Len(cmdq) <= CmdCap
          /\ inbox \in Seq(PhoneMsgs) /\ pump \in [Epochs -> Seq(TimerEvents)]
          /\ trail \in [Requests -> Seq(EventTypes)]
          /\ sent \in [Requests -> Seq(Sends)]
      BY BoundsAssumption DEF Init
    <2>2. endRows \in [Epochs -> Nat] /\ epoch \in 0 .. MaxSessions
      BY BoundsAssumption DEF Init
    <2> QED BY <2>1, <2>2 DEF Init, TypeOK, Flights, Running, Ending
  <1>2. SlotShape
    BY DEF Init, SlotShape, Live, Serving, Running, Ending
  <1>3. QueuesShape
    BY DEF Init, QueuesShape, Unstarted
  <1>4. TrailShape
    BY DEF Init, TrailShape, NoExecute, HasRow, Refused
  <1>5. PipelineShape /\ InboxShape
    BY DEF Init, PipelineShape, InboxShape
  <1> QED BY <1>1, <1>2, <1>3, <1>4, <1>5 DEF IInv

(* A stuttering step. *)
LEMMA StutterInv ==
  ASSUME IInv, UNCHANGED vars
  PROVE  IInv'
  <1>1. UNCHANGED <<trail, unlogged, contested, endRows, cutShort, pc, cur, keeps,
                    slot, active, epoch, core, flight, routeQueue, consumed, cmdq,
                    watchdog, pump, link, inbox, reply, sent, approvedBy,
                    resultBy, thisLife, starting, toSweep, rivals>>
    BY DEF vars, durable, record, ends, session, channels, history, others
  <1>2. TypeOK'
    BY <1>1 DEF IInv, TypeOK
  <1>3. SlotShape'
    BY <1>1 DEF IInv, SlotShape, Live, Serving
  <1>4. QueuesShape' /\ TrailShape' /\ PipelineShape' /\ InboxShape'
    BY <1>1, QueuesFrame, TrailFrame, PipelineFrame, InboxFrame DEF IInv
  <1> QED BY <1>2, <1>3, <1>4 DEF IInv

(* Every step of the daemon keeps the invariant. *)
LEMMA NextInv ==
  ASSUME IInv, [Next]_vars
  PROVE  IInv'
  <1>1. CASE Environment
    BY <1>1, SubmitInv, AskSessionInv, WatchdogFiresInv, PumpInv, PhoneSendsInv,
       LinkDropsInv DEF Environment
  <1>2. CASE Commands
    BY <1>2, OnStartInv, OnEndInv, OnTimerInv, OnRouteInv DEF Commands
  <1>3. CASE Inbound
    BY <1>3, OnLinkErrorInv, OnTerminalMessageInv, OnPingInv, OnUnsolicitedInv,
       OnApprovalRefusedInv, OnApprovalGrantedInv, OnExecuteResponseInv,
       OnServicesResponseInv DEF Inbound
  <1>4. CASE Continue
    BY <1>4, DialSucceedsInv, DialFailsInv, DrainInv, RouteSentInv,
       RouteSendFailsInv, BindExecuteInv, ExecuteSentInv, ExecuteSendFailsInv,
       AnswerWaiterInv, LogEndInv, PublishInv, LeaveInv
       DEF Continue
  <1>5. CASE Process
    BY <1>5, CrashInv, LaunchInv, SweepOneInv, LaunchFailsInv, SweepDoneInv DEF Process
  <1> QED
    BY <1>1, <1>2, <1>3, <1>4, <1>5, RouteTimesOutInv, StutterInv DEF Next

(* The inductive invariant holds throughout: where the owner is, what the  *)
(* slot and the queues hold, the rows of each call and what has gone over  *)
(* the radio for it always fit together.                                   *)
THEOREM InductiveInvariant == Spec => []IInv
  <1>1. IInv /\ [Next]_vars => IInv'
    BY NextInv
  <1> QED BY InitInv, <1>1, PTL DEF Spec

(* Type correctness, the bounds of the route queue and of the command      *)
(* channel included.                                                       *)
THEOREM TypeCorrect == Spec => []TypeOK
  <1>1. IInv => TypeOK
    BY DEF IInv
  <1> QED BY InductiveInvariant, <1>1, PTL

(* The refusing arms of finish_approval's binding step are unreachable.    *)
THEOREM BindingNeverFails == Spec => []GrantAlwaysBinds
  <1>1. IInv => GrantAlwaysBinds
    BY DEF IInv, PipelineShape, GrantAlwaysBinds
  <1> QED BY InductiveInvariant, <1>1, PTL

(* The log is written ahead of the radio.                                  *)
THEOREM LogIsAhead == Spec => []WriteAhead
  <1>1. IInv => WriteAhead
    <2> SUFFICES ASSUME IInv, NEW r \in Requests \ unlogged
                 PROVE  /\ sent[r] # <<>> => HasRow(trail[r], FirstRow(r))
                        /\ (\E e \in Epochs : SentIn(r, "execute_request", e)) =>
                             HasRow(trail[r], "execute_sent")
      BY DEF WriteAhead
    <2>1. (\E e \in Epochs : SentIn(r, "execute_request", e)) => ~NoExecute(r)
      BY DEF SentIn, NoExecute
    <2> QED BY <2>1 DEF IInv, TrailShape
  <1> QED BY InductiveInvariant, <1>1, PTL

-----------------------------------------------------------------------------
(* What reaches the phone *)

(* A step sends at most one message: the first message of a call nothing   *)
(* was sent for, or the ExecuteRequest of the call finish_approval bound.  *)
LEMMA OneSend ==
  ASSUME IInv, [Next]_vars
  PROVE  /\ approvedBy \subseteq approvedBy'
         /\ \/ sent' = sent
            \/ /\ pc = "route_send" /\ Send(cur, FirstRow(cur))
            \/ /\ pc = "execute_send" /\ Send(cur, "execute_request")
  <1>1. CASE Environment
    BY <1>1 DEF Environment, Submit, AskSession, WatchdogFires, Pump, PhoneSends,
                LinkDrops, history, others
  <1>2. CASE Commands
    BY <1>2 DEF Commands, OnStart, OnEnd, OnTimer, OnRoute, history, others
  <1>3. CASE Inbound
    BY <1>3 DEF Inbound, OnLinkError, OnTerminalMessage, OnPing, OnUnsolicited,
                OnApprovalRefused, OnApprovalGranted, OnExecuteResponse,
                OnServicesResponse, history, others
  <1>4. CASE \/ DialSucceeds \/ DialFails \/ Drain \/ BindExecute
             \/ AnswerWaiter \/ LogEnd \/ Publish \/ Leave
    BY <1>4 DEF DialSucceeds, DialFails, Drain, BindExecute, AnswerWaiter, LogEnd,
                Publish, Leave, history, others
  <1>5. CASE RouteSent \/ RouteSendFails
    BY <1>5 DEF RouteSent, RouteSendFails, others
  <1>6. CASE ExecuteSent \/ ExecuteSendFails
    BY <1>6 DEF ExecuteSent, ExecuteSendFails, others
  <1>7. CASE Process \/ RouteTimesOut
    BY <1>7 DEF Process, RouteTimesOut, Crash, Launch, SweepOne, LaunchFails,
                SweepDone, TakesOver, history, others
  <1>8. CASE UNCHANGED vars
    BY <1>8 DEF vars, history, others
  <1> QED BY <1>1, <1>2, <1>3, <1>4, <1>5, <1>6, <1>7, <1>8 DEF Next, Continue

(* What one more message changes. *)
LEMMA SentOneMore ==
  ASSUME TypeOK, NEW c \in Requests, NEW kind, Send(c, kind)
  PROVE  /\ \A q \in Requests : q # c => sent'[q] = sent[q]
         /\ Len(sent[c]) \in Nat /\ Len(sent'[c]) = Len(sent[c]) + 1
         /\ sent'[c][Len(sent[c]) + 1] = [kind |-> kind, during |-> epoch]
         /\ \A i \in 1 .. Len(sent[c]) : sent'[c][i] = sent[c][i]
  <1> DEFINE m == [kind |-> kind, during |-> epoch]
  <1>1. sent \in [Requests -> Seq(Sends)] /\ sent[c] \in Seq(Sends)
    BY DEF TypeOK
  <1>2. /\ Len(sent[c]) \in Nat /\ Len(Append(sent[c], m)) = Len(sent[c]) + 1
        /\ Append(sent[c], m)[Len(sent[c]) + 1] = m
        /\ \A i \in 1 .. Len(sent[c]) : Append(sent[c], m)[i] = sent[c][i]
    <2>1. sent[c] \in Seq(Sends \cup {m}) /\ m \in Sends \cup {m}
      BY <1>1
    <2> QED BY <2>1, SeqAppend
  <1>3. sent' = [sent EXCEPT ![c] = Append(sent[c], m)]
    BY DEF Send
  <1>4. sent'[c] = Append(sent[c], m) /\ \A q \in Requests : q # c => sent'[q] = sent[q]
    BY <1>1, <1>3
  <1> QED BY <1>2, <1>4

(* Execution needs an approval of the same session. *)
THEOREM NoExecutionWithoutApproval == Spec => []ExecuteNeedsApproval
  <1>1. Init => ExecuteNeedsApproval
    BY DEF Init, ExecuteNeedsApproval, SentIn
  <1>2. ExecuteNeedsApproval /\ IInv /\ [Next]_vars => ExecuteNeedsApproval'
    <2> SUFFICES ASSUME ExecuteNeedsApproval, IInv, [Next]_vars,
                        NEW r \in Requests, NEW e \in Epochs,
                        SentIn(r, "execute_request", e)'
                 PROVE  <<r, e>> \in approvedBy' /\ SentIn(r, "approval_request", e)'
      BY DEF ExecuteNeedsApproval
    <2>0. TypeOK
      BY DEF IInv
    <2>1. approvedBy \subseteq approvedBy'
      BY OneSend
    <2>2. ASSUME SentIn(r, "execute_request", e),
                 \A k : SentIn(r, k, e) => SentIn(r, k, e)'
          PROVE  <<r, e>> \in approvedBy' /\ SentIn(r, "approval_request", e)'
      BY <2>1, <2>2 DEF ExecuteNeedsApproval
    <2>3. CASE sent' = sent
      <3>1. \A k : SentIn(r, k, e)' <=> SentIn(r, k, e)
        BY <2>3 DEF SentIn
      <3> QED BY <2>2, <3>1
    <2>4. ASSUME NEW kind \in {"approval_request", "list_services_request",
                               "execute_request"},
                 NEW c \in Requests, c = cur, Send(c, kind),
                 kind = "execute_request" => pc = "execute_send"
          PROVE  <<r, e>> \in approvedBy' /\ SentIn(r, "approval_request", e)'
      <3>1. /\ \A q \in Requests : q # c => sent'[q] = sent[q]
            /\ Len(sent[c]) \in Nat /\ Len(sent'[c]) = Len(sent[c]) + 1
            /\ sent'[c][Len(sent[c]) + 1] = [kind |-> kind, during |-> epoch]
            /\ \A i \in 1 .. Len(sent[c]) : sent'[c][i] = sent[c][i]
        BY <2>0, <2>4, SentOneMore
      <3>2. \A k : SentIn(r, k, e) => SentIn(r, k, e)'
        <4>1. CASE r = c
          BY <3>1, <4>1 DEF SentIn
        <4>2. CASE r # c
          BY <3>1, <4>2 DEF SentIn
        <4> QED BY <4>1, <4>2
      <3>3. CASE SentIn(r, "execute_request", e)
        BY <2>2, <3>2, <3>3
      <3>4. CASE ~SentIn(r, "execute_request", e)
        <4>1. PICK i \in 1 .. Len(sent'[r]) :
                sent'[r][i] = [kind |-> "execute_request", during |-> e]
          BY DEF SentIn
        <4>2. r = c
          BY <3>1, <3>4, <4>1 DEF SentIn
        <4>3. i = Len(sent[c]) + 1
          <5>1. i \in 1 .. Len(sent[c]) \/ i = Len(sent[c]) + 1
            BY <3>1, <4>1, <4>2
          <5>2. ASSUME i \in 1 .. Len(sent[c]) PROVE FALSE
            BY <3>1, <3>4, <4>1, <4>2, <5>2 DEF SentIn
          <5> QED BY <5>1, <5>2
        <4>4. kind = "execute_request" /\ epoch = e
          BY <3>1, <4>1, <4>2, <4>3
        <4>5. Approved(cur)
          BY <2>4, <4>4 DEF IInv, PipelineShape
        <4>6. <<r, e>> \in approvedBy /\ SentIn(r, "approval_request", e)
          BY <2>4, <4>2, <4>4, <4>5 DEF Approved, Asked
        <4> QED BY <2>1, <3>2, <4>6
      <3> QED BY <3>3, <3>4
    <2>5. CASE pc = "route_send" /\ Send(cur, FirstRow(cur))
      <3>1. PICK c : c = cur
        OBVIOUS
      <3>2. c \in Requests /\ FirstRow(c) \in {"approval_request", "list_services_request"}
        BY <2>5, <3>1, CurIsStarted DEF IInv, Midway, FirstRow
      <3> QED BY <2>4, <2>5, <3>1, <3>2
    <2>6. CASE pc = "execute_send" /\ Send(cur, "execute_request")
      <3>1. PICK c : c = cur
        OBVIOUS
      <3>2. c \in Requests
        BY <2>6, <3>1, CurIsStarted DEF IInv, Midway
      <3> QED BY <2>4, <2>6, <3>1, <3>2
    <2> QED BY <2>3, <2>5, <2>6, OneSend
  <1> QED BY <1>1, <1>2, InductiveInvariant, PTL DEF Spec

(* A call is executed at most once, across sessions and restarts. *)
THEOREM NoSecondExecution == Spec => []ExecuteAtMostOnce
  <1>1. Init => ExecuteAtMostOnce
    BY DEF Init, ExecuteAtMostOnce
  <1>2. ExecuteAtMostOnce /\ IInv /\ [Next]_vars => ExecuteAtMostOnce'
    <2> SUFFICES ASSUME ExecuteAtMostOnce, IInv, [Next]_vars, NEW r \in Requests,
                        NEW i \in 1 .. Len(sent'[r]), NEW j \in 1 .. Len(sent'[r]),
                        sent'[r][i].kind = "execute_request",
                        sent'[r][j].kind = "execute_request"
                 PROVE  i = j
      BY DEF ExecuteAtMostOnce
    <2>0. TypeOK
      BY DEF IInv
    <2>1. CASE sent'[r] = sent[r]
      BY <2>1 DEF ExecuteAtMostOnce
    <2>2. ASSUME NEW kind, NEW c \in Requests, Send(c, kind),
                 kind = "execute_request" => NoExecute(c)
          PROVE  i = j
      <3>1. /\ \A q \in Requests : q # c => sent'[q] = sent[q]
            /\ Len(sent[c]) \in Nat /\ Len(sent'[c]) = Len(sent[c]) + 1
            /\ sent'[c][Len(sent[c]) + 1] = [kind |-> kind, during |-> epoch]
            /\ \A k \in 1 .. Len(sent[c]) : sent'[c][k] = sent[c][k]
        BY <2>0, <2>2, SentOneMore
      <3>2. CASE r # c
        BY <2>1, <3>1, <3>2
      <3>3. CASE r = c /\ kind = "execute_request"
        <4>1. \A k \in 1 .. Len(sent[c]) : sent'[c][k].kind # "execute_request"
          BY <2>2, <3>1, <3>3 DEF NoExecute
        <4>2. \A k \in 1 .. Len(sent'[c]) :
                k \in 1 .. Len(sent[c]) \/ k = Len(sent[c]) + 1
          BY <3>1
        <4> QED BY <3>3, <4>1, <4>2
      <3>4. CASE r = c /\ kind # "execute_request"
        <4>1. \A k \in 1 .. Len(sent'[c]) :
                k \in 1 .. Len(sent[c]) \/ k = Len(sent[c]) + 1
          BY <3>1
        <4>2. i \in 1 .. Len(sent[c]) /\ j \in 1 .. Len(sent[c])
          BY <3>1, <3>4, <4>1
        <4>3. sent[c][i].kind = "execute_request" /\ sent[c][j].kind = "execute_request"
          BY <3>1, <3>4, <4>2
        <4> QED BY <4>2, <4>3 DEF ExecuteAtMostOnce
      <3> QED BY <3>2, <3>3, <3>4
    <2>3. CASE pc = "route_send" /\ Send(cur, FirstRow(cur))
      <3>1. cur \in Requests /\ FirstRow(cur) # "execute_request"
        BY <2>3, CurIsStarted DEF IInv, Midway, FirstRow
      <3> QED BY <2>2, <2>3, <3>1
    <2>4. CASE pc = "execute_send" /\ Send(cur, "execute_request")
      <3>1. cur \in Requests /\ NoExecute(cur)
        BY <2>4, CurIsStarted DEF IInv, Midway, PipelineShape
      <3> QED BY <2>2, <2>4, <3>1
    <2> QED BY <2>1, <2>3, <2>4, OneSend
  <1> QED BY <1>1, <1>2, InductiveInvariant, PTL DEF Spec

-----------------------------------------------------------------------------
(* What a step may write to the log *)

(* The row a step appends follows what the owner has got to with its call. *)
Follows(r, ev) ==
  \/ trail[r] = <<>> /\ ev = FirstRow(r)
  \/ /\ ev \in {"approval_granted", "approval_denied"}
     /\ r \in AuthRequests /\ Reached(r, "asked")
  \/ ev = "execute_sent" /\ Reached(r, "granted")
  \/ ev = "execute_result" /\ Reached(r, "executing")
  \/ ev = "request_timeout" /\ (Reached(r, "asked") \/ Reached(r, "executing"))

(* Neither the log nor a process that is starting up moves. *)
Quiet ==
  /\ UNCHANGED <<trail, unlogged, contested, thisLife, starting, toSweep, rivals>>
  /\ Serving' <=> Serving

(* The owner writes, or fails to write, one row for a call of this process. *)
Writes(r, ev) ==
  /\ Log(r, ev) /\ Follows(r, ev)
  /\ r \in thisLife' /\ thisLife \subseteq thisLife'
  /\ Serving /\ Serving'
  /\ UNCHANGED <<starting, toSweep, rivals>>

(* The first row of a call, or its malformed params. *)
LEMMA StartRouteWrites ==
  ASSUME TypeOK, NEW r \in Requests, StartRoute(r), Unstarted(r), Serving,
         UNCHANGED <<starting, toSweep, rivals>>
  PROVE  Quiet \/ Writes(r, FirstRow(r))
  BY DEF StartRoute, Unstarted, Quiet, Writes, Follows, record, Serving, Running

(* The rows written for the flight or the call in hand. *)
LEMMA WritesFor ==
  ASSUME NEW r \in Requests, NEW ev, r \in thisLife, Serving, Serving',
         Follows(r, ev), Log(r, ev),
         UNCHANGED <<starting, toSweep, rivals, thisLife>>
  PROVE  Writes(r, ev)
  BY DEF Writes

(* Each step of the owner is quiet or writes one row, and the row follows. *)
LEMMA OneRow ==
  ASSUME IInv, RecordShape, [Next]_vars
  PROVE  \/ Quiet
         \/ \E r \in Requests, ev \in EventTypes : Writes(r, ev)
         \/ Process
  <1>0. /\ TypeOK /\ SlotShape /\ QueuesShape /\ TrailShape /\ PipelineShape
        /\ InboxShape
    BY DEF IInv
  <1>a. \A r \in Requests : FirstRow(r) \in EventTypes
    BY DEF FirstRow, EventTypes
  <1>b. {"approval_granted", "approval_denied", "execute_sent", "execute_result",
         "request_timeout"} \subseteq EventTypes
    BY DEF EventTypes, TerminalEvents
  <1>1. CASE Environment
    BY <1>1 DEF Environment, Submit, AskSession, WatchdogFires, Pump, PhoneSends,
                LinkDrops, durable, record, history, others, Quiet, Serving
  <1>2. CASE OnStart
    BY <1>2 DEF OnStart, NextCmd, durable, record, history, others, Quiet, Serving,
                Running
  <1>3. CASE OnEnd \/ OnTimer
    <2>1. pc = "select" /\ pc' \in {"select", "waiters"}
      BY <1>3 DEF OnEnd, OnTimer, NextCmd, Teardown
    <2>2. UNCHANGED <<durable, history>>
      BY <1>3 DEF OnEnd, OnTimer
    <2> QED BY <2>1, <2>2 DEF durable, record, history, others, Quiet, Serving,
               Running, Ending
  <1>4. CASE OnRoute
    <2>1. PICK r : r = Head(cmdq).req
      OBVIOUS
    <2>2. /\ NextCmd("route") /\ Serving /\ UNCHANGED <<starting, toSweep, rivals>>
          /\ UNCHANGED <<record, thisLife, pc>> \/ StartRoute(r)
      BY <1>4, <2>1 DEF OnRoute, NextCmd, others, Serving, Running
    <2>3. r \in Requests /\ Unstarted(r)
      BY <1>0, <2>1, <2>2, HeadOfCmds
    <2>4. CASE UNCHANGED <<record, thisLife, pc>>
      BY <2>2, <2>4 DEF Quiet, record, Serving
    <2> QED BY <1>0, <1>a, <2>2, <2>3, <2>4, StartRouteWrites
  <1>5. CASE OnLinkError \/ OnTerminalMessage \/ OnPing \/ OnUnsolicited
    <2>1. pc = "select" /\ pc' \in {"select", "waiters"}
      BY <1>5 DEF OnLinkError, OnTerminalMessage, OnPing, OnUnsolicited, NextMsg,
                  Teardown
    <2>2. UNCHANGED <<durable, history>>
      BY <1>5 DEF OnLinkError, OnTerminalMessage, OnPing, OnUnsolicited
    <2> QED BY <2>1, <2>2 DEF durable, record, history, others, Quiet, Serving,
               Running, Ending
  <1>6. CASE OnApprovalRefused \/ OnApprovalGranted
    <2>1. NextMsg("approval_response") /\ Completes("approval")
      BY <1>6 DEF OnApprovalRefused, OnApprovalGranted
    <2>2. /\ flight # NoFlight /\ flight.stage = "approval" /\ pc = "select"
          /\ flight.req = Head(inbox).req
      BY <2>1, CompletesFlight DEF Stages
    <2>3. /\ flight.req \in Requests /\ flight.req \in thisLife
          /\ flight.req \in AuthRequests /\ Reached(flight.req, "asked")
      BY <1>0, <2>2, FlightIsStarted DEF PipelineShape, Asked, RecordShape
    <2>4. /\ pc' \in {"drain", "granted"}
          /\ UNCHANGED <<thisLife, starting, toSweep, rivals>>
      BY <1>6 DEF OnApprovalRefused, OnApprovalGranted, history, others
    <2>5. Serving /\ Serving'
      BY <2>2, <2>4 DEF Serving, Running
    <2>6. \/ UNCHANGED record
          \/ \E ev \in {"approval_denied", "approval_granted"} : Log(flight.req, ev)
      BY <1>6, <2>2 DEF OnApprovalRefused, OnApprovalGranted
    <2>7. CASE UNCHANGED record
      BY <2>4, <2>5, <2>7 DEF Quiet, record
    <2>8. ASSUME NEW ev \in {"approval_denied", "approval_granted"}, Log(flight.req, ev)
          PROVE  Writes(flight.req, ev)
      BY <2>3, <2>4, <2>5, <2>8, WritesFor DEF Follows
    <2> QED BY <1>b, <2>3, <2>6, <2>7, <2>8
  <1>7. CASE OnExecuteResponse
    <2>1. NextMsg("execute_response") /\ Completes("execute")
      BY <1>7 DEF OnExecuteResponse
    <2>2. flight # NoFlight /\ flight.stage = "execute" /\ pc = "select"
      BY <2>1, CompletesFlight DEF Stages
    <2>3. /\ flight.req \in Requests /\ flight.req \in thisLife
          /\ Reached(flight.req, "executing")
      BY <1>0, <2>2, FlightIsStarted DEF RecordShape
    <2>4. /\ pc' = "drain" /\ UNCHANGED <<thisLife, starting, toSweep, rivals>>
          /\ UNCHANGED record \/ Log(flight.req, "execute_result")
      BY <1>7 DEF OnExecuteResponse, history, others
    <2>5. Serving /\ Serving'
      BY <2>2, <2>4 DEF Serving, Running
    <2>6. CASE UNCHANGED record
      BY <2>4, <2>5, <2>6 DEF Quiet, record
    <2>7. CASE Log(flight.req, "execute_result")
      <3>1. Writes(flight.req, "execute_result")
        BY <2>3, <2>4, <2>5, <2>7, WritesFor DEF Follows
      <3> QED BY <1>b, <2>3, <3>1
    <2> QED BY <2>4, <2>6, <2>7
  <1>8. CASE OnServicesResponse
    BY <1>8 DEF OnServicesResponse, NextMsg, durable, record, history, others, Quiet,
                Serving, Running
  <1>9. CASE DialSucceeds \/ DialFails \/ RouteSent \/ RouteSendFails
             \/ ExecuteSent \/ ExecuteSendFails
    <2>1. pc \in {"dial", "route_send", "execute_send"}
          /\ pc' \in {"select", "drain", "waiters"}
      BY <1>9 DEF DialSucceeds, DialFails, RouteSent, RouteSendFails, ExecuteSent,
                  ExecuteSendFails, Teardown
    <2>2. UNCHANGED <<durable, thisLife, others>>
      BY <1>9 DEF DialSucceeds, DialFails, RouteSent, RouteSendFails, ExecuteSent,
                  ExecuteSendFails, history
    <2> QED BY <2>1, <2>2 DEF durable, record, others, Quiet, Serving, Running, Ending
  <1>10. CASE Drain
    <2>1. pc = "drain" /\ Serving /\ UNCHANGED <<starting, toSweep, rivals>>
      BY <1>10 DEF Drain, others, Serving, Running
    <2>2. CASE routeQueue = <<>>
      BY <1>10, <2>1, <2>2 DEF Drain, Quiet, record, Serving, Running
    <2>3. CASE routeQueue # <<>>
      <3>1. PICK r : r = Head(routeQueue)
        OBVIOUS
      <3>2. StartRoute(r) /\ routeQueue' = Tail(routeQueue) /\ cmdq' = cmdq
        BY <1>10, <2>3, <3>1 DEF Drain
      <3>3. r \in Requests /\ Unstarted(r)
        BY <1>0, <2>3, <3>1, <3>2, HeadOfQueue
      <3> QED BY <1>0, <1>a, <2>1, <3>2, <3>3, StartRouteWrites
    <2> QED BY <2>2, <2>3
  <1>11. CASE BindExecute
    <2>1. /\ pc = "granted" /\ pc' \in {"drain", "execute_send"}
          /\ UNCHANGED <<thisLife, starting, toSweep, rivals>>
          /\ UNCHANGED record \/ Log(cur, "execute_sent")
      BY <1>11 DEF BindExecute, history, others
    <2>2. cur \in Requests /\ cur \in thisLife /\ Reached(cur, "granted")
      BY <1>0, <2>1, CurIsStarted DEF Midway, RecordShape
    <2>3. Serving /\ Serving'
      BY <2>1 DEF Serving, Running
    <2>4. CASE UNCHANGED record
      BY <2>1, <2>3, <2>4 DEF Quiet, record
    <2>5. CASE Log(cur, "execute_sent")
      <3>1. Writes(cur, "execute_sent")
        BY <2>1, <2>2, <2>3, <2>5, WritesFor DEF Follows
      <3> QED BY <1>b, <2>2, <3>1
    <2> QED BY <2>1, <2>4, <2>5
  <1>12. CASE AnswerWaiter \/ LogEnd \/ Publish \/ Leave
    <2>1. pc \in Ending /\ pc' \in Ending \cup {"select"}
      BY <1>12 DEF AnswerWaiter, LogEnd, Publish, Leave, Ending
    <2>2. UNCHANGED <<record, history>>
      BY <1>12 DEF AnswerWaiter, LogEnd, Publish, Leave, durable
    <2> QED BY <2>1, <2>2 DEF record, history, others, Quiet, Serving, Running
  <1>13. CASE RouteTimesOut
    <2>1. /\ pc = "select" /\ pc' = "drain" /\ flight # NoFlight
          /\ UNCHANGED <<thisLife, starting, toSweep, rivals>>
          /\ Log(flight.req, "request_timeout")
      BY <1>13 DEF RouteTimesOut, history, others
    <2>2. /\ flight.req \in Requests /\ flight.req \in thisLife
          /\ Reached(flight.req, "asked") \/ Reached(flight.req, "executing")
      BY <1>0, <2>1, FlightIsStarted DEF RecordShape
    <2>3. Serving /\ Serving'
      BY <2>1 DEF Serving, Running
    <2>4. Writes(flight.req, "request_timeout")
      BY <2>1, <2>2, <2>3, WritesFor DEF Follows
    <2> QED BY <1>b, <2>2, <2>4
  <1>14. CASE UNCHANGED vars
    BY <1>14 DEF vars, durable, record, history, others, Quiet, Serving
  <1> QED
    BY <1>1, <1>2, <1>3, <1>4, <1>5, <1>6, <1>7, <1>8, <1>9, <1>10, <1>11, <1>12,
       <1>13, <1>14 DEF Next, Commands, Inbound, Continue

(* What log_req may change of a call. *)
LEMMA Logged ==
  ASSUME TypeOK, NEW r \in Requests, NEW ev \in EventTypes, Log(r, ev)
  PROVE  /\ \/ /\ trail'[r] = Append(trail[r], ev) /\ unlogged' = unlogged
               /\ trail'[r] # <<>> /\ Newest(trail'[r]) = ev
            \/ trail' = trail /\ unlogged' = unlogged \cup {r}
         /\ \A q \in Requests : q # r => trail'[q] = trail[q]
         /\ contested' = IF starting THEN contested \cup {r} ELSE contested
  <1>1. trail \in [Requests -> Seq(EventTypes)] /\ trail[r] \in Seq(EventTypes)
    BY DEF TypeOK
  <1>2. CASE trail' = [trail EXCEPT ![r] = Append(trail[r], ev)] /\ unlogged' = unlogged
    <2>1. /\ trail'[r] = Append(trail[r], ev)
          /\ \A q \in Requests : q # r => trail'[q] = trail[q]
      BY <1>1, <1>2
    <2> QED BY <1>1, <1>2, <2>1, Rows DEF Log
  <1>3. CASE trail' = trail /\ unlogged' = unlogged \cup {r}
    BY <1>3 DEF Log
  <1> QED BY <1>2, <1>3 DEF Log

(* What the sweep changes of a call. *)
LEMMA Swept ==
  ASSUME TypeOK, NEW r \in Requests, SweepOne(r)
  PROVE  /\ trail'[r] = Append(trail[r], "request_timeout")
         /\ trail'[r] # <<>> /\ Newest(trail'[r]) = "request_timeout"
         /\ \A q \in Requests : q # r => trail'[q] = trail[q]
  <1>1. trail \in [Requests -> Seq(EventTypes)] /\ trail[r] \in Seq(EventTypes)
        /\ "request_timeout" \in EventTypes
    BY DEF TypeOK, EventTypes, TerminalEvents
  <1>2. trail' = [trail EXCEPT ![r] = Append(trail[r], "request_timeout")]
    BY DEF SweepOne
  <1>3. /\ trail'[r] = Append(trail[r], "request_timeout")
        /\ \A q \in Requests : q # r => trail'[q] = trail[q]
    BY <1>1, <1>2
  <1> QED BY <1>1, <1>3, Rows

-----------------------------------------------------------------------------
(* What the log says of sessions and calls: RecordInv, given IInv *)

(* Every ended session that the watch no longer shows has its row. *)
LEMMA EndKept ==
  ASSUME IInv, EndShape, [Next]_vars
  PROVE  EndShape'
  <1>0. TypeOK /\ SlotShape
    BY DEF IInv
  <1>f. ASSUME UNCHANGED <<endRows, cutShort, epoch, active>>,
               pc' = "publish" => pc = "publish"
        PROVE  EndShape'
    BY <1>f DEF EndShape, EndIsOnRecord
  <1>1. CASE Environment
    BY <1>1, <1>f DEF Environment, Submit, AskSession, WatchdogFires, Pump,
       PhoneSends, LinkDrops, durable, ends, session
  <1>2. CASE Commands
    <2>1. UNCHANGED <<endRows, cutShort, epoch, active>> /\ pc' # "publish"
      BY <1>2 DEF Commands, OnStart, OnEnd, OnTimer, OnRoute, NextCmd, Teardown,
         StartRoute, durable, ends, session
    <2> QED BY <2>1, <1>f
  <1>3. CASE Inbound
    <2>1. UNCHANGED <<endRows, cutShort, epoch, active>> /\ pc' # "publish"
      BY <1>3 DEF Inbound, OnLinkError, OnTerminalMessage, OnPing, OnUnsolicited,
         OnApprovalRefused, OnApprovalGranted, OnExecuteResponse, OnServicesResponse,
         NextMsg, Teardown, durable, ends, session
    <2> QED BY <2>1, <1>f
  <1>4. CASE DialSucceeds
    <2>1. /\ ~active /\ epoch \in Nat /\ epoch' = epoch + 1 /\ active' /\ pc' = "select"
          /\ UNCHANGED <<endRows, cutShort>>
      BY <1>0, <1>4, BoundsAssumption DEF DialSucceeds, SlotShape, TypeOK, durable, ends
    <2>2. \A e \in 1 .. epoch : endRows[e] > 0 \/ e \in cutShort
      BY <2>1 DEF EndShape, EndIsOnRecord
    <2>3. \A e \in 1 .. epoch' : e < epoch' => e \in 1 .. epoch
      BY <2>1
    <2> QED BY <2>1, <2>2, <2>3 DEF EndShape, EndIsOnRecord
  <1>5. CASE DialFails \/ Drain \/ RouteSent \/ RouteSendFails \/ BindExecute
             \/ ExecuteSent \/ ExecuteSendFails
    <2>1. UNCHANGED <<endRows, cutShort, epoch, active>> /\ pc' # "publish"
      BY <1>5 DEF DialFails, Drain, RouteSent, RouteSendFails, BindExecute,
         ExecuteSent, ExecuteSendFails, Teardown, StartRoute, durable, ends, session
    <2> QED BY <2>1, <1>f
  <1>6. CASE AnswerWaiter \/ Leave
    BY <1>6, <1>f DEF AnswerWaiter, Leave, durable, ends
  <1>7. CASE LogEnd
    <2>1. /\ epoch \in Epochs /\ endRows \in [Epochs -> Nat]
          /\ UNCHANGED <<epoch, active>>
      BY <1>0, <1>7 DEF LogEnd, SlotShape, Ending, TypeOK, session
    <2>2. CASE endRows' = [endRows EXCEPT ![epoch] = endRows[epoch] + 1]
               /\ cutShort' = cutShort
      <3>1. endRows'[epoch] > 0
            /\ \A e \in Epochs : e # epoch => endRows'[e] = endRows[e]
        BY <2>1, <2>2
      <3>2. \A e \in 1 .. epoch : e \in Epochs
        BY <2>1, BoundsAssumption DEF Epochs
      <3> QED BY <2>1, <2>2, <3>1, <3>2 DEF EndShape, EndIsOnRecord
    <2>3. CASE cutShort' = cutShort \cup {epoch} /\ endRows' = endRows
      BY <2>1, <2>3 DEF EndShape, EndIsOnRecord
    <2> QED BY <1>7, <2>2, <2>3 DEF LogEnd
  <1>8. CASE Publish
    <2>1. /\ pc = "publish" /\ pc' = "leave" /\ UNCHANGED <<endRows, cutShort, epoch>>
          /\ epoch \in Nat
      BY <1>0, <1>8, BoundsAssumption DEF Publish, durable, ends, TypeOK
    <2>2. \A e \in 1 .. epoch : e < epoch \/ e = epoch
      BY <2>1
    <2> QED BY <2>1, <2>2 DEF EndShape, EndIsOnRecord
  <1>9. CASE RouteTimesOut
    BY <1>9, <1>f DEF RouteTimesOut, ends
  <1>10. CASE Crash
    <2>1. /\ pc' = "down" /\ UNCHANGED <<endRows, epoch>> /\ ~active' /\ epoch \in Nat
          /\ cutShort \subseteq cutShort' /\ (active => epoch \in cutShort')
      BY <1>0, <1>10, BoundsAssumption DEF Crash, TypeOK
    <2>2. \A e \in 1 .. epoch : e < epoch \/ e = epoch
      BY <2>1
    <2> QED BY <2>1, <2>2 DEF EndShape, EndIsOnRecord
  <1>11. CASE Launch \/ (\E r \in Requests : SweepOne(r)) \/ LaunchFails
    BY <1>11, <1>f DEF Launch, SweepOne, LaunchFails, durable, ends, session
  <1>12. CASE SweepDone
    BY <1>12, <1>f DEF SweepDone, TakesOver, durable, ends, session
  <1>13. CASE UNCHANGED vars
    BY <1>13, <1>f DEF vars, durable, ends, session
  <1> QED
    BY <1>1, <1>2, <1>3, <1>4, <1>5, <1>6, <1>7, <1>8, <1>9, <1>10, <1>11, <1>12,
       <1>13 DEF Next, Continue, Process

(* A row that follows takes a call from one point of the pipeline to the    *)
(* next, whether or not it could be appended.                               *)
LEMMA ReachedNext ==
  ASSUME TypeOK, NEW r \in Requests, NEW ev \in EventTypes, Log(r, ev),
         NEW phase,
         \/ trail[r] = <<>> /\ ev = FirstRow(r) /\ phase = "asked"
         \/ Reached(r, "asked") /\ ev = "approval_granted" /\ phase = "granted"
         \/ Reached(r, "granted") /\ ev = "execute_sent" /\ phase = "executing"
  PROVE  Reached(r, phase)'
  <1>1. /\ \/ trail'[r] # <<>> /\ Newest(trail'[r]) = ev
           \/ trail' = trail /\ unlogged' = unlogged \cup {r}
        /\ contested \subseteq contested'
    BY Logged
  <1>2. CASE trail'[r] # <<>> /\ Newest(trail'[r]) = ev
    <2>1. PhaseOf(trail'[r]) = phase
      BY <1>2 DEF PhaseOf, FirstRow
    <2> QED BY <2>1 DEF Reached
  <1>3. CASE trail' = trail /\ unlogged' = unlogged \cup {r}
    <2>1. r \in contested \/ PhaseOf(trail[r]) \in Before(phase)
      <3>1. trail[r] = <<>> => PhaseOf(trail[r]) = "unseen"
        BY DEF PhaseOf
      <3>2. /\ Before("asked") = {"unseen"} /\ Before("granted") = {"unseen", "asked"}
            /\ Before("executing") = {"unseen", "asked", "granted"}
        BY DEF Before
      <3> QED BY <3>1, <3>2 DEF Reached
    <2> QED BY <1>1, <1>3, <2>1 DEF Reached
  <1> QED BY <1>1, <1>2, <1>3

(* A call whose rows are untouched is where it was. *)
LEMMA ReachedFrame ==
  ASSUME NEW r, NEW phase, Reached(r, phase),
         trail'[r] = trail[r] \/ r \in contested, contested \subseteq contested',
         unlogged \subseteq unlogged'
  PROVE  Reached(r, phase)'
  BY DEF Reached

(* start_route leaves the flight where it was. *)
LEMMA StartRouteRecord ==
  ASSUME IInv, RecordShape, NEW r \in Requests, StartRoute(r), Unstarted(r),
         flight' = flight, pc \notin Midway
  PROVE  RecordShape'
  <1>0. TypeOK /\ PipelineShape
    BY DEF IInv
  <1>1. CASE UNCHANGED record /\ pc' = "select"
    BY <1>1 DEF RecordShape, Reached, record
  <1>2. CASE Log(r, FirstRow(r)) /\ (pc' = "select" \/ (pc' = "route_send" /\ cur' = r))
    <2>1. FirstRow(r) \in EventTypes
      BY DEF FirstRow, EventTypes
    <2>2. Reached(r, "asked")'
      BY <1>0, <1>2, <2>1, ReachedNext DEF Unstarted
    <2>3. /\ \A q \in Requests : q # r => trail'[q] = trail[q]
          /\ contested \subseteq contested' /\ unlogged \subseteq unlogged'
      BY <1>0, <1>2, <2>1, Logged
    <2>4. flight # NoFlight => flight.req \in Requests /\ flight.req # r
      BY <1>0, FlightIsStarted DEF Unstarted
    <2>5. \A phase : flight # NoFlight /\ Reached(flight.req, phase)
                       => Reached(flight.req, phase)'
      BY <2>3, <2>4, ReachedFrame
    <2>6. cur' = r => Reached(cur, "asked")'
      BY <2>2
    <2> QED BY <1>2, <2>5, <2>6 DEF RecordShape
  <1> QED BY <1>1, <1>2 DEF StartRoute

(* What the owner holds is where its rows say. *)
LEMMA RecordKept ==
  ASSUME IInv, RecordShape, SweepShape, [Next]_vars
  PROVE  RecordShape'
  <1>0. TypeOK /\ SlotShape /\ QueuesShape /\ PipelineShape
    BY DEF IInv
  <1>f. ASSUME trail' = trail, unlogged' = unlogged, contested \subseteq contested',
               flight' = flight \/ flight' = NoFlight,
               (pc' = pc /\ cur' = cur) \/ pc' \notin Midway
        PROVE  RecordShape'
    <2>1. \A r, phase : Reached(r, phase) => Reached(r, phase)'
      BY <1>f DEF Reached
    <2>2. CASE pc' = pc /\ cur' = cur
      BY <1>f, <2>1, <2>2 DEF RecordShape
    <2>3. CASE pc' \notin Midway
      BY <1>f, <2>1, <2>3 DEF RecordShape, Midway
    <2> QED BY <1>f, <2>2, <2>3
  <1>e. ASSUME flight' = NoFlight, pc' \notin Midway PROVE RecordShape'
    BY <1>e DEF RecordShape, Midway
  <1>1. CASE Environment
    BY <1>1, <1>f DEF Environment, Submit, AskSession, WatchdogFires, Pump,
       PhoneSends, LinkDrops, durable, record, session
  <1>2. CASE OnStart \/ OnEnd \/ OnTimer
    <2>1. UNCHANGED <<trail, unlogged, contested, flight>> /\ pc' \notin Midway
      BY <1>2 DEF OnStart, OnEnd, OnTimer, NextCmd, Teardown, durable, record,
         session, Midway
    <2> QED BY <2>1, <1>f
  <1>3. CASE OnRoute
    <2>1. PICK r : r = Head(cmdq).req
      OBVIOUS
    <2>2. /\ NextCmd("route") /\ pc = "select" /\ flight' = flight
          /\ UNCHANGED <<record, pc>> \/ StartRoute(r)
      BY <1>3, <2>1 DEF OnRoute, NextCmd
    <2>3. r \in Requests /\ Unstarted(r) /\ pc \notin Midway
      BY <1>0, <2>1, <2>2, HeadOfCmds DEF Midway
    <2>4. CASE UNCHANGED <<record, pc>>
      BY <2>2, <2>3, <2>4, <1>f DEF record
    <2> QED BY <2>2, <2>3, <2>4, StartRouteRecord
  <1>4. CASE OnLinkError \/ OnTerminalMessage \/ OnPing \/ OnUnsolicited
    <2>1. UNCHANGED <<trail, unlogged, contested, flight>> /\ pc' \notin Midway
      BY <1>4 DEF OnLinkError, OnTerminalMessage, OnPing, OnUnsolicited, NextMsg,
         Teardown, durable, record, session, Midway
    <2> QED BY <2>1, <1>f
  <1>5. CASE OnApprovalRefused \/ OnExecuteResponse \/ OnServicesResponse
             \/ RouteTimesOut \/ DialSucceeds \/ Crash
    <2>1. flight' = NoFlight /\ pc' \notin Midway
      BY <1>5 DEF OnApprovalRefused, OnExecuteResponse, OnServicesResponse,
         RouteTimesOut, DialSucceeds, Crash, Midway
    <2> QED BY <2>1, <1>e
  <1>6. CASE OnApprovalGranted
    <2>1. PICK r : r = flight.req
      OBVIOUS
    <2>2. /\ flight # NoFlight /\ flight.stage = "approval" /\ r \in Requests
      BY <1>0, <1>6, <2>1, CompletesFlight, FlightIsStarted DEF OnApprovalGranted, Stages
    <2>3. Reached(r, "asked")
      BY <2>1, <2>2 DEF RecordShape
    <2>4. /\ Log(r, "approval_granted") /\ cur' = r /\ flight' = NoFlight
          /\ pc' = "granted"
      BY <1>6, <2>1 DEF OnApprovalGranted
    <2>5. Reached(r, "granted")'
      BY <1>0, <2>2, <2>3, <2>4, ReachedNext DEF EventTypes
    <2>6. Reached(cur, "granted")'
      BY <2>4, <2>5
    <2> QED BY <2>4, <2>6 DEF RecordShape
  <1>7. CASE DialFails \/ RouteSendFails \/ ExecuteSendFails
    <2>1. UNCHANGED <<trail, unlogged, contested, flight>> /\ pc' \notin Midway
      BY <1>7 DEF DialFails, RouteSendFails, ExecuteSendFails, Teardown, durable,
         record, session, Midway
    <2> QED BY <2>1, <1>f
  <1>8. CASE Drain
    <2>1. pc = "drain" /\ flight' = flight /\ pc \notin Midway
      BY <1>8 DEF Drain, Midway
    <2>2. CASE routeQueue = <<>>
      BY <1>8, <2>1, <2>2, <1>f DEF Drain, record, Midway
    <2>3. CASE routeQueue # <<>>
      <3>1. PICK r : r = Head(routeQueue)
        OBVIOUS
      <3>2. StartRoute(r) /\ routeQueue' = Tail(routeQueue) /\ cmdq' = cmdq
        BY <1>8, <2>3, <3>1 DEF Drain
      <3>3. r \in Requests /\ Unstarted(r)
        BY <1>0, <2>3, <3>1, <3>2, HeadOfQueue
      <3> QED BY <2>1, <3>2, <3>3, StartRouteRecord
    <2> QED BY <2>2, <2>3
  <1>9. CASE RouteSent \/ ExecuteSent
    <2>1. PICK c : c = cur
      OBVIOUS
    <2>2. /\ UNCHANGED <<trail, unlogged, contested>> /\ pc' \notin Midway
          /\ flight'.req = c
          /\ \/ pc = "route_send" /\ flight'.stage \in {"approval", "services"}
             \/ pc = "execute_send" /\ flight'.stage = "execute"
      BY <1>9, <2>1 DEF RouteSent, ExecuteSent, RouteStage, durable, record, Midway
    <2>3. Reached(c, IF flight'.stage = "execute" THEN "executing" ELSE "asked")
      BY <2>1, <2>2 DEF RecordShape
    <2>4. \A phase : Reached(c, phase) => Reached(c, phase)'
      BY <2>2 DEF Reached
    <2> QED BY <2>2, <2>3, <2>4 DEF RecordShape, Midway
  <1>10. CASE BindExecute
    <2>1. PICK c : c = cur
      OBVIOUS
    <2>2. /\ pc = "granted" /\ cur \notin consumed /\ c \in Requests
          /\ flight = NoFlight
      BY <1>0, <1>10, <2>1, CurIsStarted DEF BindExecute, PipelineShape, SlotShape, Midway
    <2>3. /\ Log(c, "execute_sent") /\ pc' = "execute_send" /\ cur' = c
          /\ flight' = flight
      BY <1>10, <2>1, <2>2 DEF BindExecute
    <2>4. Reached(c, "granted")
      BY <2>1, <2>2 DEF RecordShape
    <2>5. Reached(c, "executing")'
      BY <1>0, <2>2, <2>3, <2>4, ReachedNext DEF EventTypes
    <2>6. Reached(cur, "executing")'
      BY <2>3, <2>5
    <2> QED BY <2>2, <2>3, <2>6 DEF RecordShape
  <1>11. CASE AnswerWaiter \/ LogEnd \/ Publish \/ Leave
    <2>1. /\ UNCHANGED <<trail, unlogged, contested>> /\ pc' \notin Midway
          /\ flight' = flight \/ flight' = NoFlight
      BY <1>11 DEF AnswerWaiter, LogEnd, Publish, Leave, durable, record, session,
         Midway
    <2> QED BY <2>1, <1>f
  <1>12. CASE Launch \/ LaunchFails
    BY <1>12, <1>f DEF Launch, LaunchFails, durable, record, session
  <1>13. CASE SweepDone
    BY <1>13, <1>f DEF SweepDone, TakesOver, durable, record, session, Midway
  <1>14. ASSUME NEW r \in Requests, SweepOne(r) PROVE RecordShape'
    <2>1. /\ starting /\ r \in toSweep
          /\ UNCHANGED <<unlogged, contested, pc, cur, flight>>
      BY <1>14 DEF SweepOne, session
    <2>2. \A q \in Requests : q # r => trail'[q] = trail[q]
      BY <1>0, <1>14, Swept
    <2>3. CASE Serving
      <3>1. r \in contested
        BY <2>1, <2>3 DEF SweepShape
      <3>2. \A q \in Requests : \A phase : Reached(q, phase) => Reached(q, phase)'
        BY <2>1, <2>2, <3>1 DEF Reached
      <3>3. flight # NoFlight => flight.req \in Requests
        BY <1>0, FlightIsStarted
      <3>4. pc \in Midway => cur \in Requests
        BY <1>0, CurIsStarted
      <3> QED BY <2>1, <3>2, <3>3, <3>4 DEF RecordShape, Midway
    <2>4. CASE ~Serving
      <3>1. pc = "down"
        BY <1>0, <2>4 DEF Serving, TypeOK
      <3>2. flight' = NoFlight /\ pc' \notin Midway
        BY <1>0, <2>1, <3>1 DEF SlotShape, Midway
      <3> QED BY <3>2, <1>e
    <2> QED BY <2>3, <2>4
  <1>15. CASE UNCHANGED vars
    BY <1>15, <1>f DEF vars, durable, record, session
  <1> QED
    BY <1>1, <1>2, <1>3, <1>4, <1>5, <1>6, <1>7, <1>8, <1>9, <1>10, <1>11, <1>12,
       <1>13, <1>14, <1>15 DEF Next, Commands, Inbound, Continue, Process

(* A sweep closes what it should, and an open call belongs to this process. *)
LEMMA SweepKept ==
  ASSUME IInv, RecordShape, SweepShape, [Next]_vars
  PROVE  SweepShape'
  <1>0. TypeOK
    BY DEF IInv
  <1>a. \A r \in Requests : r \in Orphans <=> Orphan(r)
    BY DEF Orphans
  <1>b. Orphans \subseteq Requests /\ Orphans' \subseteq Requests
    BY DEF Orphans
  <1>1. CASE Quiet
    <2>1. Orphans' = Orphans /\ \A r : Orphan(r)' <=> Orphan(r)
      BY <1>1 DEF Quiet, Orphans, Orphan
    <2> QED BY <1>1, <2>1 DEF Quiet, SweepShape, OrphansAreOurs
  <1>2. ASSUME NEW r \in Requests, NEW ev \in EventTypes, Writes(r, ev)
        PROVE  SweepShape'
    <2>1. /\ \A q \in Requests : q # r => trail'[q] = trail[q]
          /\ contested' = IF starting THEN contested \cup {r} ELSE contested
      BY <1>0, <1>2, Logged DEF Writes
    <2>2. Orphans' \subseteq Orphans \cup {r}
      BY <2>1 DEF Orphans, Orphan
    <2>3. /\ r \in thisLife' /\ thisLife \subseteq thisLife' /\ Serving /\ Serving'
          /\ UNCHANGED <<starting, toSweep, rivals>>
      BY <1>2 DEF Writes
    <2> QED BY <2>1, <2>2, <2>3 DEF SweepShape, OrphansAreOurs
  <1>3. CASE Crash
    <2>1. /\ ~Serving' /\ UNCHANGED <<trail, contested, starting, toSweep, rivals>>
          /\ Serving
      BY <1>0, <1>3 DEF Crash, Serving, Running, Ending, TypeOK, record, history, others
    <2>2. Orphans' = Orphans /\ \A r : Orphan(r)' <=> Orphan(r)
      BY <2>1 DEF Orphans, Orphan
    <2> QED BY <2>1, <2>2 DEF SweepShape, OrphansAreOurs
  <1>4. CASE Launch
    <2>1. /\ Serving' <=> Serving
          /\ UNCHANGED <<trail, thisLife>> /\ starting' /\ toSweep' = Orphans
          /\ contested' = IF Serving THEN contested \cup Orphans ELSE contested
          /\ rivals' = IF Serving THEN rivals + 1 ELSE rivals
          /\ rivals \in Nat
      BY <1>0, <1>4 DEF Launch, Serving, TypeOK
    <2>2. Orphans' = Orphans /\ \A r : Orphan(r)' <=> Orphan(r)
      BY <2>1 DEF Orphans, Orphan
    <2>3. \A r \in Orphans : Orphan(r)
      BY <1>a, <1>b
    <2> QED BY <2>1, <2>2, <2>3 DEF SweepShape, OrphansAreOurs
  <1>5. ASSUME NEW r \in Requests, SweepOne(r) PROVE SweepShape'
    <2>1. /\ Serving' <=> Serving
          /\ starting /\ r \in toSweep /\ toSweep' = toSweep \ {r}
          /\ UNCHANGED <<contested, thisLife, starting, rivals>>
      BY <1>5 DEF SweepOne, Serving
    <2>2. /\ trail'[r] # <<>> /\ Newest(trail'[r]) = "request_timeout"
          /\ \A q \in Requests : q # r => trail'[q] = trail[q]
      BY <1>0, <1>5, Swept
    <2>3. Orphans' \subseteq Orphans \ {r}
      BY <2>2 DEF Orphans, Orphan, TerminalEvents
    <2>4. \A q \in toSweep' \ contested' : Orphan(q)'
      <3> SUFFICES ASSUME NEW q \in toSweep' \ contested' PROVE Orphan(q)'
        OBVIOUS
      <3>1. q \in Requests /\ q # r /\ Orphan(q)
        BY <1>0, <2>1 DEF TypeOK, SweepShape
      <3> QED BY <2>2, <3>1 DEF Orphan
    <2> QED BY <2>1, <2>3, <2>4 DEF SweepShape, OrphansAreOurs
  <1>6. CASE LaunchFails
    <2>1. /\ Serving' <=> Serving
          /\ ~starting' /\ toSweep' = {}
          /\ UNCHANGED <<trail, contested, thisLife, rivals>>
      BY <1>6 DEF LaunchFails, Serving, durable, record
    <2>2. Orphans' = Orphans
      BY <2>1 DEF Orphans, Orphan
    <2> QED BY <2>1, <2>2 DEF SweepShape, OrphansAreOurs
  <1>7. CASE SweepDone
    <2>1. /\ starting /\ toSweep = {} /\ ~starting' /\ toSweep' = {}
          /\ UNCHANGED <<trail, contested, rivals>>
          /\ Serving => thisLife' = thisLife
      BY <1>7 DEF SweepDone, TakesOver, durable, record
    <2>2. Orphans' = Orphans
      BY <2>1 DEF Orphans, Orphan
    <2> QED BY <2>1, <2>2 DEF SweepShape, OrphansAreOurs
  <1> QED
    BY <1>1, <1>2, <1>3, <1>4, <1>5, <1>6, <1>7, OneRow DEF Process

(* At the first start there is nothing on record. *)
LEMMA InitRecord == Init => RecordInv
  <1> SUFFICES ASSUME Init PROVE RecordInv
    OBVIOUS
  <1>1. Orphans = {}
    BY DEF Init, Orphans, Orphan
  <1>2. SweepShape
    BY <1>1 DEF Init, SweepShape, OrphansAreOurs
  <1>3. EndShape /\ RecordShape
    BY DEF Init, EndShape, EndIsOnRecord, RecordShape
  <1> QED BY <1>2, <1>3 DEF RecordInv

(* The rows the log holds say how far each call and each session has come,  *)
(* but for what an append that failed or a second daemon's sweep did to     *)
(* them.                                                                    *)
THEOREM RecordInvariant == Spec => []RecordInv
  <1>1. IInv /\ RecordInv /\ [Next]_vars => RecordInv'
    BY EndKept, RecordKept, SweepKept DEF RecordInv
  <1> QED BY <1>1, InitRecord, InductiveInvariant, PTL DEF Spec

(* When the watch shows no session, every session that ended has its row.  *)
THEOREM EndsAreOnRecord == Spec => []EndIsOnRecord
  <1>1. RecordInv => EndIsOnRecord
    BY DEF RecordInv, EndShape
  <1> QED BY <1>1, RecordInvariant, PTL

(* While the daemon serves, only calls of this process lack a terminal row. *)
THEOREM SweepIsComplete == Spec => []OrphansAreOurs
  <1>1. RecordInv => OrphansAreOurs
    BY DEF RecordInv, SweepShape
  <1> QED BY <1>1, RecordInvariant, PTL

(* A call a row may follow on is open, unless a second daemon started.     *)
LEMMA FollowsOpen ==
  ASSUME NEW r \in Requests, NEW ev, Follows(r, ev), r \notin contested
  PROVE  \/ trail[r] = <<>>
         \/ PhaseOf(trail[r]) \in {"unseen", "asked", "granted", "executing"}
  <1>1. /\ Before("asked") = {"unseen"} /\ Before("granted") = {"unseen", "asked"}
        /\ Before("executing") = {"unseen", "asked", "granted"}
    BY DEF Before
  <1> QED BY <1>1 DEF Follows, Reached

LEMMA ClosedPhase ==
  ASSUME NEW rows, rows # <<>>, Newest(rows) \in TerminalEvents
  PROVE  PhaseOf(rows) \in {"finished", "refused", "given_up"}
  BY DEF PhaseOf, TerminalEvents

(* A terminal row closes a req_id for good: no answer, timeout or restart  *)
(* appends to it, as long as no second daemon started while it was open.   *)
THEOREM TerminalRowsAreFinal == Spec => TerminalIsFinal
  <1>1. IInv /\ RecordInv /\ [Next]_vars =>
          [\A r \in Requests \ contested' :
             trail[r] # <<>> /\ Newest(trail[r]) \in TerminalEvents
               => trail'[r] = trail[r]]_vars
    <2> SUFFICES ASSUME IInv, RecordInv, [Next]_vars, NEW q \in Requests \ contested',
                        trail[q] # <<>>, Newest(trail[q]) \in TerminalEvents
                 PROVE  trail'[q] = trail[q]
      OBVIOUS
    <2>0. TypeOK /\ RecordShape /\ SweepShape
      BY DEF IInv, RecordInv
    <2>1. CASE Quiet
      BY <2>1 DEF Quiet
    <2>2. ASSUME NEW r \in Requests, NEW ev \in EventTypes, Writes(r, ev)
          PROVE  trail'[q] = trail[q]
      <3>1. /\ \A p \in Requests : p # r => trail'[p] = trail[p]
            /\ contested \subseteq contested'
        BY <2>0, <2>2, Logged DEF Writes
      <3>2. r # q
        BY <2>2, <3>1, FollowsOpen, ClosedPhase DEF Writes
      <3> QED BY <3>1, <3>2
    <2>3. ASSUME NEW r \in Requests, SweepOne(r) PROVE trail'[q] = trail[q]
      <3>1. /\ \A p \in Requests : p # r => trail'[p] = trail[p]
            /\ contested' = contested /\ r \in toSweep
        BY <2>0, <2>3, Swept DEF SweepOne
      <3>2. r # q
        BY <2>0, <3>1 DEF SweepShape, Orphan
      <3> QED BY <3>1, <3>2
    <2>4. CASE Crash \/ Launch \/ LaunchFails \/ SweepDone
      BY <2>4 DEF Crash, Launch, LaunchFails, SweepDone, TakesOver, durable, record
    <2> QED BY <2>0, <2>1, <2>2, <2>3, <2>4, OneRow DEF Process
  <1> QED BY <1>1, InductiveInvariant, RecordInvariant, PTL DEF Spec, TerminalIsFinal

(* The owner and the sweeps implement the life cycle of a call: only a row *)
(* that could not be written is skipped, only a call that was open while a *)
(* second daemon started leaves it.                                        *)
THEOREM LifecycleImplemented == Spec => ImplementsLifecycle
  <1> DEFINE ph == [r \in Requests |-> PhaseOf(trail[r])]
  <1>1. Init => Abstract!Init
    <2> SUFFICES ASSUME Init
                 PROVE  /\ ph = [r \in Requests |-> "unseen"]
                        /\ unlogged = {} /\ contested = {}
      BY DEF Abstract!Init, Abstract!Requests, Requests
    <2>1. \A r \in Requests : trail[r] = <<>>
      BY DEF Init
    <2>2. \A r \in Requests : PhaseOf(trail[r]) = "unseen"
      BY <2>1 DEF PhaseOf
    <2> QED BY <2>2 DEF Init
  <1>2. IInv /\ RecordInv /\ [Next]_vars =>
          [Abstract!Next]_<<ph, unlogged, contested>>
    <2> SUFFICES ASSUME IInv, RecordInv, [Next]_vars
                 PROVE  [Abstract!Next]_<<ph, unlogged, contested>>
      OBVIOUS
    <2>0. TypeOK /\ RecordShape /\ SweepShape
      BY DEF IInv, RecordInv
    <2>m. ASSUME trail' = trail, unlogged \subseteq unlogged', contested \subseteq contested'
          PROVE  Abstract!Next
      BY <2>m DEF Abstract!Next, Abstract!Mishap
    <2>1. CASE Quiet
      BY <2>1, <2>m DEF Quiet
    <2>2. ASSUME NEW r \in Requests, NEW ev \in EventTypes, Writes(r, ev)
          PROVE  Abstract!Next
      <3>1. /\ \/ /\ unlogged' = unlogged
                  /\ trail'[r] # <<>> /\ Newest(trail'[r]) = ev
               \/ trail' = trail /\ unlogged' = unlogged \cup {r}
            /\ \A q \in Requests : q # r => trail'[q] = trail[q]
            /\ contested \subseteq contested'
        BY <2>0, <2>2, Logged DEF Writes
      <3>2. CASE trail' = trail /\ unlogged' = unlogged \cup {r}
        BY <3>1, <3>2, <2>m
      <3>3. CASE unlogged' = unlogged /\ trail'[r] # <<>> /\ Newest(trail'[r]) = ev
        <4>1. PICK to : to = PhaseOf(trail'[r])
          OBVIOUS
        <4>2. ph' = [ph EXCEPT ![r] = to]
          BY <3>1, <4>1
        <4>3. /\ Before("asked") = {"unseen"} /\ Before("granted") = {"unseen", "asked"}
              /\ Before("executing") = {"unseen", "asked", "granted"}
          BY DEF Before
        <4>4. trail[r] = <<>> => ph[r] = "unseen"
          BY DEF PhaseOf
        <4>5. /\ ev = FirstRow(r) => to = "asked"
              /\ ev = "approval_granted" => to = "granted"
              /\ ev = "approval_denied" => to = "refused"
              /\ ev = "execute_sent" => to = "executing"
              /\ ev = "execute_result" => to = "finished"
              /\ ev = "request_timeout" => to = "given_up"
          BY <3>3, <4>1 DEF PhaseOf, FirstRow
        <4>6. ph[r] = PhaseOf(trail[r])
          OBVIOUS
        <4>7. ASSUME NEW p, Reached(r, p)
              PROVE  ph[r] = p \/ (r \in unlogged /\ ph[r] \in Before(p)) \/ r \in contested'
          BY <3>1, <4>6, <4>7 DEF Reached
        <4> HIDE DEF ph
        <4>8. \/ Abstract!Ask(r) \/ Abstract!Grant(r) \/ Abstract!Refuse(r)
              \/ Abstract!Execute(r) \/ Abstract!Finish(r) \/ Abstract!GiveUp(r)
          <5>0. Follows(r, ev)
            BY <2>2 DEF Writes
          <5> DEFINE Go(from, skipped) ==
                \/ ph[r] \in from
                \/ r \in unlogged /\ ph[r] \in skipped
                \/ r \in contested'
          <5>1. CASE trail[r] = <<>> /\ ev = FirstRow(r)
            <6>1. Go({"unseen"}, {}) /\ to = "asked"
              BY <4>4, <4>5, <5>1
            <6> QED BY <3>1, <3>3, <4>2, <6>1 DEF Abstract!Ask, Abstract!Move, ph
          <5>2. CASE /\ ev \in {"approval_granted", "approval_denied"}
                     /\ r \in AuthRequests /\ Reached(r, "asked")
            <6>1. Go({"asked"}, {"unseen"})
              BY <4>3, <4>7, <5>2
            <6>2. to = "granted" \/ to = "refused"
              BY <4>5, <5>2
            <6> QED BY <3>1, <3>3, <4>2, <5>2, <6>1, <6>2
                    DEF Abstract!Grant, Abstract!Refuse, Abstract!Move, ph
          <5>3. CASE ev = "execute_sent" /\ Reached(r, "granted")
            <6>1. Go({"granted"}, {"unseen", "asked"}) /\ to = "executing"
              BY <4>3, <4>5, <4>7, <5>3
            <6> QED BY <3>1, <3>3, <4>2, <6>1 DEF Abstract!Execute, Abstract!Move, ph
          <5>4. CASE ev = "execute_result" /\ Reached(r, "executing")
            <6>1. Go({"executing"}, {"unseen", "asked", "granted"}) /\ to = "finished"
              BY <4>3, <4>5, <4>7, <5>4
            <6> QED BY <3>1, <3>3, <4>2, <6>1 DEF Abstract!Finish, Abstract!Move, ph
          <5>5. CASE /\ ev = "request_timeout"
                     /\ Reached(r, "asked") \/ Reached(r, "executing")
            <6>1. Go({"asked", "granted", "executing"}, {"unseen"}) /\ to = "given_up"
              BY <4>3, <4>5, <4>7, <5>5
            <6> QED BY <3>1, <3>3, <4>2, <6>1 DEF Abstract!GiveUp, Abstract!Move, ph
          <5> QED BY <5>0, <5>1, <5>2, <5>3, <5>4, <5>5 DEF Follows
        <4> QED BY <4>8 DEF Abstract!Next, Abstract!Requests, Requests
      <3> QED BY <3>1, <3>2, <3>3
    <2>3. ASSUME NEW r \in Requests, SweepOne(r) PROVE Abstract!Next
      <3>1. /\ trail'[r] # <<>> /\ Newest(trail'[r]) = "request_timeout"
            /\ \A q \in Requests : q # r => trail'[q] = trail[q]
            /\ UNCHANGED <<contested, unlogged>> /\ r \in toSweep
        BY <2>0, <2>3, Swept DEF SweepOne
      <3>2. PhaseOf(trail'[r]) = "given_up"
        BY <3>1 DEF PhaseOf
      <3>3. ph' = [ph EXCEPT ![r] = "given_up"]
        BY <3>1, <3>2
      <3>4. ph[r] = PhaseOf(trail[r])
        OBVIOUS
      <3>5. r \in contested' \/ ph[r] \in {"asked", "granted", "executing"}
        <4> SUFFICES ASSUME r \notin contested
                     PROVE  ph[r] \in {"asked", "granted", "executing"}
          BY <3>1
        <4>1. trail[r] # <<>> /\ Newest(trail[r]) \notin TerminalEvents
          BY <2>0, <3>1 DEF SweepShape, Orphan
        <4>2. Newest(trail[r]) \in EventTypes
          BY <2>0, <4>1 DEF TypeOK, Newest
        <4> QED BY <3>4, <4>1, <4>2 DEF PhaseOf, EventTypes, TerminalEvents
      <3>6. Abstract!GiveUp(r)
        BY <3>1, <3>3, <3>5 DEF Abstract!GiveUp, Abstract!Move
      <3> QED BY <3>6 DEF Abstract!Next, Abstract!Requests, Requests
    <2>4. CASE Crash \/ Launch \/ LaunchFails \/ SweepDone
      <3>1. trail' = trail /\ unlogged' = unlogged /\ contested \subseteq contested'
        BY <2>4 DEF Crash, Launch, LaunchFails, SweepDone, TakesOver, durable, record
      <3> QED BY <3>1, <2>m
    <2> QED BY <2>0, <2>1, <2>2, <2>3, <2>4, OneRow DEF Process
  <1> QED BY <1>1, <1>2, InductiveInvariant, RecordInvariant, PTL
          DEF Spec, ImplementsLifecycle, Abstract!Spec

-----------------------------------------------------------------------------
(* Where a waiting call is held.                                           *)

InHand(r) == flight.req = r \/ cur = r
Held(r)   == InCmds(r) \/ InQueue(r) \/ InHand(r)

Accounted == \A r \in Requests : reply[r] = "pending" <=> Held(r)

\* The call in hand is not the one in flight.
CallersInv == Accounted /\ (cur # NoReq => flight.req # cur)

\* Accounted, call by call, is the property on sets of calls.
LEMMA AccountedIsProperty ==
  ASSUME TypeOK PROVE Accounted <=> CallersAccountedFor
  <1>1. \A r : r \in HeldInQueue <=> InCmds(r)
    BY DEF HeldInQueue, Elements, InCmds
  <1>2. \A r : r \in Elements(routeQueue) <=> InQueue(r)
    BY DEF Elements, InQueue
  <1>3. \A r \in Requests : r # NoReq
    BY RequestsAssumption
  <1>4. \A r : InCmds(r) => r \in Requests
    <2>1. \A i \in 1 .. Len(cmdq) : cmdq[i] \in Cmds
      BY DEF TypeOK
    <2>2. \A c \in Cmds : c.kind = "route" => c.req \in Requests
      BY DEF Cmds
    <2>. QED  BY <2>1, <2>2 DEF InCmds
  <1>5. \A r : InQueue(r) => r \in Requests
    BY DEF TypeOK, InQueue
  <1>6. flight.req \in Requests \cup {NoReq} /\ cur \in Requests \cup {NoReq}
    BY DEF TypeOK, Flights, NoFlight
  <1>7. \A r : r \in HeldInQueue \cup InFlightOrQueued \cup ({cur} \ {NoReq})
                 <=> r \in Requests /\ Held(r)
    BY <1>1, <1>2, <1>3, <1>4, <1>5, <1>6 DEF InFlightOrQueued, Held, InHand
  <1>. QED  BY <1>7 DEF Accounted, CallersAccountedFor

\* The places are apart: a call a handler or the slot holds has been started, a
\* queued one has not, and the two started ones differ.
LEMMA Apart ==
  ASSUME IInv, CallersInv
  PROVE  /\ \A r \in Requests : /\ ~(InCmds(r) /\ InQueue(r))
                                /\ InHand(r) => r \in thisLife /\ ~Queued(r)
                                /\ flight.req = r => cur # r
         /\ flight = NoFlight <=> flight.req = NoReq
         /\ cur \in Requests \cup {NoReq} /\ flight.req \in Requests \cup {NoReq}
         /\ \A r \in Requests : r # NoReq
  <1>0. TypeOK /\ SlotShape /\ QueuesShape /\ PipelineShape
    BY DEF IInv
  <1>1. \A r \in Requests : r # NoReq
    BY RequestsAssumption
  <1>2. /\ cur \in Requests \cup {NoReq} /\ flight.req \in Requests \cup {NoReq}
        /\ flight = NoFlight <=> flight.req = NoReq
    BY <1>0, <1>1 DEF TypeOK, Flights, NoFlight
  <1>3. \A r \in Requests : ~(InCmds(r) /\ InQueue(r))
    BY <1>0 DEF QueuesShape, InCmds, InQueue
  <1>4. \A r \in Requests : InHand(r) => r \in thisLife
    BY <1>0, <1>1, <1>2 DEF InHand, PipelineShape
  <1>5. \A r \in Requests : InHand(r) => ~Queued(r)
    BY <1>0, <1>4, StartedIsOut
  <1>6. \A r \in Requests : flight.req = r => cur # r
    BY <1>1 DEF CallersInv
  <1>. QED  BY <1>1, <1>2, <1>3, <1>4, <1>5, <1>6

-----------------------------------------------------------------------------
(* The queues, call by call.                                               *)

\* Taking a command that routes nothing takes no call.
LEMMA PoppedOther ==
  ASSUME TypeOK, cmdq # <<>>, cmdq' = Tail(cmdq), Head(cmdq).kind # "route"
  PROVE  \A r : InCmds(r)' <=> InCmds(r)
  <1>1. /\ Len(cmdq) \in Nat /\ Len(cmdq) > 0 /\ Len(cmdq') = Len(cmdq) - 1
        /\ Head(cmdq) = cmdq[1]
        /\ \A i \in 1 .. Len(cmdq) - 1 : cmdq'[i] = cmdq[i + 1]
    BY SeqTail DEF TypeOK
  <1>2. \A r : InCmds(r)' => InCmds(r)
    BY CmdsPopped
  <1>3. ASSUME NEW r, InCmds(r) PROVE InCmds(r)'
    <2>1. PICK i \in 1 .. Len(cmdq) : cmdq[i].kind = "route" /\ cmdq[i].req = r
      BY <1>3 DEF InCmds
    <2>2. i # 1
      BY <1>1, <2>1
    <2>3. i - 1 \in 1 .. Len(cmdq) - 1 /\ (i - 1) + 1 = i
      BY <1>1, <2>1, <2>2
    <2>4. cmdq'[i - 1] = cmdq[i] /\ i - 1 \in 1 .. Len(cmdq')
      BY <1>1, <2>3
    <2>. QED  BY <2>1, <2>4 DEF InCmds
  <1>. QED  BY <1>2, <1>3

\* Taking a route command takes its call.
LEMMA PoppedRoute ==
  ASSUME TypeOK, QueuesShape, NextCmd("route"), NEW c, c = Head(cmdq).req
  PROVE  \A r : InCmds(r)' <=> InCmds(r) /\ r # c
  <1>0. cmdq # <<>> /\ cmdq' = Tail(cmdq) /\ ~InCmds(c)'
    BY HeadOfCmds DEF NextCmd
  <1>1. /\ Len(cmdq) \in Nat /\ Len(cmdq) > 0 /\ Len(cmdq') = Len(cmdq) - 1
        /\ Head(cmdq) = cmdq[1]
        /\ \A i \in 1 .. Len(cmdq) - 1 : cmdq'[i] = cmdq[i + 1]
    BY <1>0, SeqTail DEF TypeOK
  <1>2. \A r : InCmds(r)' => InCmds(r)
    BY <1>0, CmdsPopped
  <1>3. ASSUME NEW r, InCmds(r), r # c PROVE InCmds(r)'
    <2>1. PICK i \in 1 .. Len(cmdq) : cmdq[i].kind = "route" /\ cmdq[i].req = r
      BY <1>3 DEF InCmds
    <2>2. i # 1
      BY <1>1, <1>3, <2>1
    <2>3. i - 1 \in 1 .. Len(cmdq) - 1 /\ (i - 1) + 1 = i
      BY <1>1, <2>1, <2>2
    <2>4. cmdq'[i - 1] = cmdq[i] /\ i - 1 \in 1 .. Len(cmdq')
      BY <1>1, <2>3
    <2>. QED  BY <2>1, <2>4 DEF InCmds
  <1>. QED  BY <1>0, <1>2, <1>3

\* Sending a command adds its call, if it has one.
LEMMA Pushed ==
  ASSUME TypeOK, NEW c \in Cmds, cmdq' = Append(cmdq, c)
  PROVE  \A r : InCmds(r)' <=> InCmds(r) \/ (c.kind = "route" /\ c.req = r)
  <1>1. /\ Len(cmdq) \in Nat /\ Len(cmdq') = Len(cmdq) + 1 /\ cmdq'[Len(cmdq) + 1] = c
        /\ \A i \in 1 .. Len(cmdq) : cmdq'[i] = cmdq[i]
    BY SeqAppend DEF TypeOK
  <1>2. \A i \in 1 .. Len(cmdq') : i \in 1 .. Len(cmdq) \/ i = Len(cmdq) + 1
    BY <1>1
  <1>3. \A i \in 1 .. Len(cmdq) : i \in 1 .. Len(cmdq')
    BY <1>1
  <1>4. Len(cmdq) + 1 \in 1 .. Len(cmdq')
    BY <1>1
  <1>. QED  BY <1>1, <1>2, <1>3, <1>4 DEF InCmds

\* The route queue loses its head or gains a tail.
LEMMA QueuePopped ==
  ASSUME TypeOK, QueuesShape, routeQueue # <<>>, routeQueue' = Tail(routeQueue), cmdq' = cmdq,
         NEW h, h = Head(routeQueue)
  PROVE  \A r : InQueue(r)' <=> InQueue(r) /\ r # h
  <1>1. /\ Len(routeQueue) \in Nat /\ Len(routeQueue) > 0 /\ Len(routeQueue') = Len(routeQueue) - 1
        /\ Head(routeQueue) = routeQueue[1]
        /\ \A i \in 1 .. Len(routeQueue) - 1 : routeQueue'[i] = routeQueue[i + 1]
    BY SeqTail DEF TypeOK
  <1>2. ASSUME NEW r, InQueue(r)' PROVE InQueue(r) /\ r # h
    <2>1. PICK i \in 1 .. Len(routeQueue') : routeQueue'[i] = r
      BY <1>2 DEF InQueue
    <2>2. i + 1 \in 1 .. Len(routeQueue) /\ routeQueue[i + 1] = r
      BY <1>1, <2>1
    <2>3. ~InQueue(h)'
      BY HeadOfQueue DEF Queued
    <2>. QED  BY <1>2, <2>2, <2>3 DEF InQueue
  <1>3. ASSUME NEW r, InQueue(r), r # h PROVE InQueue(r)'
    <2>1. PICK i \in 1 .. Len(routeQueue) : routeQueue[i] = r
      BY <1>3 DEF InQueue
    <2>2. i # 1
      BY <1>1, <1>3, <2>1
    <2>3. i - 1 \in 1 .. Len(routeQueue) - 1 /\ (i - 1) + 1 = i
      BY <1>1, <2>1, <2>2
    <2>4. routeQueue'[i - 1] = r /\ i - 1 \in 1 .. Len(routeQueue')
      BY <1>1, <2>1, <2>3
    <2>. QED  BY <2>4 DEF InQueue
  <1>. QED  BY <1>2, <1>3

LEMMA QueuePushed ==
  ASSUME TypeOK, NEW c \in Requests, routeQueue' = Append(routeQueue, c)
  PROVE  \A r : InQueue(r)' <=> InQueue(r) \/ r = c
  <1>1. /\ Len(routeQueue) \in Nat /\ Len(routeQueue') = Len(routeQueue) + 1
        /\ routeQueue'[Len(routeQueue) + 1] = c
        /\ \A i \in 1 .. Len(routeQueue) : routeQueue'[i] = routeQueue[i]
    BY SeqAppend DEF TypeOK
  <1>2. \A i \in 1 .. Len(routeQueue') : i \in 1 .. Len(routeQueue) \/ i = Len(routeQueue) + 1
    BY <1>1
  <1>3. \A i \in 1 .. Len(routeQueue) : i \in 1 .. Len(routeQueue')
    BY <1>1
  <1>4. Len(routeQueue) + 1 \in 1 .. Len(routeQueue')
    BY <1>1
  <1>. QED  BY <1>1, <1>2, <1>3, <1>4 DEF InQueue

-----------------------------------------------------------------------------
(* The steps.                                                              *)

\* A step that moves and answers nobody.
LEMMA NobodyMoves ==
  ASSUME CallersInv, UNCHANGED <<reply, routeQueue, flight, cur>>,
         \A r : InCmds(r)' <=> InCmds(r)
  PROVE  CallersInv'
  <1>1. \A r : InQueue(r)' <=> InQueue(r)
    BY DEF InQueue
  <1>2. Accounted'
    BY <1>1 DEF CallersInv, Accounted, Held, InHand
  <1>. QED  BY <1>2 DEF CallersInv

\* The same with the command channel untouched.
LEMMA NobodyMovesAtAll ==
  ASSUME CallersInv, UNCHANGED <<reply, routeQueue, flight, cur, cmdq>>
  PROVE  CallersInv'
  <1>1. \A r : InCmds(r)' <=> InCmds(r)
    BY DEF InCmds
  <1>. QED  BY <1>1, NobodyMoves

\* Commands other than routes.
LEMMA OtherCommand ==
  ASSUME TypeOK, NEW kind \in {"start", "end", "timer"}, NextCmd(kind)
  PROVE  \A r : InCmds(r)' <=> InCmds(r)
  BY PoppedOther DEF NextCmd

\* The inputs: only a submitted call joins, and it starts to wait.
LEMMA EnvironmentCallers ==
  ASSUME IInv, CallersInv, Environment
  PROVE  CallersInv'
  <1>0. TypeOK
    BY DEF IInv
  <1>1. ASSUME NEW r \in Requests, Submit(r) PROVE CallersInv'
    <2>1. UNCHANGED <<routeQueue, flight, cur, sent>>
      BY <1>1 DEF Submit, session, history
    <2>2. \A q : InQueue(q)' <=> InQueue(q)
      BY <2>1 DEF InQueue
    <2>3. reply[r] = "none" /\ ~Held(r)
      BY <1>1 DEF Submit, CallersInv, Accounted
    <2>4. CASE active
      <3>1. cmdq' = Append(cmdq, [kind |-> "route", req |-> r])
        BY <1>1, <2>4 DEF Submit
      <3>2. [kind |-> "route", req |-> r] \in Cmds
        BY DEF Cmds
      <3>3. \A q : InCmds(q)' <=> InCmds(q) \/ q = r
        BY <1>0, <3>1, <3>2, Pushed
      <3>4. \A q \in Requests : reply'[q] = IF q = r THEN "pending" ELSE reply[q]
        BY <1>0, <1>1, <2>4 DEF Submit, TypeOK
      <3>5. Accounted'
        BY <2>1, <2>2, <3>3, <3>4 DEF CallersInv, Accounted, Held, InHand
      <3>. QED  BY <2>1, <3>5 DEF CallersInv
    <2>5. CASE ~active
      <3>1. cmdq' = cmdq /\ reply' = [reply EXCEPT ![r] = "no_session"]
        BY <1>1, <2>5 DEF Submit
      <3>2. \A q : InCmds(q)' <=> InCmds(q)
        BY <3>1 DEF InCmds
      <3>3. \A q \in Requests : reply'[q] = IF q = r THEN "no_session" ELSE reply[q]
        BY <1>0, <3>1 DEF TypeOK
      <3>4. Accounted'
        BY <2>1, <2>2, <2>3, <3>2, <3>3 DEF CallersInv, Accounted, Held, InHand
      <3>. QED  BY <2>1, <3>4 DEF CallersInv
    <2>. QED  BY <2>4, <2>5
  <1>2. ASSUME NEW kind \in {"start", "end"}, AskSession(kind) PROVE CallersInv'
    <2>1. [kind |-> kind] \in Cmds /\ [kind |-> kind].kind # "route"
      BY <1>2 DEF Cmds
    <2>2. \A q : InCmds(q)' <=> InCmds(q)
      BY <1>0, <1>2, <2>1, Pushed DEF AskSession
    <2>. QED  BY <1>2, <2>2, NobodyMoves DEF AskSession, session, history
  <1>3. ASSUME NEW e \in Epochs, Pump(e) PROVE CallersInv'
    <2>. DEFINE c == [kind |-> "timer", ev |-> Head(pump[e]), of |-> e]
    <2>1. Head(pump[e]) \in TimerEvents
      BY <1>0, <1>3, SeqTail DEF Pump, TypeOK
    <2>2. c \in Cmds /\ c.kind # "route"
      BY <2>1 DEF Cmds
    <2>3. cmdq' = Append(cmdq, c)
      BY <1>3 DEF Pump
    <2>. HIDE DEF c
    <2>4. \A q : InCmds(q)' <=> InCmds(q)
      BY <1>0, <2>2, <2>3, Pushed
    <2>. QED  BY <1>3, <2>4, NobodyMoves DEF Pump, session, history
  <1>4. ASSUME NEW ev \in TimerEvents, WatchdogFires(ev) PROVE CallersInv'
    BY <1>4, NobodyMovesAtAll DEF WatchdogFires, session, history
  <1>5. ASSUME NEW m \in PhoneMsgs, PhoneSends(m) PROVE CallersInv'
    BY <1>5, NobodyMovesAtAll DEF PhoneSends, session
  <1>6. CASE LinkDrops
    BY <1>6, NobodyMovesAtAll DEF LinkDrops, session, history
  <1>. QED  BY <1>1, <1>2, <1>3, <1>4, <1>5, <1>6 DEF Environment

\* start_route on a call just taken from a queue: it is refused, or in hand.
LEMMA StartRouteCallers ==
  ASSUME IInv, CallersInv, NEW r \in Requests, StartRoute(r), cur = NoReq, ~InHand(r),
         \A q : InCmds(q)' \/ InQueue(q)' <=> (InCmds(q) \/ InQueue(q)) /\ q # r,
         reply[r] = "pending", flight' = flight
  PROVE  CallersInv'
  <1>0. TypeOK
    BY DEF IInv
  <1>1. \A q \in Requests : q # NoReq
    BY Apart
  <1>2. CASE cur' = cur /\ reply' = [reply EXCEPT ![r] = "internal"]
    <2>1. \A q \in Requests : reply'[q] = IF q = r THEN "internal" ELSE reply[q]
      BY <1>0, <1>2 DEF TypeOK
    <2>2. Accounted'
      BY <1>2, <2>1 DEF CallersInv, Accounted, Held, InHand
    <2>. QED  BY <1>2, <2>2 DEF CallersInv
  <1>3. CASE cur' = r /\ reply' = reply
    <2>1. Accounted'
      BY <1>1, <1>3 DEF CallersInv, Accounted, Held, InHand
    <2>. QED  BY <1>3, <2>1 DEF CallersInv, InHand
  <1>. QED  BY <1>2, <1>3 DEF StartRoute

\* The commands: a routed call is refused, queued or started.
LEMMA CommandsCallers ==
  ASSUME IInv, CallersInv, Commands
  PROVE  CallersInv'
  <1>0. TypeOK /\ SlotShape /\ QueuesShape
    BY DEF IInv
  <1>1. CASE OnStart
    <2>1. \A q : InCmds(q)' <=> InCmds(q)
      BY <1>0, <1>1, OtherCommand DEF OnStart
    <2>. QED  BY <1>1, <2>1, NobodyMoves DEF OnStart, session, history
  <1>2. ASSUME OnEnd \/ OnTimer PROVE CallersInv'
    <2>1. \A q : InCmds(q)' <=> InCmds(q)
      BY <1>0, <1>2, OtherCommand DEF OnEnd, OnTimer
    <2>2. UNCHANGED <<reply, routeQueue, flight, cur>>
      BY <1>2 DEF OnEnd, OnTimer, Teardown, session
    <2>. QED  BY <2>1, <2>2, NobodyMoves
  <1>3. CASE OnRoute
    <2>1. PICK r : r = Head(cmdq).req
      OBVIOUS
    <2>2. NextCmd("route") /\ flight' = flight /\ pc = "select" /\ cur = NoReq
      BY <1>0, <1>3 DEF OnRoute, NextCmd, SlotShape, Ending
    <2>3. /\ r \in Requests /\ reply[r] = "pending" /\ r \notin thisLife
          /\ ~InCmds(r)' /\ ~InQueue(r)
      BY <1>0, <2>1, <2>2, HeadOfCmds DEF Unstarted
    <2>4. \A q : InCmds(q)' <=> InCmds(q) /\ q # r
      BY <1>0, <2>1, <2>2, PoppedRoute
    <2>5. ~InHand(r)
      BY <2>3, Apart
    <2>7. ASSUME NEW a, a # "pending", reply' = [reply EXCEPT ![r] = a],
                 UNCHANGED <<cur, routeQueue>>
          PROVE  CallersInv'
      <3>1. \A q \in Requests : reply'[q] = IF q = r THEN a ELSE reply[q]
        BY <1>0, <2>7 DEF TypeOK
      <3>2. \A q : InQueue(q)' <=> InQueue(q)
        BY <2>7 DEF InQueue
      <3>3. Accounted'
        BY <2>2, <2>3, <2>4, <2>5, <2>7, <3>1, <3>2 DEF CallersInv, Accounted, Held, InHand
      <3>. QED  BY <2>2, <2>7, <3>3 DEF CallersInv
    <2>8. ASSUME routeQueue' = Append(routeQueue, r), UNCHANGED <<cur, reply>>
          PROVE  CallersInv'
      <3>1. \A q : InQueue(q)' <=> InQueue(q) \/ q = r
        BY <1>0, <2>3, <2>8, QueuePushed
      <3>2. Accounted'
        BY <2>2, <2>3, <2>4, <2>5, <2>8, <3>1 DEF CallersInv, Accounted, Held, InHand
      <3>. QED  BY <2>2, <2>8, <3>2 DEF CallersInv
    <2>9. ASSUME StartRoute(r), routeQueue' = routeQueue PROVE CallersInv'
      <3>1. \A q : InQueue(q)' <=> InQueue(q)
        BY <2>9 DEF InQueue
      <3>2. \A q : InCmds(q)' \/ InQueue(q)' <=> (InCmds(q) \/ InQueue(q)) /\ q # r
        BY <2>3, <2>4, <3>1
      <3>. QED  BY <2>2, <2>3, <2>5, <2>9, <3>2, StartRouteCallers
    <2>. QED  BY <1>3, <2>1, <2>7, <2>8, <2>9 DEF OnRoute
  <1>. QED  BY <1>1, <1>2, <1>3 DEF Commands

\* The flight is answered and taken out of the slot.
LEMMA FlightAnswered ==
  ASSUME IInv, CallersInv, flight # NoFlight, NEW a, a # "pending",
         reply' = [reply EXCEPT ![flight.req] = a], flight' = NoFlight,
         UNCHANGED <<cur, routeQueue, cmdq>>
  PROVE  CallersInv'
  <1>0. TypeOK
    BY DEF IInv
  <1>1. PICK f : f = flight.req
    OBVIOUS
  <1>2. \A q \in Requests : reply'[q] = IF q = f THEN a ELSE reply[q]
    BY <1>0, <1>1 DEF TypeOK
  <1>3. \A q : (InQueue(q)' <=> InQueue(q)) /\ (InCmds(q)' <=> InCmds(q))
    BY DEF InQueue, InCmds
  <1>4. flight'.req = NoReq /\ \A q \in Requests : q # NoReq
    BY Apart DEF NoFlight
  <1>5. f \in Requests => ~InQueue(f) /\ ~InCmds(f) /\ cur # f
    BY <1>1, Apart DEF Queued, InHand
  <1>6. Accounted'
    <2>1. ASSUME NEW q \in Requests PROVE reply'[q] = "pending" <=> Held(q)'
      <3>1. Held(q)' <=> InCmds(q) \/ InQueue(q) \/ q = cur
        BY <1>3, <1>4 DEF Held, InHand
      <3>2. reply[q] = "pending" <=> InCmds(q) \/ InQueue(q) \/ q = f \/ q = cur
        BY <1>1, <1>4 DEF CallersInv, Accounted, Held, InHand
      <3>. QED  BY <1>2, <1>5, <3>1, <3>2
    <2>. QED  BY <2>1 DEF Accounted
  <1>. QED  BY <1>4, <1>6 DEF CallersInv

\* Messages of the phone and the loss of the link.
LEMMA InboundCallers ==
  ASSUME IInv, CallersInv, Inbound
  PROVE  CallersInv'
  <1>0. TypeOK /\ SlotShape
    BY DEF IInv
  <1>1. CASE OnLinkError \/ OnTerminalMessage \/ OnPing
    <2>1. UNCHANGED <<reply, routeQueue, flight, cur, cmdq>>
      BY <1>1 DEF OnLinkError, OnTerminalMessage, OnPing, Teardown
    <2>. QED  BY <2>1, NobodyMovesAtAll
  <1>2. CASE OnUnsolicited
    BY <1>2, NobodyMovesAtAll DEF OnUnsolicited, session, history
  <1>3. ASSUME NEW stage \in Stages, NEW kind, NextMsg(kind), Completes(stage)
        PROVE  /\ cur = NoReq /\ flight # NoFlight /\ flight.req = Head(inbox).req
    BY <1>0, <1>3, CompletesFlight DEF SlotShape, Ending
  <1>4. CASE OnApprovalRefused
    <2>1. /\ cur = NoReq /\ flight # NoFlight /\ flight.req = Head(inbox).req
          /\ flight' = NoFlight /\ UNCHANGED <<cur, routeQueue, cmdq>>
      BY <1>3, <1>4 DEF OnApprovalRefused, Stages
    <2>2. \E a \in {"sig_invalid", "denied", "timeout"} :
            reply' = [reply EXCEPT ![flight.req] = a]
      BY <1>4, <2>1 DEF OnApprovalRefused
    <2>. QED  BY <2>1, <2>2, FlightAnswered
  <1>5. CASE OnApprovalGranted
    <2>1. /\ cur = NoReq /\ flight # NoFlight
          /\ flight' = NoFlight /\ cur' = flight.req
          /\ UNCHANGED <<routeQueue, cmdq, reply>>
      BY <1>3, <1>5 DEF OnApprovalGranted, Stages
    <2>2. \A q : (InQueue(q)' <=> InQueue(q)) /\ (InCmds(q)' <=> InCmds(q))
      BY <2>1 DEF InQueue, InCmds
    <2>3. flight'.req = NoReq /\ \A q \in Requests : q # NoReq
      BY <2>1, Apart DEF NoFlight
    <2>4. Accounted'
      BY <2>1, <2>2, <2>3 DEF CallersInv, Accounted, Held, InHand
    <2>. QED  BY <2>3, <2>4 DEF CallersInv
  <1>6. CASE OnExecuteResponse
    <2>1. /\ cur = NoReq /\ flight # NoFlight
          /\ flight' = NoFlight /\ UNCHANGED <<cur, routeQueue, cmdq>>
      BY <1>3, <1>6 DEF OnExecuteResponse, Stages
    <2>2. \E a \in {"sig_invalid", "body"} : reply' = [reply EXCEPT ![flight.req] = a]
      BY <1>6 DEF OnExecuteResponse
    <2>. QED  BY <2>1, <2>2, FlightAnswered
  <1>7. CASE OnServicesResponse
    <2>1. /\ cur = NoReq /\ flight # NoFlight
          /\ flight' = NoFlight /\ UNCHANGED <<cur, routeQueue, cmdq>>
          /\ reply' = [reply EXCEPT ![flight.req] = "services"]
      BY <1>3, <1>7 DEF OnServicesResponse, Stages
    <2>. QED  BY <2>1, FlightAnswered
  <1>. QED  BY <1>1, <1>2, <1>4, <1>5, <1>6, <1>7 DEF Inbound

\* The steps a handler takes on its own.
LEMMA ContinueCallers ==
  ASSUME IInv, CallersInv, Continue
  PROVE  CallersInv'
  <1>0. TypeOK /\ SlotShape /\ QueuesShape /\ PipelineShape
    BY DEF IInv
  <1>a. /\ \A q \in Requests : q # NoReq
        /\ flight = NoFlight <=> flight.req = NoReq
        /\ cur \in Requests \cup {NoReq} /\ flight.req \in Requests \cup {NoReq}
    BY Apart
  <1>1. CASE DialSucceeds
    <2>1. flight = NoFlight /\ routeQueue = <<>>
      BY <1>0, <1>1 DEF DialSucceeds, SlotShape
    <2>. QED  BY <1>1, <2>1, NobodyMovesAtAll DEF DialSucceeds, history
  <1>2. CASE DialFails
    BY <1>2, NobodyMovesAtAll DEF DialFails, session, channels, history
  <1>3. CASE Drain
    <2>1. cur = NoReq /\ UNCHANGED <<flight, cmdq>>
      BY <1>0, <1>3 DEF Drain, SlotShape, Ending
    <2>2. CASE routeQueue = <<>>
      BY <1>3, <2>1, <2>2, NobodyMovesAtAll DEF Drain
    <2>3. CASE routeQueue # <<>>
      <3>1. PICK r : r = Head(routeQueue)
        OBVIOUS
      <3>2. StartRoute(r) /\ routeQueue' = Tail(routeQueue)
        BY <1>3, <2>3, <3>1 DEF Drain
      <3>3. r \in Requests /\ reply[r] = "pending" /\ r \notin thisLife /\ ~Queued(r)'
        BY <1>0, <2>1, <2>3, <3>1, <3>2, HeadOfQueue DEF Unstarted
      <3>4. \A q : InQueue(q)' <=> InQueue(q) /\ q # r
        BY <1>0, <2>1, <2>3, <3>1, <3>2, QueuePopped
      <3>5. \A q : InCmds(q)' <=> InCmds(q)
        BY <2>1 DEF InCmds
      <3>6. \A q : InCmds(q)' \/ InQueue(q)' <=> (InCmds(q) \/ InQueue(q)) /\ q # r
        BY <3>3, <3>4, <3>5 DEF Queued
      <3>7. ~InHand(r)
        BY <3>3, Apart
      <3>. QED  BY <2>1, <3>2, <3>3, <3>6, <3>7, StartRouteCallers
    <2>. QED  BY <2>2, <2>3
  <1>4. CASE RouteSendFails \/ ExecuteSendFails
    <2>1. UNCHANGED <<reply, routeQueue, flight, cur, cmdq>>
      BY <1>4 DEF RouteSendFails, ExecuteSendFails, Teardown
    <2>. QED  BY <2>1, NobodyMovesAtAll
  <1>5. CASE RouteSent
    <2>1. PICK c : c = cur
      OBVIOUS
    <2>2. PICK f : f = flight.req
      OBVIOUS
    <2>3. /\ c \in Requests /\ cur' = NoReq /\ flight' = [stage |-> RouteStage(c), req |-> c]
          /\ UNCHANGED <<cmdq, routeQueue>> /\ reply' = Answer({f} \ {NoReq}, "lost")
          /\ Send(c, FirstRow(c))
      BY <1>0, <1>a, <1>5, <2>1, <2>2 DEF RouteSent, SlotShape
    <2>4. \A q : (InQueue(q)' <=> InQueue(q)) /\ (InCmds(q)' <=> InCmds(q))
      BY <2>3 DEF InQueue, InCmds
    <2>5. c # f
      BY <2>1, <2>2, <2>3, Apart
    <2>6. \A q \in Requests : reply'[q] = IF q = f THEN "lost" ELSE reply[q]
      BY <1>a, <2>2, <2>3 DEF Answer
    <2>7. f \in Requests => ~InQueue(f) /\ ~InCmds(f)
      BY <2>2, Apart DEF Queued, InHand
    <2>8. Accounted'
      <3>1. ASSUME NEW q \in Requests PROVE reply'[q] = "pending" <=> Held(q)'
        <4>1. Held(q)' <=> InCmds(q) \/ InQueue(q) \/ q = c
          BY <1>a, <2>3, <2>4 DEF Held, InHand
        <4>2. reply[q] = "pending" <=> InCmds(q) \/ InQueue(q) \/ q = f \/ q = c
          BY <2>1, <2>2 DEF CallersInv, Accounted, Held, InHand
        <4>. QED  BY <2>5, <2>6, <2>7, <4>1, <4>2
      <3>. QED  BY <3>1 DEF Accounted
    <2>. QED  BY <2>3, <2>8 DEF CallersInv
  <1>6. CASE BindExecute
    <2>1. cur \notin consumed
      BY <1>0, <1>6 DEF BindExecute, PipelineShape
    <2>. QED  BY <1>6, <2>1, NobodyMovesAtAll DEF BindExecute, channels, history
  <1>7. CASE ExecuteSent
    <2>1. PICK c : c = cur
      OBVIOUS
    <2>2. /\ c \in Requests /\ cur' = NoReq /\ flight = NoFlight
          /\ flight' = [stage |-> "execute", req |-> c]
          /\ UNCHANGED <<cmdq, routeQueue, reply>>
      BY <1>0, <1>a, <1>7, <2>1 DEF ExecuteSent, SlotShape
    <2>3. \A q : (InQueue(q)' <=> InQueue(q)) /\ (InCmds(q)' <=> InCmds(q))
      BY <2>2 DEF InQueue, InCmds
    <2>4. Accounted'
      BY <1>a, <2>1, <2>2, <2>3 DEF CallersInv, Accounted, Held, InHand
    <2>. QED  BY <2>2, <2>4 DEF CallersInv
  <1>8. CASE AnswerWaiter
    <2>1. UNCHANGED <<cur, cmdq>>
      BY <1>8 DEF AnswerWaiter, channels
    <2>2. CASE /\ flight # NoFlight /\ flight' = NoFlight /\ routeQueue' = routeQueue
               /\ reply' = [reply EXCEPT ![flight.req] = "session_ended"]
      BY <2>1, <2>2, FlightAnswered
    <2>3. CASE /\ routeQueue # <<>> /\ flight' = flight /\ routeQueue' = Tail(routeQueue)
               /\ reply' = [reply EXCEPT ![Head(routeQueue)] = "session_ended"]
      <3>1. PICK h : h = Head(routeQueue)
        OBVIOUS
      <3>2. \A q : (InQueue(q)' <=> InQueue(q) /\ q # h) /\ (InCmds(q)' <=> InCmds(q))
        BY <1>0, <2>1, <2>3, <3>1, QueuePopped DEF InCmds
      <3>3. h \in Requests /\ InQueue(h)
        BY <1>0, <2>3, <3>1, SeqTail DEF TypeOK, InQueue
      <3>4. ~InCmds(h) /\ ~InHand(h)
        BY <3>3, Apart DEF Queued
      <3>5. \A q \in Requests : reply'[q] = IF q = h THEN "session_ended" ELSE reply[q]
        BY <1>0, <2>3, <3>1 DEF TypeOK
      <3>6. Accounted'
        BY <2>1, <2>3, <3>2, <3>4, <3>5 DEF CallersInv, Accounted, Held, InHand
      <3>. QED  BY <2>1, <2>3, <3>6 DEF CallersInv
    <2>4. CASE UNCHANGED <<reply, flight, routeQueue>>
      BY <2>1, <2>4, NobodyMovesAtAll
    <2>. QED  BY <1>8, <2>2, <2>3, <2>4 DEF AnswerWaiter
  <1>9. CASE LogEnd \/ Publish
    BY <1>9, NobodyMovesAtAll DEF LogEnd, Publish, session, channels
  <1>10. CASE Leave
    <2>1. /\ reply' = Answer({cur} \ {NoReq}, "session_ended") /\ cur' = NoReq
          /\ UNCHANGED <<flight, routeQueue, cmdq>>
      BY <1>10 DEF Leave, channels
    <2>2. \A q : (InQueue(q)' <=> InQueue(q)) /\ (InCmds(q)' <=> InCmds(q))
      BY <2>1 DEF InQueue, InCmds
    <2>3. \A q \in Requests : reply'[q] = IF q = cur THEN "session_ended" ELSE reply[q]
      BY <1>a, <2>1 DEF Answer
    <2>4. cur \in Requests => ~InQueue(cur) /\ ~InCmds(cur) /\ flight.req # cur
      BY Apart DEF Queued, InHand
    <2>5. Accounted'
      BY <1>a, <2>1, <2>2, <2>3, <2>4 DEF CallersInv, Accounted, Held, InHand
    <2>. QED  BY <2>1, <2>5 DEF CallersInv
  <1>. QED  BY <1>1, <1>2, <1>3, <1>4, <1>5, <1>6, <1>7, <1>8, <1>9, <1>10 DEF Continue

\* A deadline, a death and a restart.
LEMMA ProcessCallers ==
  ASSUME IInv, CallersInv, Process \/ RouteTimesOut \/ UNCHANGED vars
  PROVE  CallersInv'
  <1>0. TypeOK /\ SlotShape
    BY DEF IInv
  <1>1. CASE RouteTimesOut
    <2>1. /\ cur = NoReq /\ flight # NoFlight
          /\ flight' = NoFlight /\ UNCHANGED <<cur, routeQueue, cmdq>>
      BY <1>0, <1>1 DEF RouteTimesOut, SlotShape, Ending, channels
    <2>2. \E a \in {"internal", "timeout"} : reply' = [reply EXCEPT ![flight.req] = a]
      BY <1>1 DEF RouteTimesOut
    <2>. QED  BY <2>1, <2>2, FlightAnswered
  <1>2. CASE Crash
    <2>1. /\ cur' = NoReq /\ flight' = NoFlight /\ routeQueue' = <<>> /\ cmdq' = <<>>
          /\ reply' = Answer({r \in Requests : reply[r] = "pending"}, "lost")
      BY <1>2 DEF Crash
    <2>2. \A q : ~InQueue(q)' /\ ~InCmds(q)'
      BY <2>1 DEF InQueue, InCmds
    <2>3. \A q \in Requests : reply'[q] # "pending"
      BY <2>1 DEF Answer
    <2>4. flight'.req = NoReq /\ \A q \in Requests : q # NoReq
      BY <2>1, Apart DEF NoFlight
    <2>5. Accounted'
      BY <2>1, <2>2, <2>3, <2>4 DEF Accounted, Held, InHand
    <2>. QED  BY <2>1, <2>5 DEF CallersInv
  <1>3. CASE Launch \/ LaunchFails
    BY <1>3, NobodyMovesAtAll DEF Launch, LaunchFails, session, channels
  <1>4. ASSUME NEW r \in Requests, SweepOne(r) PROVE CallersInv'
    BY <1>4, NobodyMovesAtAll DEF SweepOne, session, channels
  <1>5. CASE SweepDone
    BY <1>5, NobodyMovesAtAll DEF SweepDone, TakesOver, session, channels
  <1>6. CASE UNCHANGED vars
    BY <1>6, NobodyMovesAtAll DEF vars, session, channels, history
  <1>. QED  BY <1>1, <1>2, <1>3, <1>4, <1>5, <1>6 DEF Process

\* Nobody is forgotten in a queue, in the slot or in a half-done handler, and
\* nobody is answered twice: the waiting callers are exactly those the owner
\* holds, whatever the phone, the radio, the timers and crashes do, also while
\* a session is being torn down.
THEOREM NoCallerForgotten == Spec => []CallersAccountedFor
  <1>1. Init => CallersInv
    <2>. SUFFICES ASSUME Init PROVE CallersInv
      OBVIOUS
    <2>1. \A r \in Requests : r # NoReq
      BY RequestsAssumption
    <2>2. \A r \in Requests : ~InCmds(r) /\ ~InQueue(r)
      BY DEF Init, InCmds, InQueue
    <2>. QED  BY <2>1, <2>2 DEF Init, CallersInv, Accounted, Held, InHand, NoFlight
  <1>2. IInv /\ CallersInv /\ [Next]_vars => CallersInv'
    BY EnvironmentCallers, CommandsCallers, InboundCallers, ContinueCallers, ProcessCallers
       DEF Next
  <1>3. IInv /\ CallersInv => CallersAccountedFor
    BY AccountedIsProperty DEF IInv, CallersInv
  <1>. QED  BY <1>1, <1>2, <1>3, InductiveInvariant, PTL DEF Spec

-----------------------------------------------------------------------------
(* What callers are told and what the log says.                            *)

Backed(r) ==
  /\ reply[r] = "denied" => HasRow(trail[r], "approval_denied") \/ r \in unlogged
  /\ reply[r] = "body" =>
       r \in resultBy /\ (HasRow(trail[r], "execute_result") \/ r \in unlogged)

\* The two answers the log must back are given in the step that writes the row,
\* the body for a result the phone signed; no other step gives either.
LEMMA OneAnswer ==
  ASSUME IInv, [Next]_vars, NEW r \in Requests
  PROVE  /\ resultBy \subseteq resultBy'
         /\ \/ reply'[r] = reply[r]
            \/ reply'[r] \notin {"denied", "body"}
            \/ reply'[r] = "denied" /\ Log(r, "approval_denied")
            \/ reply'[r] = "body" /\ Log(r, "execute_result") /\ r \in resultBy
  <1>0. TypeOK /\ InboxShape
    BY DEF IInv
  <1>r. reply \in [Requests -> Answers \cup {"none", "pending"}]
    BY <1>0 DEF TypeOK
  <1>1. CASE Environment
    BY <1>r, <1>1 DEF Environment, Submit, AskSession, WatchdogFires, Pump, PhoneSends,
                LinkDrops, history, others
  <1>t. ASSUME NEW keep, Teardown(keep) PROVE reply' = reply
    BY <1>t DEF Teardown
  <1>2. CASE OnStart \/ OnEnd \/ OnTimer
    BY <1>2, <1>t DEF OnStart, OnEnd, OnTimer, history, others
  <1>s. ASSUME NEW q, StartRoute(q) PROVE reply'[r] \in {reply[r], "internal"}
    BY <1>r, <1>s DEF StartRoute
  <1>3. CASE OnRoute \/ Drain
    BY <1>r, <1>3, <1>s DEF OnRoute, Drain, others
  <1>4. CASE OnLinkError \/ OnTerminalMessage \/ OnPing \/ OnUnsolicited \/ OnApprovalGranted
    BY <1>4, <1>t DEF OnLinkError, OnTerminalMessage, OnPing, OnUnsolicited,
       OnApprovalGranted, history, others
  <1>5. CASE OnApprovalRefused
    <2>1. PICK m : m = Head(inbox)
      OBVIOUS
    <2>2. \/ reply' = [reply EXCEPT ![m.req] = "sig_invalid"]
          \/ /\ Log(m.req, "approval_denied")
             /\ \/ reply' = [reply EXCEPT ![m.req] = "denied"]
                \/ reply' = [reply EXCEPT ![m.req] = "timeout"]
      BY <1>5, <2>1 DEF OnApprovalRefused
    <2>3. resultBy' = resultBy
      BY <1>5 DEF OnApprovalRefused, history, others
    <2>4. CASE m.req = r
      BY <1>r, <2>2, <2>3, <2>4
    <2>5. CASE m.req # r
      BY <1>r, <2>2, <2>3, <2>5
    <2>. QED  BY <2>4, <2>5
  <1>6. CASE OnExecuteResponse
    <2>1. PICK f : f = flight.req
      OBVIOUS
    <2>2. /\ f = Head(inbox).req /\ inbox # <<>> /\ Head(inbox).kind = "execute_response"
          /\ resultBy' = resultBy
      BY <1>6, <2>1, CompletesFlight DEF OnExecuteResponse, Stages, NextMsg, history, others
    <2>3. Head(inbox).sig => f \in resultBy
      <3>1. Head(inbox) = inbox[1] /\ 1 \in 1 .. Len(inbox)
        BY <1>0, <2>2, SeqTail DEF TypeOK
      <3>. QED  BY <1>0, <2>2, <3>1 DEF InboxShape
    <2>4. \/ reply' = [reply EXCEPT ![f] = "sig_invalid"]
          \/ /\ Head(inbox).sig /\ Log(f, "execute_result")
             /\ reply' = [reply EXCEPT ![f] = "body"]
      BY <1>6, <2>1 DEF OnExecuteResponse
    <2>5. CASE f = r
      BY <1>r, <2>2, <2>3, <2>4, <2>5
    <2>6. CASE f # r
      BY <1>r, <2>2, <2>4, <2>6
    <2>. QED  BY <2>5, <2>6
  <1>7. CASE OnServicesResponse \/ RouteTimesOut
    BY <1>r, <1>7 DEF OnServicesResponse, RouteTimesOut, history, others
  <1>8. CASE DialSucceeds \/ DialFails \/ BindExecute \/ ExecuteSent
    BY <1>r, <1>8 DEF DialSucceeds, DialFails, BindExecute, ExecuteSent, history, others
  <1>9. CASE RouteSent
    BY <1>9 DEF RouteSent, Answer, others
  <1>10. CASE RouteSendFails \/ ExecuteSendFails
    BY <1>10, <1>t DEF RouteSendFails, ExecuteSendFails, others
  <1>11. CASE Process \/ UNCHANGED vars
    BY <1>11 DEF Process, Crash, Launch, SweepOne, LaunchFails, SweepDone, TakesOver,
       Answer, vars, history, others
  <1>12. CASE AnswerWaiter \/ LogEnd \/ Publish \/ Leave
    BY <1>r, <1>12 DEF AnswerWaiter, LogEnd, Publish, Leave, Answer, history, others
  <1>. QED  BY <1>1, <1>2, <1>3, <1>4, <1>5, <1>6, <1>7, <1>8, <1>9, <1>10, <1>11, <1>12
            DEF Next, Commands, Inbound, Continue

\* Rows stay: no step removes one (LogDb::append is the only writer).
LEMMA RowsStay ==
  ASSUME IInv, RecordInv, [Next]_vars, NEW r \in Requests
  PROVE  /\ \A ev : HasRow(trail[r], ev) => HasRow(trail'[r], ev)
         /\ unlogged \subseteq unlogged'
  <1>0. TypeOK /\ RecordShape
    BY DEF IInv, RecordInv
  <1>1. CASE Quiet
    BY <1>1 DEF Quiet
  <1>2. ASSUME NEW q \in Requests, NEW ev \in EventTypes,
               trail'[q] = Append(trail[q], ev),
               \A p \in Requests : p # q => trail'[p] = trail[p]
        PROVE  \A e : HasRow(trail[r], e) => HasRow(trail'[r], e)
    <2>1. trail[q] \in Seq(EventTypes)
      BY <1>0 DEF TypeOK
    <2>2. \A e : HasRow(Append(trail[q], ev), e) <=> (HasRow(trail[q], e) \/ e = ev)
      BY <2>1, Rows
    <2>3. CASE q = r
      BY <1>2, <2>2, <2>3
    <2>4. CASE q # r
      BY <1>2, <2>4
    <2>. QED  BY <2>3, <2>4
  <1>3. ASSUME NEW q \in Requests, NEW ev \in EventTypes, Writes(q, ev)
        PROVE  /\ \A e : HasRow(trail[r], e) => HasRow(trail'[r], e)
               /\ unlogged \subseteq unlogged'
    <2>1. /\ \/ trail'[q] = Append(trail[q], ev) /\ unlogged' = unlogged
             \/ trail' = trail /\ unlogged' = unlogged \cup {q}
          /\ \A p \in Requests : p # q => trail'[p] = trail[p]
      BY <1>0, <1>3, Logged DEF Writes
    <2>. QED  BY <1>2, <2>1
  <1>4. ASSUME NEW q \in Requests, SweepOne(q)
        PROVE  /\ \A e : HasRow(trail[r], e) => HasRow(trail'[r], e)
               /\ unlogged \subseteq unlogged'
    <2>1. /\ trail'[q] = Append(trail[q], "request_timeout") /\ unlogged' = unlogged
          /\ \A p \in Requests : p # q => trail'[p] = trail[p]
          /\ "request_timeout" \in EventTypes
      BY <1>0, <1>4, Swept DEF SweepOne, EventTypes, TerminalEvents
    <2>. QED  BY <1>2, <2>1
  <1>5. CASE Crash \/ Launch \/ LaunchFails \/ SweepDone
    BY <1>5 DEF Crash, Launch, LaunchFails, SweepDone, TakesOver, durable, record
  <1>. QED  BY <1>0, <1>1, <1>3, <1>4, <1>5, OneRow DEF Process

\* A recorded refusal means nothing was sent for execution, a body was signed by
\* the phone, and both outcomes are on record unless an append for the call failed.
THEOREM AnswersMatchTheLog == Spec => []OutcomeMatchesRecord
  <1>. DEFINE AllBacked == \A r \in Requests : Backed(r)
  <1>1. Init => AllBacked
    BY DEF Init, Backed
  <1>2. ASSUME IInv, RecordInv, AllBacked, [Next]_vars PROVE AllBacked'
    <2>. SUFFICES ASSUME NEW r \in Requests PROVE Backed(r)'
      OBVIOUS
    <2>1. Backed(r) /\ resultBy \subseteq resultBy'
      BY <1>2, OneAnswer
    <2>2. /\ \A ev : HasRow(trail[r], ev) => HasRow(trail'[r], ev)
          /\ unlogged \subseteq unlogged'
      BY <1>2, RowsStay
    <2>3. ASSUME NEW ev \in EventTypes, Log(r, ev)
          PROVE  HasRow(trail'[r], ev) \/ r \in unlogged'
      <3>1. trail[r] \in Seq(EventTypes) /\ TypeOK
        BY <1>2 DEF IInv, TypeOK
      <3>2. HasRow(Append(trail[r], ev), ev)
        BY <3>1, Rows
      <3>. QED  BY <2>3, <3>1, <3>2, Logged
    <2>4. CASE reply'[r] = reply[r]
      BY <2>1, <2>2, <2>4 DEF Backed
    <2>5. CASE reply'[r] \notin {"denied", "body"}
      BY <2>5 DEF Backed
    <2>6. CASE reply'[r] = "denied" /\ Log(r, "approval_denied")
      BY <2>3, <2>6 DEF Backed, EventTypes, TerminalEvents
    <2>7. CASE reply'[r] = "body" /\ Log(r, "execute_result") /\ r \in resultBy
      BY <2>1, <2>3, <2>7 DEF Backed, EventTypes, TerminalEvents
    <2>. QED  BY <1>2, <2>4, <2>5, <2>6, <2>7, OneAnswer
  <1>3. ASSUME IInv, AllBacked PROVE OutcomeMatchesRecord
    <2>1. \A r \in Requests : HasRow(trail[r], "approval_denied") => NoExecute(r)
      BY <1>3 DEF IInv, TrailShape, Refused
    <2>2. \A r \in Requests : NoExecute(r) =>
            \A e \in Epochs : ~SentIn(r, "execute_request", e)
      BY DEF NoExecute, SentIn
    <2>. QED  BY <1>3, <2>1, <2>2 DEF OutcomeMatchesRecord, Backed
  <1>. HIDE DEF AllBacked
  <1>4. IInv /\ RecordInv /\ AllBacked /\ [Next]_vars => AllBacked'
    BY <1>2
  <1>5. IInv /\ AllBacked => OutcomeMatchesRecord
    BY <1>3
  <1>. QED  BY <1>1, <1>4, <1>5, InductiveInvariant, RecordInvariant, PTL DEF Spec

=============================================================================
